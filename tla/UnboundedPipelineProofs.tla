---------------------- MODULE UnboundedPipelineProofs ----------------------
(***************************************************************************)
(* Theorems about UnboundedPipeline, for every set of tenants, replicas and*)
(* requests and every bound: what its runs check on a small instance.      *)
(*                                                                         *)
(* Each sum of the properties is a Tally (see Counting) of what one request*)
(* stands for: Owed against the period, Carried and Pledged against the    *)
(* admitted work, Counts against the allowance of a half fix. Shape says   *)
(* where a request that stands for something can be. A step moves one      *)
(* request, hence a sum by at most that request's part, and the row or the *)
(* counter moves by the same amount in the same step or in an earlier one. *)
(***************************************************************************)
EXTENDS UnboundedPipeline, Counting

(* What Descriptor and the assumption give. *)
LEMMA Inputs ==
  ASSUME req \in [Requests -> Workload], NEW r \in Requests
  PROVE  /\ req[r] \in Descriptor
         /\ Tenant(r) \in Tenants /\ Key(r) \in Keys /\ req[r].replica \in Replicas
         /\ Size(r) \in Nat /\ Size(r) <= MaxLookups
         /\ Op(r) \in {"enrich", "import", "read"}
         /\ Op(r) # "enrich" => Fix(r) = "none"
         /\ Fix(r) \in Fixes
<1>1. req[r] \in Descriptor /\ MaxLookups \in Nat /\ Tenants \subseteq Keys
  BY UnboundedAssumption
<1>2. QED
  BY <1>1 DEF Descriptor, Tenant, Key, Size, Op, Fix, Fixes

-----------------------------------------------------------------------------
(* The shape of a request *)

(* How far a bundle has come: flushed before anything is paid, and billed for
   the chunks that were answered and the one that may still be.              *)
ImportShape(r) ==
  /\ performed[r] <= Size(r) /\ flushed[r] <= Size(r)
  /\ billed[r] = performed[r] + (IF call[r] = "billed" THEN CallSize(r) ELSE 0)
  /\ phase[r] \notin {"early", "admitting", "reading"}
  /\ phase[r] \in {"queued", "flushing", "requeued"} => call[r] = "idle" /\ performed[r] = 0
  /\ phase[r] = "queued" => flushed[r] = 0
  /\ phase[r] \in {"requeued", "paying", "calling", "storing"} => flushed[r] = Size(r)
  /\ phase[r] \in {"paying", "storing"} => call[r] = "idle"
  /\ call[r] # "idle" \/ performed[r] # 0 => flushed[r] = Size(r)

(* One call, billed once and whole; made early under half fix 5 only. *)
EnrichShape(r) ==
  /\ performed[r] = 0 /\ flushed[r] = 0
  /\ phase[r] \notin {"flushing", "requeued", "reading"}
  /\ billed[r] \in {0, Size(r)}
  /\ call[r] \in {"sent", "working", "refused"} => billed[r] = 0
  /\ Fix(r) # "deadline" =>
       /\ phase[r] # "early"
       /\ phase[r] \in {"queued", "paying", "admitting"} => call[r] = "idle" /\ billed[r] = 0

ReadShape(r) ==
  /\ performed[r] = 0 /\ flushed[r] = 0 /\ billed[r] = 0 /\ call[r] = "idle"
  /\ phase[r] \notin {"early", "requeued"} \cup (Holding \ {"reading"})

OwnShape(r) ==
  /\ phase[r] \in {"absent", "arrived"} =>
       call[r] = "idle" /\ billed[r] = 0 /\ performed[r] = 0 /\ flushed[r] = 0
  /\ Op(r) = "import" => ImportShape(r)
  /\ Op(r) = "enrich" => EnrichShape(r)
  /\ Op(r) = "read"   => ReadShape(r)

Shape == \A r \in Requests : OwnShape(r)

(* A job is the last thing its import did, and nothing of it is outstanding. *)
JobShape ==
  \A j \in jobs :
    /\ Ended(j.request) /\ Op(j.request) = "import" /\ call[j.request] = "idle"
    /\ j.cents = Price * billed[j.request]

Typed ==
  /\ period \in Nat
  /\ admitted \in [Tenants -> Nat]
  /\ jobs \subseteq Job
  /\ spent \in [Replicas -> [Counted -> [Keys -> Nat]]]
  /\ req \in [Requests -> Workload]
  /\ phase \in [Requests -> Phases]
  /\ flushed \in [Requests -> Nat] /\ performed \in [Requests -> Nat]
  /\ call \in [Requests -> Calls]
  /\ billed \in [Requests -> Nat]
  /\ errors \in 0..MaxErrors /\ crashes \in 0..MaxCrashes

(* A call is no longer than the request, whatever was performed of it. *)
LEMMA CallSizes ==
  ASSUME Typed, Shape, NEW r \in Requests
  PROVE  /\ CallSize(r) \in Nat /\ performed[r] + CallSize(r) <= Size(r)
         /\ Op(r) # "import" => CallSize(r) = Size(r)
         /\ flushed[r] < Size(r) =>
              FlushSize(r) \in Nat /\ flushed[r] + FlushSize(r) <= Size(r)
<1>1. Size(r) \in Nat /\ performed[r] \in Nat /\ flushed[r] \in Nat
      /\ Op(r) \in {"enrich", "import", "read"}
  BY Inputs DEF Typed
<1>2. Chunk \in Nat /\ Flush \in Nat
  BY UnboundedAssumption
<1>3. /\ Op(r) = "import" => performed[r] <= Size(r)
      /\ Op(r) # "import" => performed[r] = 0
  BY <1>1 DEF Shape, OwnShape, ImportShape, EnrichShape, ReadShape
<1>4. QED
  BY <1>1, <1>2, <1>3 DEF CallSize, FlushSize, Least

-----------------------------------------------------------------------------
(* One request moves at a time *)

Moves(r) == Arrive(r) \/ Handler(r) \/ PoolTimeout(r) \/ Provider(r) \/ StatementFails(r)

Same(x) ==
  /\ req'[x] = req[x] /\ phase'[x] = phase[x] /\ call'[x] = call[x]
  /\ flushed'[x] = flushed[x] /\ performed'[x] = performed[x] /\ billed'[x] = billed[x]

(* Every step but a crash leaves the other requests alone. *)
LEMMA OthersStay ==
  ASSUME Typed, NEW r \in Requests, Moves(r), NEW x \in Requests, x # r
  PROVE  Same(x)
<1>1. CASE Arrive(r)
  BY <1>1 DEF Arrive, Goto, Typed, Same, storeVars, localVars, providerVars, faultVars
<1>2. CASE RefuseLocally(r) \/ PoolTimeout(r)
  BY <1>2 DEF RefuseLocally, PoolTimeout, Goto, Typed, Same, storeVars, localVars, providerVars, faultVars
<1>3. CASE Enter(r)
  BY <1>3 DEF Enter, Send, Goto, Typed, Same, storeVars, localVars, providerVars, faultVars
<1>4. CASE EarlyAnswer(r)
  BY <1>4 DEF EarlyAnswer, Goto, Typed, Same, storeVars, localVars, providerVars, faultVars
<1>5. CASE TakeConnection(r)
  BY <1>5 DEF TakeConnection, Goto, Typed, Same, storeVars, localVars, providerVars, faultVars
<1>6. CASE Read(r) \/ Flushed(r) \/ CallFails(r)
  BY <1>6 DEF Read, Flushed, CallFails, GiveBack, Goto, Typed, Same, storeVars, localVars, providerVars, faultVars
<1>7. CASE FlushAdmitted(r)
  BY <1>7 DEF FlushAdmitted, Admit, Goto, Typed, Same, storeVars, localVars, providerVars, faultVars
<1>8. CASE ChargePool(r)
  BY <1>8 DEF ChargePool, Send, Goto, Typed, Same, storeVars, localVars, providerVars, faultVars
<1>9. CASE PoolDrained(r)
  BY <1>9 DEF PoolDrained, GiveBack, Goto, Typed, Same, storeVars, localVars, providerVars, faultVars
<1>10. CASE AdmitWork(r)
  BY <1>10 DEF AdmitWork, Send, Goto, Typed, Same, storeVars, localVars, providerVars, faultVars
<1>11. CASE Answer(r)
  BY <1>11 DEF Answer, Goto, Typed, Same, storeVars, localVars, providerVars, faultVars
<1>12. CASE Store(r)
  BY <1>12 DEF Store, GiveBack, Goto, Typed, Same, storeVars, localVars, providerVars, faultVars
<1>13. CASE Provider(r)
  BY <1>13 DEF Provider, AcceptCall, RefuseCall, ChargeCall, ProviderMoves, Goto, Typed, Same, storeVars, localVars, providerVars, faultVars
<1>14. CASE StatementFails(r)
  BY <1>14 DEF StatementFails, GiveBack, Goto, Typed, Same, storeVars, localVars, providerVars, faultVars
<1>15. QED
  BY <1>1, <1>2, <1>3, <1>4, <1>5, <1>6, <1>7, <1>8, <1>9, <1>10, <1>11, <1>12, <1>13, <1>14
     DEF Moves, Handler, Entering, Importing, Spending

(* What a request is stays where it stands, whatever moves it. *)
LEMMA MoverTyped ==
  ASSUME Typed, Shape, NEW r \in Requests, Moves(r)
  PROVE  Typed'
<1>1. /\ Op(r) \in {"enrich", "import", "read"} /\ Size(r) \in Nat /\ Fix(r) \in Fixes
      /\ Tenant(r) \in Tenants /\ Key(r) \in Keys /\ req[r].replica \in Replicas
      /\ CallSize(r) \in Nat /\ performed[r] \in Nat /\ flushed[r] \in Nat
      /\ flushed[r] < Size(r) => FlushSize(r) \in Nat
  BY Inputs, CallSizes DEF Typed
<1>2. MaxErrors \in Nat /\ Price \in Nat
  BY UnboundedAssumption
<1>3. Price * CallSize(r) \in Nat /\ Price * Size(r) \in Nat /\ Price * performed[r] \in Nat
  BY <1>1, <1>2
<1>4. CASE Arrive(r)
  BY <1>4, <1>1, <1>2, <1>3 DEF Arrive, Goto, Typed, Phases, Queued, Holding, Outcomes, Calls, Counted, Admit, Pay, InsertJob, Job,
     storeVars, localVars, providerVars, faultVars
<1>5. CASE RefuseLocally(r) \/ PoolTimeout(r)
  BY <1>5, <1>1, <1>2, <1>3 DEF RefuseLocally, PoolTimeout, Goto, Typed, Phases, Queued, Holding, Outcomes, Calls, Counted, Admit, Pay, InsertJob, Job,
     storeVars, localVars, providerVars, faultVars
<1>6. CASE Enter(r)
  <2>1. spent' \in [Replicas -> [Counted -> [Keys -> Nat]]]
    <3>1. CASE Fix(r) \notin Counted
      BY <1>6, <3>1 DEF Enter, Typed
    <3>2. CASE Fix(r) \in Counted
      <4>1. PICK p \in Replicas, f \in Counted, k \in Keys, c \in Nat :
              spent' = [spent EXCEPT ![p][f][k] = @ + c]
        BY <1>1, <1>3, <1>6, <3>2 DEF Enter
      <4>2. spent[p][f][k] + c \in Nat
        BY DEF Typed
      <4>3. QED
        BY <4>1, <4>2 DEF Typed
    <3>3. QED
      BY <3>1, <3>2
  <2>2. QED
    BY <1>6, <1>1, <2>1 DEF Enter, Send, Goto, Typed, Phases, Queued, Calls,
       storeVars, localVars, faultVars
<1>7. CASE EarlyAnswer(r)
  BY <1>7, <1>1, <1>2, <1>3 DEF EarlyAnswer, Goto, Typed, Phases, Queued, Holding, Outcomes, Calls, Counted, Admit, Pay, InsertJob, Job,
     storeVars, localVars, providerVars, faultVars
<1>8. CASE TakeConnection(r)
  BY <1>8, <1>1, <1>2, <1>3 DEF TakeConnection, Goto, Typed, Phases, Queued, Holding, Outcomes, Calls, Counted, Admit, Pay, InsertJob, Job,
     storeVars, localVars, providerVars, faultVars
<1>9. CASE Read(r) \/ Flushed(r) \/ CallFails(r)
  BY <1>9, <1>1, <1>2, <1>3 DEF Read, Flushed, CallFails, GiveBack, Goto, Typed, Phases, Queued, Holding, Outcomes, Calls, Counted, Admit, Pay, InsertJob, Job,
     storeVars, localVars, providerVars, faultVars
<1>10. CASE FlushAdmitted(r)
  BY <1>10, <1>1, <1>2, <1>3 DEF FlushAdmitted, Admit, Goto, Typed, Phases, Queued, Holding, Outcomes, Calls, Counted, Admit, Pay, InsertJob, Job,
     storeVars, localVars, providerVars, faultVars
<1>11. CASE ChargePool(r)
  BY <1>11, <1>1, <1>2, <1>3 DEF ChargePool, Send, Goto, Typed, Phases, Queued, Holding, Outcomes, Calls, Counted, Admit, Pay, InsertJob, Job,
     storeVars, localVars, providerVars, faultVars
<1>12. CASE PoolDrained(r)
  BY <1>12, <1>1, <1>2, <1>3 DEF PoolDrained, GiveBack, Goto, Typed, Phases, Queued, Holding, Outcomes, Calls, Counted, Admit, Pay, InsertJob, Job,
     storeVars, localVars, providerVars, faultVars
<1>13. CASE AdmitWork(r)
  BY <1>13, <1>1, <1>2, <1>3 DEF AdmitWork, Send, Goto, Typed, Phases, Queued, Holding, Outcomes, Calls, Counted, Admit, Pay, InsertJob, Job,
     storeVars, localVars, providerVars, faultVars
<1>14. CASE Answer(r)
  <2>1. performed[r] + CallSize(r) \in Nat
    BY <1>1
  <2>2. performed' = performed \/ performed' = [performed EXCEPT ![r] = performed[r] + CallSize(r)]
    BY <1>14 DEF Answer
  <2>3. performed' \in [Requests -> Nat]
    BY <2>1, <2>2 DEF Typed
  <2>4. phase' \in [Requests -> Phases] /\ call' \in [Requests -> Calls]
    BY <1>14 DEF Answer, Goto, Typed, Phases, Holding, Calls
  <2>5. QED
    BY <1>14, <2>3, <2>4 DEF Answer, Typed, storeVars, faultVars
<1>15. CASE Store(r)
  BY <1>15, <1>1, <1>2, <1>3 DEF Store, GiveBack, Goto, Typed, Phases, Queued, Holding, Outcomes, Calls, Counted, Admit, Pay, InsertJob, Job,
     storeVars, localVars, providerVars, faultVars
<1>16. CASE Provider(r)
  BY <1>16, <1>1, <1>2, <1>3 DEF Provider, AcceptCall, RefuseCall, ChargeCall, ProviderMoves, Goto, Typed, Phases, Queued, Holding, Outcomes, Calls, Counted, Admit, Pay, InsertJob, Job,
     storeVars, localVars, providerVars, faultVars
<1>17. CASE StatementFails(r)
  BY <1>17, <1>1, <1>2, <1>3 DEF StatementFails, GiveBack, Goto, Typed, Phases, Queued, Holding, Outcomes, Calls, Counted, Admit, Pay, InsertJob, Job,
     storeVars, localVars, providerVars, faultVars
<1>18. QED
  BY <1>4, <1>5, <1>6, <1>7, <1>8, <1>9, <1>10, <1>11, <1>12, <1>13, <1>14, <1>15, <1>16, <1>17
     DEF Moves, Handler, Entering, Importing, Spending

(* The mover keeps a shape. *)
LEMMA MoverShaped ==
  ASSUME Typed, Shape, NEW r \in Requests, Moves(r)
  PROVE  OwnShape(r)'
<1>1. /\ Op(r) \in {"enrich", "import", "read"} /\ Size(r) \in Nat
      /\ CallSize(r) \in Nat /\ performed[r] \in Nat /\ flushed[r] \in Nat
      /\ performed[r] + CallSize(r) <= Size(r)
      /\ Op(r) # "import" => CallSize(r) = Size(r)
      /\ flushed[r] < Size(r) => FlushSize(r) \in Nat /\ flushed[r] + FlushSize(r) <= Size(r)
  BY Inputs, CallSizes DEF Typed
<1>2. OwnShape(r) /\ phase[r] \in Phases /\ call[r] \in Calls /\ billed[r] \in Nat
  BY DEF Shape, Typed
<1>3. CASE Arrive(r)
  <2>1. call'[r] = "idle" /\ billed'[r] = 0 /\ performed'[r] = 0 /\ flushed'[r] = 0
        /\ phase'[r] = "arrived"
    BY <1>2, <1>3 DEF Arrive, Goto, OwnShape, Typed, localVars, providerVars
  <2>2. req' \in [Requests -> Workload]
    BY <1>3 DEF Arrive, Typed
  <2>3. PICK w \in Workload : req'[r] = w
    BY <2>2
  <2>4. w.op \in {"enrich", "import", "read"} /\ w.lookups \in Nat
    BY UnboundedAssumption DEF Descriptor
  <2>5. QED
    BY <2>1, <2>3, <2>4 DEF OwnShape, ImportShape, EnrichShape, ReadShape, Op, Size, Holding
<1>4. CASE RefuseLocally(r) \/ PoolTimeout(r)
  BY <1>4, <1>1, <1>2 DEF RefuseLocally, PoolTimeout, Goto, Typed, OwnShape, ImportShape, EnrichShape, ReadShape, CallSize,
     Op, Fix, Size, Queued, Holding, Outcomes, Calls, storeVars, localVars, providerVars, faultVars
<1>5. CASE Enter(r)
  BY <1>5, <1>1, <1>2 DEF Enter, Send, Goto, Typed, OwnShape, ImportShape, EnrichShape, ReadShape, CallSize,
     Op, Fix, Size, Queued, Holding, Outcomes, Calls, storeVars, localVars, providerVars, faultVars
<1>6. CASE EarlyAnswer(r)
  BY <1>6, <1>1, <1>2 DEF EarlyAnswer, Goto, Typed, OwnShape, ImportShape, EnrichShape, ReadShape, CallSize,
     Op, Fix, Size, Queued, Holding, Outcomes, Calls, storeVars, localVars, providerVars, faultVars
<1>7. CASE TakeConnection(r)
  BY <1>7, <1>1, <1>2 DEF TakeConnection, Goto, Typed, OwnShape, ImportShape, EnrichShape, ReadShape, CallSize,
     Op, Fix, Size, Queued, Holding, Outcomes, Calls, storeVars, localVars, providerVars, faultVars
<1>8. CASE Read(r) \/ Flushed(r) \/ CallFails(r)
  BY <1>8, <1>1, <1>2 DEF Read, Flushed, CallFails, GiveBack, Goto, Typed, OwnShape, ImportShape, EnrichShape, ReadShape, CallSize,
     Op, Fix, Size, Queued, Holding, Outcomes, Calls, storeVars, localVars, providerVars, faultVars
<1>9. CASE FlushAdmitted(r)
  BY <1>9, <1>1, <1>2 DEF FlushAdmitted, Admit, Goto, Typed, OwnShape, ImportShape, EnrichShape, ReadShape, CallSize,
     Op, Fix, Size, Queued, Holding, Outcomes, Calls, storeVars, localVars, providerVars, faultVars
<1>10. CASE ChargePool(r)
  BY <1>10, <1>1, <1>2 DEF ChargePool, Send, Goto, Typed, OwnShape, ImportShape, EnrichShape, ReadShape, CallSize,
     Op, Fix, Size, Queued, Holding, Outcomes, Calls, storeVars, localVars, providerVars, faultVars
<1>11. CASE PoolDrained(r)
  BY <1>11, <1>1, <1>2 DEF PoolDrained, GiveBack, Goto, Typed, OwnShape, ImportShape, EnrichShape, ReadShape, CallSize,
     Op, Fix, Size, Queued, Holding, Outcomes, Calls, storeVars, localVars, providerVars, faultVars
<1>12. CASE AdmitWork(r)
  BY <1>12, <1>1, <1>2 DEF AdmitWork, Send, Goto, Typed, OwnShape, ImportShape, EnrichShape, ReadShape, CallSize,
     Op, Fix, Size, Queued, Holding, Outcomes, Calls, storeVars, localVars, providerVars, faultVars
<1>13. CASE Answer(r)
  BY <1>13, <1>1, <1>2 DEF Answer, Goto, Typed, OwnShape, ImportShape, EnrichShape, ReadShape, CallSize,
     Op, Fix, Size, Queued, Holding, Outcomes, Calls, storeVars, localVars, providerVars, faultVars
<1>14. CASE Store(r)
  BY <1>14, <1>1, <1>2 DEF Store, GiveBack, Goto, Typed, OwnShape, ImportShape, EnrichShape, ReadShape, CallSize,
     Op, Fix, Size, Queued, Holding, Outcomes, Calls, storeVars, localVars, providerVars, faultVars
<1>15. CASE Provider(r)
  BY <1>15, <1>1, <1>2 DEF Provider, AcceptCall, RefuseCall, ChargeCall, ProviderMoves, Goto, Typed, OwnShape, ImportShape, EnrichShape, ReadShape, CallSize,
     Op, Fix, Size, Queued, Holding, Outcomes, Calls, storeVars, localVars, providerVars, faultVars
<1>16. CASE StatementFails(r)
  BY <1>16, <1>1, <1>2 DEF StatementFails, GiveBack, Goto, Typed, OwnShape, ImportShape, EnrichShape, ReadShape, CallSize,
     Op, Fix, Size, Queued, Holding, Outcomes, Calls, storeVars, localVars, providerVars, faultVars
<1>17. QED
  BY <1>3, <1>4, <1>5, <1>6, <1>7, <1>8, <1>9, <1>10, <1>11, <1>12, <1>13, <1>14, <1>15, <1>16
     DEF Moves, Handler, Entering, Importing, Spending

LEMMA CrashKeeps ==
  ASSUME Typed, Shape, NEW p \in Replicas, Crash(p)
  PROVE  Typed' /\ Shape'
<1>1. Typed'
  <2>1. spent' \in [Replicas -> [Counted -> [Keys -> Nat]]]
    BY DEF Crash, Typed, NothingSpent
  <2>2. QED
    BY <2>1, UnboundedAssumption DEF Crash, Typed, Phases, Outcomes, storeVars, localVars, providerVars
<1>2. ASSUME NEW r \in Requests
      PROVE  OwnShape(r)'
  <2>1. OwnShape(r) /\ Op(r) \in {"enrich", "import", "read"}
        /\ (phase'[r] = phase[r] \/ phase'[r] = "crashed")
        /\ req' = req /\ call' = call /\ flushed' = flushed /\ performed' = performed
        /\ billed' = billed
    BY Inputs DEF Shape, Crash, Typed, localVars, providerVars
  <2>2. QED
    BY <2>1 DEF OwnShape, ImportShape, EnrichShape, ReadShape, CallSize, Op, Fix, Size, Holding
<1>3. QED
  BY <1>1, <1>2 DEF Shape

(* A request that stays keeps its shape. *)
LEMMA SameShape ==
  ASSUME NEW x \in Requests, Same(x), OwnShape(x)
  PROVE  OwnShape(x)'
  BY DEF Same, OwnShape, ImportShape, EnrichShape, ReadShape, CallSize, Op, Fix, Size

LEMMA ShapeStep ==
  ASSUME Typed, Shape, Next
  PROVE  Typed' /\ Shape'
<1>1. ASSUME NEW r \in Requests, Moves(r)
      PROVE  Typed' /\ Shape'
  BY <1>1, MoverTyped, MoverShaped, OthersStay, SameShape DEF Shape
<1>2. CASE Rest
  BY <1>2 DEF Rest, vars, Typed, Shape, OwnShape, ImportShape, EnrichShape, ReadShape,
     CallSize, Op, Fix, Size
<1>3. QED
  BY <1>1, <1>2, CrashKeeps DEF Next, Moves

(* The job of an import that has ended stays true to its bill. *)
LEMMA JobsStep ==
  ASSUME Typed, Shape, JobShape, Next
  PROVE  JobShape'
<1>1. ASSUME NEW r \in Requests, Moves(r)
      PROVE  JobShape'
  <2>1. \A j \in jobs : j.request \in Requests
    BY DEF Typed, Job
  <2>2. ASSUME NEW j \in jobs
        PROVE  /\ Ended(j.request)' /\ (Op(j.request) = "import")' /\ (call[j.request] = "idle")'
               /\ j.cents = Price * billed'[j.request]
    <3>1. CASE j.request # r
      BY <1>1, <2>1, <3>1, OthersStay DEF JobShape, Same, Ended, Op
    <3>2. CASE j.request = r
      BY <1>1, <3>2 DEF JobShape, Ended, Outcomes, Queued, Holding, Moves, Handler, Entering,
         Importing, Spending, Provider, Arrive, RefuseLocally, Enter, EarlyAnswer, TakeConnection,
         PoolTimeout, Read, FlushAdmitted, Flushed, ChargePool, PoolDrained, AdmitWork, Answer,
         CallFails, Store, AcceptCall, RefuseCall, ChargeCall, ProviderMoves, StatementFails
    <3>3. QED
      BY <3>1, <3>2
  <2>3. CASE jobs' = jobs
    BY <2>2, <2>3 DEF JobShape
  <2>4. CASE InsertJob(r) /\ phase[r] = "storing" /\ Op(r) = "import" /\ Ended(r)'
             /\ req' = req /\ call' = call /\ billed' = billed
    <3>1. call[r] = "idle" /\ billed[r] = performed[r]
      BY <2>4, Inputs DEF Shape, OwnShape, ImportShape, Typed
    <3>2. QED
      BY <2>2, <2>4, <3>1 DEF JobShape, InsertJob, Op
  <2>5. jobs' = jobs \/ (InsertJob(r) /\ phase[r] = "storing" /\ Op(r) = "import" /\ Ended(r)'
                        /\ req' = req /\ call' = call /\ billed' = billed)
    BY <1>1 DEF Moves, Handler, Entering, Importing, Spending, Provider, Arrive, RefuseLocally,
       Enter, EarlyAnswer, TakeConnection, PoolTimeout, Read, FlushAdmitted, Flushed, ChargePool,
       PoolDrained, AdmitWork, Answer, CallFails, Store, AcceptCall, RefuseCall, ChargeCall,
       ProviderMoves, StatementFails, storeVars, providerVars, GiveBack, Goto, Ended, Outcomes, Typed
  <2>6. QED
    BY <2>3, <2>4, <2>5
<1>2. ASSUME NEW p \in Replicas, Crash(p)
      PROVE  JobShape'
  <2>1. \A j \in jobs : j.request \in Requests
    BY DEF Typed, Job
  <2>2. QED
    BY <1>2, <2>1 DEF JobShape, Crash, Active, Ended, Outcomes, Op, storeVars, providerVars
<1>3. CASE Rest
  BY <1>3 DEF Rest, vars, JobShape, Ended, Op
<1>4. QED
  BY <1>1, <1>2, <1>3 DEF Next, Moves

-----------------------------------------------------------------------------
(* Connections *)

(* The handlers of replica p that hold a connection. *)
Holders(p) == {r \in Requests : phase[r] \in Holding /\ req[r].replica = p}

Leaves(r, place) == phase[r] \in Holding /\ req' = req /\ GiveBack(r, place)

Ways == {"answered", "requeued", "exhausted", "failed", "unavailable"}

(* Only taking a connection, leaving one and a crash touch a pool or its holders. *)
LEMMA ConnectionSteps ==
  ASSUME Typed, Next
  PROVE  \/ pool' = pool /\ \A p \in Replicas : Holders(p)' = Holders(p)
         \/ \E r \in Requests : TakeConnection(r)
         \/ \E r \in Requests, place \in Ways : Leaves(r, place)
         \/ \E p \in Replicas : Crash(p)
<1> DEFINE Kept == pool' = pool /\ \A p \in Replicas : Holders(p)' = Holders(p)
           Left(r) == \E place \in Ways : Leaves(r, place)
<1>1. ASSUME NEW r \in Requests,
             Arrive(r) \/ RefuseLocally(r) \/ Enter(r) \/ EarlyAnswer(r) \/ PoolTimeout(r)
      PROVE  Kept
  BY <1>1 DEF Arrive, RefuseLocally, Enter, EarlyAnswer, PoolTimeout, Goto, Holders, Holding,
     Queued, Typed
<1>2. ASSUME NEW r \in Requests, FlushAdmitted(r) \/ Provider(r)
      PROVE  Kept
  BY <1>2 DEF FlushAdmitted, Provider, AcceptCall, RefuseCall, ChargeCall, ProviderMoves, Holders
<1>3. ASSUME NEW r \in Requests, ChargePool(r) \/ AdmitWork(r) \/ Answer(r)
      PROVE  Kept
  BY <1>3 DEF ChargePool, AdmitWork, Answer, Goto, Holders, Holding, Typed
<1>4. ASSUME NEW r \in Requests, Read(r) \/ Flushed(r) \/ CallFails(r) \/ Store(r)
      PROVE  Left(r)
  BY <1>4 DEF Read, Flushed, CallFails, Store, Leaves, Ways, Holding
<1>5. ASSUME NEW r \in Requests, StatementFails(r)
      PROVE  Left(r)
  BY <1>5 DEF StatementFails, Leaves, Ways
<1>6. ASSUME NEW r \in Requests, PoolDrained(r)
      PROVE  Kept \/ Left(r)
  <2>1. CASE Op(r) = "import"
    BY <1>6, <2>1 DEF PoolDrained, Goto, Holders, Holding, Typed
  <2>2. CASE Op(r) # "import"
    BY <1>6, <2>2 DEF PoolDrained, Leaves, Ways, Holding
  <2>3. QED
    BY <2>1, <2>2
<1>7. CASE Rest
  BY <1>7 DEF Rest, vars, Holders
<1>8. QED
  BY <1>1, <1>2, <1>3, <1>4, <1>5, <1>6, <1>7 DEF Next, Handler, Entering, Importing, Spending

LEMMA ConnectionsStep ==
  ASSUME Typed, pool \in [Replicas -> Nat], ConnectionsMatchHolders, Next
  PROVE  pool' \in [Replicas -> Nat] /\ ConnectionsMatchHolders'
<1> DEFINE Goal == pool' \in [Replicas -> Nat] /\ ConnectionsMatchHolders'
<1>1. \A p \in Replicas : pool[p] = Cardinality(Holders(p)) /\ pool[p] <= PoolSize /\ pool[p] \in Nat
  BY DEF ConnectionsMatchHolders, Holders
<1>2. \A p : IsFiniteSet(Holders(p)) /\ Cardinality(Holders(p)) \in Nat
  <2>1. \A p : Holders(p) \in SUBSET Requests
    BY DEF Holders
  <2>2. IsFiniteSet(Requests)
    BY UnboundedAssumption
  <2>3. QED
    BY <2>1, <2>2, FS_Subset, FS_CardinalityType
<1>3. PoolSize \in Nat
  BY UnboundedAssumption
<1>4. ASSUME pool' \in [Replicas -> Nat],
             \A p \in Replicas : pool'[p] = Cardinality(Holders(p)') /\ pool'[p] <= PoolSize
      PROVE  Goal
  BY <1>4 DEF ConnectionsMatchHolders, Holders
<1>5. CASE pool' = pool /\ \A p \in Replicas : Holders(p)' = Holders(p)
  BY <1>1, <1>4, <1>5
<1>6. ASSUME NEW r \in Requests, TakeConnection(r)
      PROVE  Goal
  <2>1. PICK q : q = req[r].replica /\ q \in Replicas
    BY Inputs DEF Typed
  <2>2. phase'[r] \in Holding /\ \A x \in Requests : x # r => phase'[x] = phase[x]
    BY <1>6 DEF TakeConnection, Goto, Holding, Typed
  <2>3. /\ r \notin Holders(q)
        /\ Holders(q)' = Holders(q) \cup {r}
        /\ \A p \in Replicas : p # q => Holders(p)' = Holders(p)
    BY <1>6, <2>1, <2>2 DEF TakeConnection, Holders, Queued, Holding
  <2>4. Cardinality(Holders(q) \cup {r}) = Cardinality(Holders(q)) + 1
    BY <1>2, <2>3, FS_AddElement
  <2>5. /\ pool' \in [Replicas -> Nat]
        /\ pool'[q] = pool[q] + 1 /\ pool[q] < PoolSize
        /\ \A p \in Replicas : p # q => pool'[p] = pool[p]
    BY <1>6, <2>1 DEF TakeConnection
  <2>6. pool'[q] = Cardinality(Holders(q)') /\ pool'[q] <= PoolSize
    BY <1>1, <1>3, <2>1, <2>3, <2>4, <2>5
  <2>7. QED
    BY <1>1, <1>4, <2>3, <2>5, <2>6
<1>7. ASSUME NEW r \in Requests, NEW place \in Ways, Leaves(r, place)
      PROVE  Goal
  <2>1. PICK q : q = req[r].replica /\ q \in Replicas
    BY Inputs DEF Typed
  <2>2. /\ r \in Holders(q)
        /\ Holders(q)' = Holders(q) \ {r}
        /\ \A p \in Replicas : p # q => Holders(p)' = Holders(p)
    BY <1>7, <2>1 DEF Leaves, GiveBack, Goto, Holders, Holding, Ways, Typed
  <2>3. Cardinality(Holders(q) \ {r}) = Cardinality(Holders(q)) - 1
    BY <1>2, <2>2, FS_RemoveElement
  <2>4. Cardinality(Holders(q)) # 0
    BY <1>2, <2>2, FS_EmptySet
  <2>5. /\ pool' = [pool EXCEPT ![q] = pool[q] - 1]
        /\ pool'[q] = pool[q] - 1
        /\ \A p \in Replicas : p # q => pool'[p] = pool[p]
    BY <1>7, <2>1 DEF Leaves, GiveBack
  <2>6. pool[q] - 1 \in Nat
    BY <1>1, <1>2, <2>1, <2>4
  <2>7. pool' \in [Replicas -> Nat]
    BY <2>1, <2>5, <2>6
  <2>8. pool'[q] = Cardinality(Holders(q)') /\ pool'[q] <= PoolSize
    BY <1>1, <1>3, <2>1, <2>2, <2>3, <2>5, <2>6
  <2>9. QED
    BY <1>1, <1>4, <2>2, <2>5, <2>7, <2>8
<1>8. ASSUME NEW q \in Replicas, Crash(q)
      PROVE  Goal
  <2>1. /\ pool' \in [Replicas -> Nat]
        /\ pool'[q] = 0
        /\ \A p \in Replicas : p # q => pool'[p] = pool[p]
    BY <1>8 DEF Crash
  <2>2. /\ Holders(q)' = {}
        /\ \A p \in Replicas : p # q => Holders(p)' = Holders(p)
    BY <1>8 DEF Crash, Active, Outcomes, Holding, Holders
  <2>3. Cardinality(Holders(q)') = 0
    BY <2>2, FS_EmptySet
  <2>4. QED
    BY <1>1, <1>3, <1>4, <2>1, <2>2, <2>3
<1>9. QED
  BY <1>5, <1>6, <1>7, <1>8, ConnectionSteps

-----------------------------------------------------------------------------
(* The period *)

(* Lookups of r that are billed or will be: all of them paid for. *)
Owed(r) ==
  IF Fix(r) = "deadline" THEN 0
  ELSE billed[r] + (IF phase[r] = "admitting" \/ call[r] \in {"sent", "working"}
                    THEN CallSize(r) ELSE 0)

Owing == [r \in Requests |-> Owed(r)]

PeriodShape == Price * Tally(Requests, MaxLookups, Owing) <= period /\ period <= Cap

LEMMA OwedStays ==
  ASSUME NEW x \in Requests, Same(x)
  PROVE  Owed(x)' = Owed(x)
  BY DEF Same, Owed, CallSize, Op, Fix, Size

LEMMA OwedIsNat ==
  ASSUME Typed, Shape
  PROVE  \A r \in Requests : Owed(r) \in Nat
  BY CallSizes DEF Owed, Typed

LEMMA OwedIsNatNext ==
  ASSUME Typed', Shape'
  PROVE  \A r \in Requests : Owed(r)' \in Nat
<1>1. ASSUME NEW r \in Requests
      PROVE  Owed(r)' \in Nat
  <2>1. PICK w \in Workload : req'[r] = w
    BY DEF Typed
  <2>2. w.lookups \in Nat /\ w.op \in {"enrich", "import", "read"} /\ Chunk \in Nat
    BY UnboundedAssumption DEF Descriptor
  <2>3. billed'[r] \in Nat /\ performed'[r] \in Nat
    BY DEF Typed
  <2>4. w.op = "import" => performed'[r] <= w.lookups
    BY <2>1 DEF Shape, OwnShape, ImportShape, Op, Size
  <2>5. CallSize(r)' \in Nat
    BY <2>1, <2>2, <2>3, <2>4 DEF CallSize, Least, Op, Size
  <2>6. QED
    BY <2>3, <2>5 DEF Owed
<1>2. QED
  BY <1>1

(* What a step adds to the debt of its request, it pays in the same step. *)
LEMMA OwedIsPaid ==
  ASSUME Typed, Shape, period <= Cap, NEW r \in Requests, Moves(r)
  PROVE  \E k \in Nat : /\ period' = period + Price * k /\ period' <= Cap
                         /\ Owed(r)' <= Owed(r) + k
<1> DEFINE Free == period' = period /\ Owed(r)' <= Owed(r)
<1>1. /\ Op(r) \in {"enrich", "import", "read"} /\ Size(r) \in Nat
      /\ CallSize(r) \in Nat /\ performed[r] \in Nat /\ billed[r] \in Nat
      /\ Op(r) # "import" => CallSize(r) = Size(r)
  BY Inputs, CallSizes DEF Typed
<1>2. OwnShape(r) /\ Price \in Nat /\ Cap \in Nat /\ period \in Nat
  BY UnboundedAssumption DEF Shape, Typed
<1>3. ASSUME Free
      PROVE  \E k \in Nat : /\ period' = period + Price * k /\ period' <= Cap
                             /\ Owed(r)' <= Owed(r) + k
  BY <1>2, <1>3, OwedIsNat, OwedIsNatNext, MoverTyped, ShapeStep, Price * 0 = 0
<1>4. CASE Arrive(r)
  <2>1. Free
    BY <1>4, <1>1, <1>2 DEF Arrive, Goto, OwnShape, ImportShape, EnrichShape,
       ReadShape, Owed, CallSize, Op, Fix, Size, Holding, Queued, Typed, storeVars, localVars, providerVars
  <2>2. QED
    BY <1>3, <2>1
<1>5. CASE RefuseLocally(r) \/ PoolTimeout(r)
  <2>1. Free
    BY <1>5, <1>1, <1>2 DEF RefuseLocally, PoolTimeout, Goto, OwnShape, ImportShape, EnrichShape,
       ReadShape, Owed, CallSize, Op, Fix, Size, Holding, Queued, Typed, storeVars, localVars, providerVars
  <2>2. QED
    BY <1>3, <2>1
<1>6. CASE Enter(r)
  <2>1. Free
    BY <1>6, <1>1, <1>2 DEF Enter, Send, Goto, OwnShape, ImportShape, EnrichShape,
       ReadShape, Owed, CallSize, Op, Fix, Size, Holding, Queued, Typed, storeVars, localVars, providerVars
  <2>2. QED
    BY <1>3, <2>1
<1>7. CASE EarlyAnswer(r)
  <2>1. Free
    BY <1>7, <1>1, <1>2 DEF EarlyAnswer, Goto, OwnShape, ImportShape, EnrichShape,
       ReadShape, Owed, CallSize, Op, Fix, Size, Holding, Queued, Typed, storeVars, localVars, providerVars
  <2>2. QED
    BY <1>3, <2>1
<1>8. CASE TakeConnection(r)
  <2>1. Free
    BY <1>8, <1>1, <1>2 DEF TakeConnection, Goto, OwnShape, ImportShape, EnrichShape,
       ReadShape, Owed, CallSize, Op, Fix, Size, Holding, Queued, Typed, storeVars, localVars, providerVars
  <2>2. QED
    BY <1>3, <2>1
<1>9. CASE Read(r) \/ Flushed(r) \/ CallFails(r)
  <2>1. Free
    BY <1>9, <1>1, <1>2 DEF Read, Flushed, CallFails, GiveBack, Goto, OwnShape, ImportShape, EnrichShape,
       ReadShape, Owed, CallSize, Op, Fix, Size, Holding, Queued, Typed, storeVars, localVars, providerVars
  <2>2. QED
    BY <1>3, <2>1
<1>10. CASE FlushAdmitted(r)
  <2>1. Free
    BY <1>10, <1>1, <1>2 DEF FlushAdmitted, Admit, Goto, OwnShape, ImportShape, EnrichShape,
       ReadShape, Owed, CallSize, Op, Fix, Size, Holding, Queued, Typed, storeVars, localVars, providerVars
  <2>2. QED
    BY <1>3, <2>1
<1>11. CASE ChargePool(r)
  <2>1. period' = period + Price * CallSize(r) /\ period' <= Cap
    BY <1>11 DEF ChargePool, Pay, PoolHasRoom
  <2>2. Owed(r)' <= Owed(r) + CallSize(r)
    BY <1>11, <1>1, <1>2 DEF ChargePool, Send, Goto, OwnShape, ImportShape, EnrichShape, ReadShape,
       Owed, CallSize, Op, Fix, Size, Holding, Typed, localVars
  <2>3. QED
    BY <1>1, <2>1, <2>2
<1>12. CASE PoolDrained(r)
  <2>1. Free
    BY <1>12, <1>1, <1>2 DEF PoolDrained, GiveBack, Goto, OwnShape, ImportShape, EnrichShape,
       ReadShape, Owed, CallSize, Op, Fix, Size, Holding, Queued, Typed, storeVars, localVars, providerVars
  <2>2. QED
    BY <1>3, <2>1
<1>13. CASE AdmitWork(r)
  <2>1. Free
    BY <1>13, <1>1, <1>2 DEF AdmitWork, Send, Goto, OwnShape, ImportShape, EnrichShape,
       ReadShape, Owed, CallSize, Op, Fix, Size, Holding, Queued, Typed, storeVars, localVars, providerVars
  <2>2. QED
    BY <1>3, <2>1
<1>14. CASE Answer(r)
  <2>1. Free
    BY <1>14, <1>1, <1>2 DEF Answer, Goto, OwnShape, ImportShape, EnrichShape,
       ReadShape, Owed, CallSize, Op, Fix, Size, Holding, Queued, Typed, storeVars, localVars, providerVars
  <2>2. QED
    BY <1>3, <2>1
<1>15. CASE Store(r)
  <2>1. Free
    BY <1>15, <1>1, <1>2 DEF Store, GiveBack, Goto, OwnShape, ImportShape, EnrichShape,
       ReadShape, Owed, CallSize, Op, Fix, Size, Holding, Queued, Typed, storeVars, localVars, providerVars
  <2>2. QED
    BY <1>3, <2>1
<1>16. CASE Provider(r)
  <2>1. Free
    BY <1>16, <1>1, <1>2 DEF Provider, AcceptCall, RefuseCall, ChargeCall, ProviderMoves, Goto, OwnShape, ImportShape, EnrichShape,
       ReadShape, Owed, CallSize, Op, Fix, Size, Holding, Queued, Typed, storeVars, localVars, providerVars
  <2>2. QED
    BY <1>3, <2>1
<1>17. CASE StatementFails(r)
  <2>1. Owed(r)' <= Owed(r)
    BY <1>17, <1>1, <1>2 DEF StatementFails, GiveBack, Goto, Owed, CallSize, Op, Fix, Size, Typed,
       localVars, providerVars
  <2>2. period' = period \/ (period' = period + Price * CallSize(r) /\ period' <= Cap)
    BY <1>17 DEF StatementFails, Pay, PoolHasRoom, storeVars
  <2>3. CASE period' = period + Price * CallSize(r) /\ period' <= Cap
    <3>1. Owed(r) \in Nat /\ Owed(r)' \in Nat
      BY OwedIsNat, OwedIsNatNext, ShapeStep DEF Moves, Next
    <3>2. QED
      BY <1>1, <2>1, <2>3, <3>1
  <2>4. QED
    BY <1>3, <2>1, <2>2, <2>3
<1>18. QED
  BY <1>4, <1>5, <1>6, <1>7, <1>8, <1>9, <1>10, <1>11, <1>12, <1>13, <1>14, <1>15, <1>16, <1>17
     DEF Moves, Handler, Entering, Importing, Spending

LEMMA PeriodStep ==
  ASSUME Typed, Shape, PeriodShape, Next
  PROVE  PeriodShape'
<1>1. /\ Price \in Nat /\ Cap \in Nat /\ MaxLookups \in Nat /\ IsFiniteSet(Requests)
      /\ period \in Nat /\ Typed' /\ Shape'
  BY UnboundedAssumption, ShapeStep DEF Typed
<1>2. \A x \in Requests : Owing[x] \in Nat /\ Owing'[x] \in Nat
  BY <1>1, OwedIsNat, OwedIsNatNext DEF Owing
<1>3. ASSUME NEW k \in Nat, period' = period + Price * k, period' <= Cap,
             Tally(Requests, MaxLookups, Owing') <= Tally(Requests, MaxLookups, Owing) + k
      PROVE  PeriodShape'
  <2>1. PICK a \in Nat, b \in Nat : /\ a = Tally(Requests, MaxLookups, Owing')
                                    /\ b = Tally(Requests, MaxLookups, Owing)
    BY <1>1, TallyBounded
  <2>2. Price * a <= Price * b + Price * k
    BY <1>1, <1>3, <2>1, Scaled
  <2>3. Price * b <= period
    BY <2>1 DEF PeriodShape
  <2>4. Price * a \in Nat /\ Price * b \in Nat /\ Price * k \in Nat
    BY <1>1
  <2>5. Price * a <= period'
    BY <1>1, <1>3, <2>2, <2>3, <2>4
  <2>6. a = Tally(Requests, MaxLookups, Owing)'
    BY <2>1 DEF Tally, Cells, Owing
  <2>7. QED
    BY <1>3, <2>5, <2>6 DEF PeriodShape
<1>4. ASSUME NEW r \in Requests, Moves(r)
      PROVE  PeriodShape'
  <2>1. PICK k \in Nat : period' = period + Price * k /\ period' <= Cap /\ Owed(r)' <= Owed(r) + k
    BY <1>4, OwedIsPaid DEF PeriodShape
  <2>2. \A x \in Requests : x # r => Owing'[x] <= Owing[x]
    BY <1>2, <1>4, OthersStay, OwedStays DEF Owing
  <2>3. Owing'[r] <= Owing[r] + k
    BY <2>1 DEF Owing
  <2>4. Tally(Requests, MaxLookups, Owing') <= Tally(Requests, MaxLookups, Owing) + k
    BY <1>1, <1>2, <2>2, <2>3, TallyGrowsAtMost
  <2>5. QED
    BY <1>3, <2>1, <2>4
<1>5. ASSUME period' = period, \A x \in Requests : Owed(x)' <= Owed(x)
      PROVE  PeriodShape'
  <2>1. Tally(Requests, MaxLookups, Owing') <= Tally(Requests, MaxLookups, Owing)
    <3>1. \A x \in Requests : Owing'[x] \in Int /\ Owing[x] \in Int /\ Owing'[x] <= Owing[x]
      BY <1>2, <1>5 DEF Owing
    <3>2. QED
      BY <1>1, <3>1, TallyMonotone
  <2>2. Tally(Requests, MaxLookups, Owing) \in Nat /\ Tally(Requests, MaxLookups, Owing') \in Nat
    BY <1>1, TallyBounded
  <2>3. Price * 0 = 0 /\ period' = period + Price * 0 /\ period' <= Cap
    BY <1>1, <1>5 DEF PeriodShape
  <2>4. QED
    BY <1>3, <2>1, <2>2, <2>3
<1>6. ASSUME NEW p \in Replicas, Crash(p)
      PROVE  PeriodShape'
  <2>1. ASSUME NEW x \in Requests
        PROVE  Owed(x)' <= Owed(x)
    <3>1. req' = req /\ call' = call /\ billed' = billed /\ performed' = performed
          /\ (phase'[x] = phase[x] \/ phase'[x] = "crashed")
      BY <1>6 DEF Crash, localVars, providerVars, Typed
    <3>2. CallSize(x) \in Nat /\ billed[x] \in Nat
      BY CallSizes DEF Typed
    <3>3. CallSize(x)' = CallSize(x) /\ Fix(x)' = Fix(x)
      BY <3>1 DEF CallSize, Op, Size, Fix
    <3>4. QED
      BY <3>1, <3>2, <3>3 DEF Owed
  <2>2. QED
    BY <1>5, <1>6, <2>1 DEF Crash, storeVars
<1>7. CASE Rest
  <2>1. period' = period /\ \A x \in Requests : Owed(x)' <= Owed(x)
    BY <1>7, OwedIsNat DEF Rest, vars, Owed, CallSize, Op, Fix, Size
  <2>2. QED
    BY <1>5, <2>1
<1>8. QED
  BY <1>4, <1>6, <1>7 DEF Next, Moves

(* The bill is part of what is owed. *)
LEMMA PeriodCovers ==
  ASSUME Typed, Shape, PeriodShape
  PROVE  PeriodPaysBill
<1> DEFINE S == {r \in Requests : Fix(r) # "deadline"}
<1>1. /\ Price \in Nat /\ MaxLookups \in Nat /\ IsFiniteSet(Requests) /\ period \in Nat
  BY UnboundedAssumption DEF Typed
<1>2. \A r \in S : billed[r] \in Nat /\ (billed[r] # 0 => r \in Requests /\ Owing[r] \in Nat /\ billed[r] <= Owing[r])
  BY CallSizes DEF Owing, Owed, Typed
<1>3. Tally(S, MaxLookups, billed) <= Tally(Requests, MaxLookups, Owing)
  <2> HIDE DEF S
  <2>1. QED
    BY <1>1, <1>2, TallyWithin
<1>4. BilledTo(S) = Tally(S, MaxLookups, billed)
  BY DEF BilledTo, Lookups, Tally, Cells
<1>5. IsFiniteSet(S)
  BY <1>1, FS_Subset
<1>6. PICK a \in Nat, b \in Nat : /\ a = Tally(S, MaxLookups, billed)
                                  /\ b = Tally(Requests, MaxLookups, Owing)
  BY <1>1, <1>5, TallyBounded
<1>7. Price * a <= Price * b
  <2>1. Price * a <= Price * b + Price * 0 /\ Price * 0 = 0
    BY <1>1, <1>3, <1>6, Scaled
  <2>2. Price * a \in Nat /\ Price * b \in Nat
    BY <1>1
  <2>3. QED
    BY <2>1, <2>2
<1>8. Price * b <= period /\ period <= Cap
  BY <1>6 DEF PeriodShape
<1>9. Price * a <= period
  <2>1. Price * a \in Nat /\ Price * b \in Nat
    BY <1>1
  <2>2. QED
    BY <1>1, <1>7, <1>8, <2>1
<1>10. QED
  BY <1>4, <1>6, <1>8, <1>9 DEF PeriodPaysBill

-----------------------------------------------------------------------------
(* Admitted work *)

(* Lookups of r that must be on record: what an import has flushed, what an
   enrich has sent, half fix 5 excepted.                                     *)
Carried(r) ==
  IF Op(r) = "import" THEN flushed[r]
  ELSE IF Fix(r) = "deadline" THEN 0
  ELSE billed[r] + (IF call[r] \in {"sent", "working"} THEN Size(r) ELSE 0)

(* At most this much of r is on record. *)
Unrecorded == {"absent", "arrived", "early", "queued", "flushing", "paying", "admitting"}
Pledged(r) == IF phase[r] \in Unrecorded THEN flushed[r] ELSE Size(r)

CarriedBy(t) == [r \in Requests |-> IF Tenant(r) = t THEN Carried(r) ELSE 0]
PledgedBy(t) == [r \in Requests |-> IF Tenant(r) = t THEN Pledged(r) ELSE 0]

AdmittedShape ==
  \A t \in Tenants : /\ Tally(Requests, MaxLookups, CarriedBy(t)) <= admitted[t]
                     /\ admitted[t] <= Tally(Requests, MaxLookups, PledgedBy(t))

LEMMA PartsStay ==
  ASSUME NEW x \in Requests, Same(x)
  PROVE  Carried(x)' = Carried(x) /\ Pledged(x)' = Pledged(x) /\ Tenant(x)' = Tenant(x)
  BY DEF Same, Carried, Pledged, Unrecorded, Op, Fix, Size, Tenant

LEMMA PartsAreNat ==
  ASSUME Typed, Shape, NEW r \in Requests
  PROVE  Carried(r) \in Nat /\ Pledged(r) \in Nat /\ Pledged(r) <= MaxLookups
<1>1. /\ Size(r) \in Nat /\ Size(r) <= MaxLookups /\ billed[r] \in Nat /\ flushed[r] \in Nat
      /\ Op(r) \in {"enrich", "import", "read"} /\ MaxLookups \in Nat
  BY Inputs, UnboundedAssumption DEF Typed
<1>2. flushed[r] <= Size(r)
  BY <1>1 DEF Shape, OwnShape, ImportShape, EnrichShape, ReadShape
<1>3. QED
  BY <1>1, <1>2 DEF Carried, Pledged

LEMMA PartsAreNatNext ==
  ASSUME Typed', Shape', NEW r \in Requests
  PROVE  Carried(r)' \in Nat /\ Pledged(r)' \in Nat /\ Pledged(r)' <= MaxLookups
<1>1. PICK w \in Workload : req'[r] = w
  BY DEF Typed
<1>2. /\ w.lookups \in Nat /\ w.lookups <= MaxLookups /\ billed'[r] \in Nat /\ flushed'[r] \in Nat
      /\ w.op \in {"enrich", "import", "read"} /\ MaxLookups \in Nat
  BY UnboundedAssumption DEF Descriptor, Typed
<1>3. flushed'[r] <= w.lookups
  BY <1>1, <1>2 DEF Shape, OwnShape, ImportShape, EnrichShape, ReadShape, Op, Size
<1>4. QED
  BY <1>1, <1>2, <1>3 DEF Carried, Pledged, Op, Size

(* A step records k more lookups for its tenant: at least what its request has
   come to carry, at most what it had left to pledge.                        *)
Records(r, k) ==
  /\ Tenant(r)' = Tenant(r)
  /\ admitted' = [admitted EXCEPT ![Tenant(r)] = @ + k]
  /\ Carried(r)' <= Carried(r) + k
  /\ Pledged(r) + k <= Pledged(r)'

LEMMA AdmittedMoves ==
  ASSUME Typed, Shape, NEW r \in Requests, Moves(r)
  PROVE  Arrive(r) \/ \E k \in Nat : Records(r, k)
<1>1. /\ Op(r) \in {"enrich", "import", "read"} /\ Size(r) \in Nat /\ Tenant(r) \in Tenants
      /\ CallSize(r) \in Nat /\ performed[r] \in Nat /\ billed[r] \in Nat /\ flushed[r] \in Nat
      /\ Op(r) # "import" => CallSize(r) = Size(r)
      /\ flushed[r] < Size(r) => FlushSize(r) \in Nat /\ flushed[r] + FlushSize(r) <= Size(r)
  BY Inputs, CallSizes DEF Typed
<1>2. /\ OwnShape(r) /\ admitted \in [Tenants -> Nat]
      /\ Carried(r) \in Nat /\ Pledged(r) \in Nat /\ flushed[r] <= Size(r)
  <2>1. flushed[r] <= Size(r)
    BY <1>1 DEF Shape, OwnShape, ImportShape, EnrichShape, ReadShape
  <2>2. QED
    BY <2>1, PartsAreNat DEF Shape, Typed
<1>3. ASSUME admitted' = admitted, req' = req, Carried(r)' <= Carried(r), Pledged(r) <= Pledged(r)'
      PROVE  Records(r, 0)
  BY <1>1, <1>2, <1>3, PartsAreNatNext, ShapeStep DEF Records, Tenant, Moves, Next
<1> DEFINE Silent == admitted' = admitted /\ req' = req /\ Carried(r)' <= Carried(r)
                     /\ Pledged(r) <= Pledged(r)'
<1>4. CASE RefuseLocally(r) \/ PoolTimeout(r)
  <2>1. Silent
    BY <1>4, <1>1, <1>2 DEF RefuseLocally, PoolTimeout, Goto, OwnShape, ImportShape, EnrichShape,
       ReadShape, Carried, Pledged, Unrecorded, CallSize, Op,
       Fix, Size, Tenant, Holding, Queued, Outcomes, Typed, storeVars, localVars, providerVars
  <2>2. QED
    BY <1>3, <2>1
<1>5. CASE Enter(r)
  <2>1. Silent
    BY <1>5, <1>1, <1>2 DEF Enter, Send, Goto, OwnShape, ImportShape, EnrichShape,
       ReadShape, Carried, Pledged, Unrecorded, CallSize, Op,
       Fix, Size, Tenant, Holding, Queued, Outcomes, Typed, storeVars, localVars, providerVars
  <2>2. QED
    BY <1>3, <2>1
<1>6. CASE EarlyAnswer(r)
  <2>1. Silent
    BY <1>6, <1>1, <1>2 DEF EarlyAnswer, Goto, OwnShape, ImportShape, EnrichShape,
       ReadShape, Carried, Pledged, Unrecorded, CallSize, Op,
       Fix, Size, Tenant, Holding, Queued, Outcomes, Typed, storeVars, localVars, providerVars
  <2>2. QED
    BY <1>3, <2>1
<1>7. CASE TakeConnection(r)
  <2>1. Silent
    BY <1>7, <1>1, <1>2 DEF TakeConnection, Goto, OwnShape, ImportShape, EnrichShape,
       ReadShape, Carried, Pledged, Unrecorded, CallSize, Op,
       Fix, Size, Tenant, Holding, Queued, Outcomes, Typed, storeVars, localVars, providerVars
  <2>2. QED
    BY <1>3, <2>1
<1>8. CASE Read(r) \/ Flushed(r) \/ CallFails(r)
  <2>1. Silent
    BY <1>8, <1>1, <1>2 DEF Read, Flushed, CallFails, GiveBack, Goto, OwnShape, ImportShape, EnrichShape,
       ReadShape, Carried, Pledged, Unrecorded, CallSize, Op,
       Fix, Size, Tenant, Holding, Queued, Outcomes, Typed, storeVars, localVars, providerVars
  <2>2. QED
    BY <1>3, <2>1
<1>9. CASE FlushAdmitted(r)
  <2>1. Records(r, FlushSize(r))
    BY <1>9, <1>1, <1>2 DEF FlushAdmitted, Admit, Records, OwnShape, EnrichShape, ReadShape, Carried, Pledged, Unrecorded, CallSize, Op,
       Fix, Size, Tenant,
       Typed, localVars, providerVars
  <2>2. QED
    BY <1>9, <1>1, <2>1 DEF FlushAdmitted
<1>10. CASE ChargePool(r)
  <2>1. Silent
    BY <1>10, <1>1, <1>2 DEF ChargePool, Send, Goto, OwnShape, ImportShape, EnrichShape,
       ReadShape, Carried, Pledged, Unrecorded, CallSize, Op,
       Fix, Size, Tenant, Holding, Queued, Outcomes, Typed, storeVars, localVars, providerVars
  <2>2. QED
    BY <1>3, <2>1
<1>11. CASE PoolDrained(r)
  <2>1. Silent
    BY <1>11, <1>1, <1>2 DEF PoolDrained, GiveBack, Goto, OwnShape, ImportShape, EnrichShape,
       ReadShape, Carried, Pledged, Unrecorded, CallSize, Op,
       Fix, Size, Tenant, Holding, Queued, Outcomes, Typed, storeVars, localVars, providerVars
  <2>2. QED
    BY <1>3, <2>1
<1>12. CASE AdmitWork(r)
  <2>1. Records(r, Size(r))
    BY <1>12, <1>1, <1>2 DEF AdmitWork, Admit, Send, Goto, Records, OwnShape, ImportShape, EnrichShape,
       ReadShape, Holding, Carried, Pledged, Unrecorded, CallSize, Op,
       Fix, Size, Tenant, Typed, localVars
  <2>2. QED
    BY <1>1, <2>1
<1>13. CASE Answer(r)
  <2>1. Silent
    BY <1>13, <1>1, <1>2 DEF Answer, Goto, OwnShape, ImportShape, EnrichShape,
       ReadShape, Carried, Pledged, Unrecorded, CallSize, Op,
       Fix, Size, Tenant, Holding, Queued, Outcomes, Typed, storeVars, localVars, providerVars
  <2>2. QED
    BY <1>3, <2>1
<1>14. CASE Store(r)
  <2>1. Silent
    BY <1>14, <1>1, <1>2 DEF Store, GiveBack, Goto, OwnShape, ImportShape, EnrichShape,
       ReadShape, Carried, Pledged, Unrecorded, CallSize, Op,
       Fix, Size, Tenant, Holding, Queued, Outcomes, Typed, storeVars, localVars, providerVars
  <2>2. QED
    BY <1>3, <2>1
<1>15. CASE Provider(r)
  <2>1. Silent
    BY <1>15, <1>1, <1>2 DEF Provider, AcceptCall, RefuseCall, ChargeCall, ProviderMoves, Goto, OwnShape, ImportShape, EnrichShape,
       ReadShape, Carried, Pledged, Unrecorded, CallSize, Op,
       Fix, Size, Tenant, Holding, Queued, Outcomes, Typed, storeVars, localVars, providerVars
  <2>2. QED
    BY <1>3, <2>1
<1>16. CASE StatementFails(r)
  <2>1. /\ req' = req /\ Carried(r)' = Carried(r) /\ Pledged(r)' = Size(r) /\ Pledged(r) <= Size(r)
    BY <1>16, <1>1, <1>2 DEF StatementFails, GiveBack, Goto, Carried, Pledged, Unrecorded, CallSize, Op,
       Fix, Size, Tenant, Typed, localVars, providerVars
  <2>2. CASE admitted' = admitted
    BY <1>2, <1>3, <2>1, <2>2
  <2>3. CASE phase[r] = "flushing" /\ flushed[r] < Size(r) /\ Admit(r, FlushSize(r))
    <3>1. Pledged(r) + FlushSize(r) <= Size(r)
      BY <1>1, <2>3 DEF Pledged, Unrecorded
    <3>2. Records(r, FlushSize(r))
      BY <1>1, <1>2, <2>1, <2>3, <3>1 DEF Records, Admit, Tenant
    <3>3. QED
      BY <1>1, <2>3, <3>2
  <2>4. CASE phase[r] = "admitting" /\ Admit(r, Size(r))
    <3>1. Pledged(r) = 0
      BY <1>1, <1>2, <2>4 DEF Pledged, Unrecorded, OwnShape, ImportShape, EnrichShape, ReadShape, Holding
    <3>2. Records(r, Size(r))
      BY <1>1, <1>2, <2>1, <2>4, <3>1 DEF Records, Admit, Tenant
    <3>3. QED
      BY <1>1, <3>2
  <2>5. QED
    BY <1>16, <2>2, <2>3, <2>4 DEF StatementFails, storeVars
<1>17. QED
  BY <1>4, <1>5, <1>6, <1>7, <1>8, <1>9, <1>10, <1>11, <1>12, <1>13, <1>14, <1>15, <1>16
     DEF Moves, Handler, Entering, Importing, Spending

(* Nothing changes but what a tenant's requests carry, and no more than that. *)
LEMMA AdmittedSettles ==
  ASSUME Typed, Shape, AdmittedShape, Typed', Shape', admitted' = admitted,
         \A x \in Requests :
            \/ Tenant(x)' = Tenant(x) /\ Carried(x)' <= Carried(x) /\ Pledged(x) <= Pledged(x)'
            \/ Carried(x)' = 0 /\ Pledged(x) = 0
  PROVE  AdmittedShape'
<1>1. MaxLookups \in Nat /\ IsFiniteSet(Requests)
  BY UnboundedAssumption
<1>2. ASSUME NEW t \in Tenants
      PROVE  /\ Tally(Requests, MaxLookups, CarriedBy(t)') <= Tally(Requests, MaxLookups, CarriedBy(t))
             /\ Tally(Requests, MaxLookups, PledgedBy(t)) <= Tally(Requests, MaxLookups, PledgedBy(t)')
  <2>1. \A x \in Requests :
          /\ CarriedBy(t)[x] \in Int /\ CarriedBy(t)'[x] \in Int /\ CarriedBy(t)'[x] <= CarriedBy(t)[x]
          /\ PledgedBy(t)[x] \in Int /\ PledgedBy(t)'[x] \in Int /\ PledgedBy(t)[x] <= PledgedBy(t)'[x]
    BY PartsAreNat, PartsAreNatNext DEF CarriedBy, PledgedBy
  <2>2. QED
    BY <1>1, <2>1, TallyMonotone
<1>3. ASSUME NEW t \in Tenants
      PROVE  /\ Tally(Requests, MaxLookups, CarriedBy(t)') \in Nat
             /\ Tally(Requests, MaxLookups, CarriedBy(t)) \in Nat
             /\ Tally(Requests, MaxLookups, PledgedBy(t)) \in Nat
             /\ Tally(Requests, MaxLookups, PledgedBy(t)') \in Nat
             /\ admitted[t] \in Nat
  BY <1>1, TallyBounded DEF Typed
<1>4. ASSUME NEW t \in Tenants
      PROVE  /\ Tally(Requests, MaxLookups, CarriedBy(t)') <= admitted'[t]
             /\ admitted'[t] <= Tally(Requests, MaxLookups, PledgedBy(t)')
  BY <1>2, <1>3 DEF AdmittedShape
<1>5. QED
  BY <1>4 DEF AdmittedShape, Tally, Cells, CarriedBy, PledgedBy

LEMMA AdmittedGrows ==
  ASSUME Typed, Shape, AdmittedShape, Typed', Shape', NEW r \in Requests, Moves(r),
         NEW k \in Nat, Records(r, k)
  PROVE  AdmittedShape'
<1>1. MaxLookups \in Nat /\ IsFiniteSet(Requests) /\ Tenant(r) \in Tenants
  BY UnboundedAssumption, Inputs DEF Typed
<1>2. ASSUME NEW t \in Tenants
      PROVE  /\ Tally(Requests, MaxLookups, CarriedBy(t)') <= admitted'[t]
             /\ admitted'[t] <= Tally(Requests, MaxLookups, PledgedBy(t)')
  <2>1. PICK n \in Nat : n = IF Tenant(r) = t THEN k ELSE 0
    OBVIOUS
  <2>2. admitted'[t] = admitted[t] + n /\ admitted[t] \in Nat
    BY <1>1, <2>1 DEF Records, Typed
  <2>3. \A x \in Requests : /\ CarriedBy(t)[x] \in Nat /\ CarriedBy(t)'[x] \in Nat
                            /\ PledgedBy(t)[x] \in Nat /\ PledgedBy(t)'[x] \in Nat
                            /\ PledgedBy(t)'[x] <= MaxLookups
    BY <1>1, PartsAreNat, PartsAreNatNext DEF CarriedBy, PledgedBy
  <2>4. \A x \in Requests : x # r => /\ CarriedBy(t)'[x] = CarriedBy(t)[x]
                                     /\ PledgedBy(t)'[x] = PledgedBy(t)[x]
    BY OthersStay, PartsStay DEF CarriedBy, PledgedBy
  <2>5. CarriedBy(t)'[r] <= CarriedBy(t)[r] + n /\ PledgedBy(t)[r] + n <= PledgedBy(t)'[r]
    BY <2>1, PartsAreNat, PartsAreNatNext DEF Records, CarriedBy, PledgedBy
  <2>6. Tally(Requests, MaxLookups, CarriedBy(t)') <= Tally(Requests, MaxLookups, CarriedBy(t)) + n
    <3>1. \A x \in Requests : x # r => CarriedBy(t)'[x] <= CarriedBy(t)[x]
      BY <2>3, <2>4
    <3>2. QED
      BY <1>1, <2>3, <2>5, <3>1, TallyGrowsAtMost
  <2>7. Tally(Requests, MaxLookups, PledgedBy(t)) + n <= Tally(Requests, MaxLookups, PledgedBy(t)')
    <3>1. \A x \in Requests : PledgedBy(t)[x] <= PledgedBy(t)'[x]
      BY <2>3, <2>4, <2>5
    <3>2. PledgedBy(t)'[r] <= MaxLookups
      BY <2>3
    <3>3. QED
      BY <1>1, <2>3, <2>5, <3>1, <3>2, TallyGrowsAtLeast
  <2>8. /\ Tally(Requests, MaxLookups, CarriedBy(t)') \in Nat
        /\ Tally(Requests, MaxLookups, CarriedBy(t)) \in Nat
        /\ Tally(Requests, MaxLookups, PledgedBy(t)) \in Nat
        /\ Tally(Requests, MaxLookups, PledgedBy(t)') \in Nat
    BY <1>1, TallyBounded
  <2>9. QED
    BY <2>2, <2>6, <2>7, <2>8 DEF AdmittedShape
<1>3. QED
  BY <1>2 DEF AdmittedShape, Tally, Cells, CarriedBy, PledgedBy

LEMMA AdmittedStep ==
  ASSUME Typed, Shape, AdmittedShape, Next
  PROVE  AdmittedShape'
<1>1. Typed' /\ Shape'
  BY ShapeStep
<1>2. ASSUME NEW r \in Requests, Arrive(r)
      PROVE  AdmittedShape'
  <2>1. admitted' = admitted /\ Moves(r)
    BY <1>2 DEF Arrive, storeVars, Moves
  <2>2. Pledged(r) = 0 /\ Carried(r)' = 0
    BY <1>2 DEF Arrive, Goto, Shape, OwnShape, Pledged, Unrecorded, Carried, Typed, localVars,
       providerVars
  <2>3. ASSUME NEW x \in Requests, x # r
        PROVE  Tenant(x)' = Tenant(x) /\ Carried(x)' <= Carried(x) /\ Pledged(x) <= Pledged(x)'
    BY <2>1, <2>3, OthersStay, PartsStay, PartsAreNat
  <2>4. QED
    BY <1>1, <2>1, <2>2, <2>3, AdmittedSettles
<1>3. ASSUME NEW r \in Requests, Moves(r)
      PROVE  AdmittedShape'
  BY <1>1, <1>2, <1>3, AdmittedMoves, AdmittedGrows
<1>4. ASSUME NEW p \in Replicas, Crash(p)
      PROVE  AdmittedShape'
  <2>1. ASSUME NEW x \in Requests
        PROVE  Tenant(x)' = Tenant(x) /\ Carried(x)' <= Carried(x) /\ Pledged(x) <= Pledged(x)'
    <3>1. req' = req /\ call' = call /\ billed' = billed /\ flushed' = flushed
          /\ (phase'[x] = phase[x] \/ phase'[x] = "crashed")
      BY <1>4 DEF Crash, localVars, providerVars, Typed
    <3>2. flushed[x] \in Nat /\ Size(x) \in Nat /\ flushed[x] <= Size(x)
      BY Inputs DEF Typed, Shape, OwnShape, ImportShape, EnrichShape, ReadShape
    <3>3. Carried(x)' = Carried(x) /\ Carried(x) \in Nat
      BY <3>1, PartsAreNat DEF Carried, Op, Fix, Size
    <3>4. QED
      BY <3>1, <3>2, <3>3 DEF Pledged, Unrecorded, Tenant, Size
  <2>2. QED
    BY <1>1, <1>4, <2>1, AdmittedSettles DEF Crash, storeVars
<1>5. CASE Rest
  <2>1. ASSUME NEW x \in Requests
        PROVE  Tenant(x)' = Tenant(x) /\ Carried(x)' <= Carried(x) /\ Pledged(x) <= Pledged(x)'
    BY <1>5, PartsAreNat DEF Rest, vars, Tenant, Carried, Pledged, Op, Fix, Size
  <2>2. QED
    BY <1>1, <1>5, <2>1, AdmittedSettles DEF Rest, vars
<1>6. QED
  BY <1>3, <1>4, <1>5 DEF Next, Moves

(* Bills are carried, and what is pledged is named by a request that arrived. *)
LEMMA AdmittedCovers ==
  ASSUME Typed, Shape, AdmittedShape
  PROVE  AdmittedIsHonest
<1>1. /\ MaxLookups \in Nat /\ IsFiniteSet(Requests)
  BY UnboundedAssumption
<1>2. ASSUME NEW r \in Requests
      PROVE  /\ billed[r] \in Nat /\ billed[r] <= Size(r) /\ Size(r) \in Nat
             /\ Fix(r) # "deadline" => billed[r] <= Carried(r)
             /\ phase[r] = "absent" => Pledged(r) = 0
             /\ Pledged(r) <= Size(r)
  <2>1. /\ Op(r) \in {"enrich", "import", "read"} /\ Size(r) \in Nat /\ billed[r] \in Nat
        /\ performed[r] \in Nat /\ flushed[r] \in Nat
        /\ CallSize(r) \in Nat /\ performed[r] + CallSize(r) <= Size(r)
    BY Inputs, CallSizes DEF Typed
  <2>2. OwnShape(r)
    BY DEF Shape
  <2>3. CASE Op(r) = "import"
    <3>1. ImportShape(r)
      BY <2>2, <2>3 DEF OwnShape
    <3>2. billed[r] <= Size(r) /\ flushed[r] <= Size(r)
      BY <2>1, <3>1 DEF ImportShape
    <3>3. billed[r] <= flushed[r]
      BY <2>1, <3>1 DEF ImportShape
    <3>4. QED
      BY <2>1, <2>2, <2>3, <3>2, <3>3 DEF OwnShape, Carried, Pledged, Unrecorded
  <2>4. CASE Op(r) # "import"
    BY <2>1, <2>2, <2>4 DEF OwnShape, EnrichShape, ReadShape, Carried, Pledged, Unrecorded
  <2>5. QED
    BY <2>3, <2>4
<1>3. ASSUME NEW t \in Tenants, NEW own, own = {r \in Requests : Tenant(r) = t}
      PROVE  BilledTo({r \in own : Fix(r) # "deadline"}) <= admitted[t]
  <2> DEFINE S == {r \in own : Fix(r) # "deadline"}
  <2>1. /\ IsFiniteSet(S)
        /\ \A r \in S : /\ billed[r] \in Nat /\ r \in Requests /\ CarriedBy(t)[r] \in Nat
                         /\ billed[r] <= CarriedBy(t)[r]
    <3>1. S \in SUBSET Requests
      BY <1>3
    <3>2. QED
      BY <1>1, <1>2, <1>3, <3>1, FS_Subset, PartsAreNat DEF CarriedBy
  <2>2. Tally(S, MaxLookups, billed) <= Tally(Requests, MaxLookups, CarriedBy(t))
    <3> HIDE DEF S
    <3>1. QED
      BY <1>1, <2>1, TallyWithin
  <2>3. BilledTo(S) = Tally(S, MaxLookups, billed)
    BY DEF BilledTo, Lookups, Tally, Cells
  <2>4. /\ Tally(S, MaxLookups, billed) \in Nat
        /\ Tally(Requests, MaxLookups, CarriedBy(t)) \in Nat /\ admitted[t] \in Nat
    BY <1>1, <2>1, TallyBounded DEF Typed
  <2>5. QED
    BY <2>2, <2>3, <2>4 DEF AdmittedShape
<1>4. ASSUME NEW t \in Tenants, NEW own, own = {r \in Requests : Tenant(r) = t}
      PROVE  admitted[t] <= Lookups({r \in own : phase[r] # "absent"}, [r \in Requests |-> Size(r)])
  <2> DEFINE S == {r \in own : phase[r] # "absent"}
             n == [r \in Requests |-> Size(r)]
  <2>1. \A r \in Requests : PledgedBy(t)[r] \in Nat /\ (PledgedBy(t)[r] # 0 =>
           r \in S /\ n[r] \in Nat /\ PledgedBy(t)[r] <= n[r])
    BY <1>2, <1>4, PartsAreNat DEF PledgedBy
  <2>2. IsFiniteSet(S)
    <3>1. S \in SUBSET Requests
      BY <1>4
    <3>2. QED
      BY <1>1, <3>1, FS_Subset
  <2>3. Tally(Requests, MaxLookups, PledgedBy(t)) <= Tally(S, MaxLookups, n)
    <3> HIDE DEF S, n
    <3>1. QED
      BY <1>1, <2>1, <2>2, TallyWithin
  <2>4. Lookups(S, n) = Tally(S, MaxLookups, n)
    BY DEF Lookups, Tally, Cells
  <2>5. /\ Tally(S, MaxLookups, n) \in Nat
        /\ Tally(Requests, MaxLookups, PledgedBy(t)) \in Nat /\ admitted[t] \in Nat
    BY <1>1, <2>2, TallyBounded DEF Typed
  <2>6. QED
    BY <2>3, <2>4, <2>5 DEF AdmittedShape
<1>5. QED
  BY <1>2, <1>3, <1>4 DEF AdmittedIsHonest

-----------------------------------------------------------------------------
(* Counted half fixes *)

(* Lookups of r that its process has let through and that may be billed. *)
Counts(r) ==
  IF phase[r] \in {"absent", "arrived"} THEN 0
  ELSE IF phase[r] \in {"early", "queued", "paying", "admitting"} \/ call[r] \in {"sent", "working"}
  THEN Size(r) ELSE billed[r]

CountsFor(f, k) == [r \in Requests |-> IF Fix(r) = f /\ Key(r) = k THEN Counts(r) ELSE 0]
SpentFor(f, k)  == [p \in Replicas |-> spent[p][f][k]]

(* Dead processes took at most one allowance each with them. *)
LocalShape ==
  \A f \in Counted, k \in Keys :
    /\ \A p \in Replicas : spent[p][f][k] <= LocalAllowance
    /\ Price * Tally(Requests, MaxLookups, CountsFor(f, k))
         <= LocalAllowance * crashes + Tally(Replicas, LocalAllowance, SpentFor(f, k))

LEMMA CountsStay ==
  ASSUME NEW x \in Requests, Same(x)
  PROVE  Counts(x)' = Counts(x) /\ Fix(x)' = Fix(x) /\ Key(x)' = Key(x)
  BY DEF Same, Counts, Op, Fix, Size, Key, Tenant

LEMMA CountsAreNat ==
  ASSUME Typed, NEW r \in Requests
  PROVE  Counts(r) \in Nat
  BY Inputs DEF Counts, Typed

LEMMA CountsAreNatNext ==
  ASSUME Typed', NEW r \in Requests
  PROVE  Counts(r)' \in Nat
<1>1. PICK w \in Workload : req'[r] = w
  BY DEF Typed
<1>2. w.lookups \in Nat /\ billed'[r] \in Nat
  BY UnboundedAssumption DEF Descriptor, Typed
<1>3. QED
  BY <1>1, <1>2 DEF Counts, Size

(* Past the half fixes nothing is added to what a request counts for. *)
LEMMA CountsMove ==
  ASSUME Typed, Shape, NEW r \in Requests, Moves(r)
  PROVE  \/ Arrive(r) \/ Enter(r)
         \/ /\ spent' = spent /\ crashes' = crashes /\ req' = req
            /\ Fix(r) \in Counted => Counts(r)' <= Counts(r)
<1> DEFINE Kept == /\ spent' = spent /\ crashes' = crashes /\ req' = req
                   /\ Fix(r) \in Counted => Counts(r)' <= Counts(r)
<1>1. /\ Size(r) \in Nat /\ billed[r] \in Nat /\ OwnShape(r)
      /\ Op(r) # "enrich" => Fix(r) \notin Counted
      /\ Op(r) = "enrich" => CallSize(r) = Size(r)
  BY Inputs, CallSizes DEF Typed, Counted, Shape
<1>2. CASE RefuseLocally(r) \/ PoolTimeout(r)
  <2>1. Kept
    BY <1>2, <1>1 DEF RefuseLocally, PoolTimeout, Goto, OwnShape, EnrichShape, Counts, Counted,
       Op, Fix, Size, Holding, Queued, Typed, localVars, providerVars, faultVars
  <2>2. QED
    BY <2>1
<1>3. CASE EarlyAnswer(r)
  <2>1. Kept
    BY <1>3, <1>1 DEF EarlyAnswer, Goto, OwnShape, EnrichShape, Counts, Counted,
       Op, Fix, Size, Holding, Queued, Typed, localVars, providerVars, faultVars
  <2>2. QED
    BY <2>1
<1>4. CASE TakeConnection(r)
  <2>1. Kept
    BY <1>4, <1>1 DEF TakeConnection, Goto, OwnShape, EnrichShape, Counts, Counted,
       Op, Fix, Size, Holding, Queued, Typed, localVars, providerVars, faultVars
  <2>2. QED
    BY <2>1
<1>5. CASE Read(r) \/ Flushed(r) \/ CallFails(r)
  <2>1. Kept
    BY <1>5, <1>1 DEF Read, Flushed, CallFails, GiveBack, Goto, OwnShape, EnrichShape, Counts, Counted,
       Op, Fix, Size, Holding, Queued, Typed, localVars, providerVars, faultVars
  <2>2. QED
    BY <2>1
<1>6. CASE FlushAdmitted(r)
  <2>1. Kept
    BY <1>6, <1>1 DEF FlushAdmitted, Admit, Goto, OwnShape, EnrichShape, Counts, Counted,
       Op, Fix, Size, Holding, Queued, Typed, localVars, providerVars, faultVars
  <2>2. QED
    BY <2>1
<1>7. CASE ChargePool(r)
  <2>1. Kept
    BY <1>7, <1>1 DEF ChargePool, Send, Goto, OwnShape, EnrichShape, Counts, Counted,
       Op, Fix, Size, Holding, Queued, Typed, localVars, providerVars, faultVars
  <2>2. QED
    BY <2>1
<1>8. CASE PoolDrained(r)
  <2>1. Kept
    BY <1>8, <1>1 DEF PoolDrained, GiveBack, Goto, OwnShape, EnrichShape, Counts, Counted,
       Op, Fix, Size, Holding, Queued, Typed, localVars, providerVars, faultVars
  <2>2. QED
    BY <2>1
<1>9. CASE AdmitWork(r)
  <2>1. Kept
    BY <1>9, <1>1 DEF AdmitWork, Send, Goto, OwnShape, EnrichShape, Counts, Counted,
       Op, Fix, Size, Holding, Queued, Typed, localVars, providerVars, faultVars
  <2>2. QED
    BY <2>1
<1>10. CASE Answer(r)
  <2>1. Kept
    BY <1>10, <1>1 DEF Answer, Goto, OwnShape, EnrichShape, Counts, Counted,
       Op, Fix, Size, Holding, Queued, Typed, localVars, providerVars, faultVars
  <2>2. QED
    BY <2>1
<1>11. CASE Store(r)
  <2>1. Kept
    BY <1>11, <1>1 DEF Store, GiveBack, Goto, OwnShape, EnrichShape, Counts, Counted,
       Op, Fix, Size, Holding, Queued, Typed, localVars, providerVars, faultVars
  <2>2. QED
    BY <2>1
<1>12. CASE Provider(r)
  <2>1. Kept
    BY <1>12, <1>1 DEF Provider, AcceptCall, RefuseCall, ChargeCall, ProviderMoves, Goto, OwnShape, EnrichShape, Counts, Counted,
       Op, Fix, Size, Holding, Queued, Typed, localVars, providerVars, faultVars
  <2>2. QED
    BY <2>1
<1>13. CASE StatementFails(r)
  <2>1. Kept
    BY <1>13, <1>1 DEF StatementFails, GiveBack, Goto, OwnShape, EnrichShape, Counts, Counted,
       Op, Fix, Size, Holding, Queued, Typed, localVars, providerVars, faultVars
  <2>2. QED
    BY <2>1
<1>14. QED
  BY <1>2, <1>3, <1>4, <1>5, <1>6, <1>7, <1>8, <1>9, <1>10, <1>11, <1>12, <1>13
     DEF Moves, Handler, Entering, Importing, Spending

(* The counters stand still and nothing is added to what requests count for. *)
LEMMA LocalSettles ==
  ASSUME Typed, Typed', LocalShape, spent' = spent, crashes' = crashes,
         \A x \in Requests :
            \/ Fix(x)' = Fix(x) /\ Key(x)' = Key(x) /\ (Fix(x) \in Counted => Counts(x)' <= Counts(x))
            \/ Counts(x)' = 0
            \/ Fix(x)' \notin Counted
  PROVE  LocalShape'
<1>1. /\ MaxLookups \in Nat /\ Price \in Nat /\ LocalAllowance \in Nat /\ crashes \in Nat
      /\ IsFiniteSet(Requests) /\ IsFiniteSet(Replicas)
  BY UnboundedAssumption DEF Typed
<1>2. ASSUME NEW f \in Counted, NEW k \in Keys
      PROVE  Price * Tally(Requests, MaxLookups, CountsFor(f, k)')
               <= LocalAllowance * crashes + Tally(Replicas, LocalAllowance, SpentFor(f, k))
  <2>1. \A x \in Requests : /\ CountsFor(f, k)[x] \in Int /\ CountsFor(f, k)'[x] \in Int
                            /\ CountsFor(f, k)'[x] <= CountsFor(f, k)[x]
    BY CountsAreNat, CountsAreNatNext DEF CountsFor
  <2>2. Tally(Requests, MaxLookups, CountsFor(f, k)') <= Tally(Requests, MaxLookups, CountsFor(f, k))
    BY <1>1, <2>1, TallyMonotone
  <2>3. PICK a \in Nat, b \in Nat, c \in Nat :
          /\ a = Tally(Requests, MaxLookups, CountsFor(f, k)')
          /\ b = Tally(Requests, MaxLookups, CountsFor(f, k))
          /\ c = Tally(Replicas, LocalAllowance, SpentFor(f, k))
    BY <1>1, TallyBounded
  <2>4. Price * a <= Price * b + Price * 0 /\ Price * 0 = 0
    BY <1>1, <2>2, <2>3, Scaled
  <2>5. Price * b <= LocalAllowance * crashes + c
    BY <2>3 DEF LocalShape
  <2>6. Price * a \in Nat /\ Price * b \in Nat /\ LocalAllowance * crashes \in Nat
    BY <1>1
  <2>7. Price * a <= LocalAllowance * crashes + c
    BY <2>3, <2>4, <2>5, <2>6
  <2>8. QED
    BY <2>3, <2>7
<1>3. \A f, k : SpentFor(f, k)' = SpentFor(f, k)
  BY DEF SpentFor
<1>4. ASSUME NEW f \in Counted, NEW k \in Keys
      PROVE  /\ \A p \in Replicas : spent'[p][f][k] <= LocalAllowance
             /\ Price * Tally(Requests, MaxLookups, CountsFor(f, k)')
                  <= LocalAllowance * crashes' + Tally(Replicas, LocalAllowance, SpentFor(f, k)')
  BY <1>2, <1>3 DEF LocalShape
<1>5. QED
  BY <1>4 DEF LocalShape, Tally, Cells, CountsFor, SpentFor

(* What enters under a counted half fix is counted where it enters. *)
LEMMA LocalEnters ==
  ASSUME Typed, Shape, Typed', LocalShape, NEW r \in Requests, Enter(r), Fix(r) \in Counted
  PROVE  LocalShape'
<1>1. /\ MaxLookups \in Nat /\ Price \in Nat /\ LocalAllowance \in Nat /\ crashes \in Nat
      /\ IsFiniteSet(Requests) /\ IsFiniteSet(Replicas) /\ Size(r) \in Nat
      /\ crashes' = crashes /\ req' = req /\ Moves(r)
  BY UnboundedAssumption, Inputs DEF Typed, Enter, faultVars, Moves, Handler, Entering
<1>2. PICK q \in Replicas, g \in Counted, h \in Keys :
        q = req[r].replica /\ g = Fix(r) /\ h = Key(r)
  BY Inputs DEF Typed
<1>3. PICK c \in Nat : c = Price * Size(r)
  BY <1>1
<1>4. /\ spent' = [spent EXCEPT ![q][g][h] = @ + c]
      /\ spent[q][g][h] + c <= LocalAllowance
  BY <1>2, <1>3 DEF Enter, HasLocalRoom, Spent
<1>5. Counts(r) = 0 /\ Counts(r)' = Size(r)
  BY <1>1 DEF Enter, Send, Goto, Counts, Size, Typed
<1>6. ASSUME NEW p \in Replicas, NEW f \in Counted, NEW k \in Keys
      PROVE  /\ spent[p][f][k] \in Nat /\ spent'[p][f][k] \in Nat
             /\ p = q /\ f = g /\ k = h => spent'[p][f][k] = spent[p][f][k] + c
             /\ ~(p = q /\ f = g /\ k = h) => spent'[p][f][k] = spent[p][f][k]
  BY <1>4 DEF Typed
<1>7. ASSUME NEW p \in Replicas, NEW f \in Counted, NEW k \in Keys
      PROVE  spent'[p][f][k] <= LocalAllowance
  BY <1>4, <1>6 DEF LocalShape
<1>8. ASSUME NEW f \in Counted, NEW k \in Keys
      PROVE  Price * Tally(Requests, MaxLookups, CountsFor(f, k)')
               <= LocalAllowance * crashes + Tally(Replicas, LocalAllowance, SpentFor(f, k)')
  <2>1. PICK n \in Nat, d \in Nat : /\ n = IF f = g /\ k = h THEN Size(r) ELSE 0
                                    /\ d = IF f = g /\ k = h THEN c ELSE 0
    BY <1>1
  <2>2. d = Price * n
    BY <1>1, <1>3, <2>1
  <2>3. \A x \in Requests : /\ CountsFor(f, k)[x] \in Nat /\ CountsFor(f, k)'[x] \in Nat
                            /\ x # r => CountsFor(f, k)'[x] <= CountsFor(f, k)[x]
    BY <1>1, CountsAreNat, CountsAreNatNext, OthersStay, CountsStay DEF CountsFor
  <2>4. CountsFor(f, k)'[r] <= CountsFor(f, k)[r] + n
    <3>1. Fix(r)' = Fix(r) /\ Key(r)' = Key(r)
      BY <1>1 DEF Fix, Key, Op, Tenant
    <3>2. QED
      BY <1>1, <1>2, <1>5, <2>1, <3>1 DEF CountsFor
  <2>5. Tally(Requests, MaxLookups, CountsFor(f, k)') <= Tally(Requests, MaxLookups, CountsFor(f, k)) + n
    BY <1>1, <2>3, <2>4, TallyGrowsAtMost
  <2>6. \A p \in Replicas : /\ SpentFor(f, k)[p] \in Nat /\ SpentFor(f, k)'[p] \in Nat
                            /\ SpentFor(f, k)[p] <= SpentFor(f, k)'[p]
    BY <1>6 DEF SpentFor
  <2>7. SpentFor(f, k)[q] + d <= SpentFor(f, k)'[q] /\ SpentFor(f, k)'[q] <= LocalAllowance
    BY <1>6, <1>7, <2>1 DEF SpentFor
  <2>8. Tally(Replicas, LocalAllowance, SpentFor(f, k)) + d <= Tally(Replicas, LocalAllowance, SpentFor(f, k)')
    BY <1>1, <2>6, <2>7, TallyGrowsAtLeast
  <2>9. PICK a \in Nat, b \in Nat, u \in Nat, v \in Nat :
          /\ a = Tally(Requests, MaxLookups, CountsFor(f, k)')
          /\ b = Tally(Requests, MaxLookups, CountsFor(f, k))
          /\ u = Tally(Replicas, LocalAllowance, SpentFor(f, k))
          /\ v = Tally(Replicas, LocalAllowance, SpentFor(f, k)')
    BY <1>1, TallyBounded
  <2>10. Price * a <= Price * b + Price * n
    BY <1>1, <2>5, <2>9, Scaled
  <2>11. Price * b <= LocalAllowance * crashes + u
    BY <2>9 DEF LocalShape
  <2>12. u + d <= v
    BY <2>8, <2>9
  <2>13. Price * a \in Nat /\ Price * b \in Nat /\ Price * n \in Nat /\ LocalAllowance * crashes \in Nat
    BY <1>1
  <2>14. Price * a <= LocalAllowance * crashes + v
    BY <2>2, <2>10, <2>11, <2>12, <2>13
  <2>15. QED
    BY <2>9, <2>14
<1>9. ASSUME NEW f \in Counted, NEW k \in Keys
      PROVE  /\ \A p \in Replicas : spent'[p][f][k] <= LocalAllowance
             /\ Price * Tally(Requests, MaxLookups, CountsFor(f, k)')
                  <= LocalAllowance * crashes' + Tally(Replicas, LocalAllowance, SpentFor(f, k)')
  BY <1>1, <1>7, <1>8
<1>10. QED
  BY <1>9 DEF LocalShape, Tally, Cells, CountsFor, SpentFor

(* A process dies with one allowance at most, and a fresh one has all of it. *)
LEMMA LocalCrashes ==
  ASSUME Typed, Shape, Typed', LocalShape, NEW q \in Replicas, Crash(q)
  PROVE  LocalShape'
<1>1. /\ MaxLookups \in Nat /\ Price \in Nat /\ LocalAllowance \in Nat /\ crashes \in Nat
      /\ IsFiniteSet(Requests) /\ IsFiniteSet(Replicas) /\ crashes' = crashes + 1
  BY UnboundedAssumption DEF Typed, Crash
<1>2. ASSUME NEW x \in Requests
      PROVE  Fix(x)' = Fix(x) /\ Key(x)' = Key(x) /\ Counts(x)' <= Counts(x)
  <2>1. /\ req' = req /\ call' = call /\ billed' = billed
        /\ phase'[x] = phase[x] \/ (phase'[x] = "crashed" /\ phase[x] # "absent")
    BY DEF Crash, Active, Outcomes, localVars, providerVars, Typed
  <2>2. /\ Size(x) \in Nat /\ billed[x] \in Nat /\ OwnShape(x)
        /\ Op(x) \in {"enrich", "import", "read"}
    BY Inputs DEF Typed, Shape
  <2>3. billed[x] <= Size(x)
    BY <2>2, CallSizes DEF OwnShape, ImportShape, EnrichShape, ReadShape, Typed
  <2>4. QED
    BY <2>1, <2>2, <2>3 DEF OwnShape, Counts, Fix, Key, Op, Size, Tenant
<1>3. ASSUME NEW p \in Replicas, NEW f \in Counted, NEW k \in Keys
      PROVE  /\ spent[p][f][k] \in Nat /\ spent[p][f][k] <= LocalAllowance
             /\ spent'[p][f][k] = IF p = q THEN 0 ELSE spent[p][f][k]
  BY DEF Crash, NothingSpent, Typed, LocalShape
<1>4. ASSUME NEW f \in Counted, NEW k \in Keys
      PROVE  Price * Tally(Requests, MaxLookups, CountsFor(f, k)')
               <= LocalAllowance * (crashes + 1) + Tally(Replicas, LocalAllowance, SpentFor(f, k)')
  <2>1. \A x \in Requests : /\ CountsFor(f, k)[x] \in Int /\ CountsFor(f, k)'[x] \in Int
                            /\ CountsFor(f, k)'[x] <= CountsFor(f, k)[x]
    BY <1>2, CountsAreNat, CountsAreNatNext DEF CountsFor
  <2>2. Tally(Requests, MaxLookups, CountsFor(f, k)') <= Tally(Requests, MaxLookups, CountsFor(f, k))
    BY <1>1, <2>1, TallyMonotone
  <2>3. \A p \in Replicas : /\ SpentFor(f, k)[p] \in Nat /\ SpentFor(f, k)'[p] \in Nat
                            /\ p # q => SpentFor(f, k)[p] <= SpentFor(f, k)'[p]
    BY <1>1, <1>3 DEF SpentFor
  <2>4. SpentFor(f, k)[q] <= SpentFor(f, k)'[q] + LocalAllowance
    BY <1>1, <1>3 DEF SpentFor
  <2>5. Tally(Replicas, LocalAllowance, SpentFor(f, k))
          <= Tally(Replicas, LocalAllowance, SpentFor(f, k)') + LocalAllowance
    BY <1>1, <2>3, <2>4, TallyGrowsAtMost
  <2>6. PICK a \in Nat, b \in Nat, u \in Nat, v \in Nat :
          /\ a = Tally(Requests, MaxLookups, CountsFor(f, k)')
          /\ b = Tally(Requests, MaxLookups, CountsFor(f, k))
          /\ u = Tally(Replicas, LocalAllowance, SpentFor(f, k))
          /\ v = Tally(Replicas, LocalAllowance, SpentFor(f, k)')
    BY <1>1, TallyBounded
  <2>7. Price * a <= Price * b + Price * 0 /\ Price * 0 = 0
    BY <1>1, <2>2, <2>6, Scaled
  <2>8. Price * b <= LocalAllowance * crashes + u
    BY <2>6 DEF LocalShape
  <2>9. u <= v + LocalAllowance
    BY <2>5, <2>6
  <2>10. /\ Price * a \in Nat /\ Price * b \in Nat /\ LocalAllowance * crashes \in Nat
         /\ LocalAllowance * (crashes + 1) = LocalAllowance * crashes + LocalAllowance
    BY <1>1
  <2>11. Price * a <= LocalAllowance * (crashes + 1) + v
    BY <1>1, <2>7, <2>8, <2>9, <2>10
  <2>12. QED
    BY <2>6, <2>11
<1>5. ASSUME NEW f \in Counted, NEW k \in Keys
      PROVE  /\ \A p \in Replicas : spent'[p][f][k] <= LocalAllowance
             /\ Price * Tally(Requests, MaxLookups, CountsFor(f, k)')
                  <= LocalAllowance * crashes' + Tally(Replicas, LocalAllowance, SpentFor(f, k)')
  BY <1>1, <1>3, <1>4
<1>6. QED
  BY <1>5 DEF LocalShape, Tally, Cells, CountsFor, SpentFor

LEMMA LocalStep ==
  ASSUME Typed, Shape, LocalShape, Next
  PROVE  LocalShape'
<1>1. Typed'
  BY ShapeStep
<1>2. ASSUME NEW r \in Requests, Moves(r), NEW x \in Requests, x # r
      PROVE  Fix(x)' = Fix(x) /\ Key(x)' = Key(x) /\ Counts(x)' <= Counts(x)
  BY <1>2, OthersStay, CountsStay, CountsAreNat
<1>3. ASSUME NEW r \in Requests, Arrive(r)
      PROVE  LocalShape'
  <2>1. spent' = spent /\ crashes' = crashes /\ Counts(r)' = 0 /\ Moves(r)
    BY <1>3 DEF Arrive, Goto, Counts, Typed, faultVars, Moves
  <2>2. QED
    BY <1>1, <1>2, <2>1, LocalSettles
<1>4. ASSUME NEW r \in Requests, Enter(r), Fix(r) \notin Counted
      PROVE  LocalShape'
  <2>1. spent' = spent /\ crashes' = crashes /\ req' = req /\ Moves(r)
    BY <1>4 DEF Enter, faultVars, Moves, Handler, Entering
  <2>2. Fix(r)' \notin Counted
    BY <1>4, <2>1 DEF Fix, Op
  <2>3. QED
    BY <1>1, <1>2, <2>1, <2>2, LocalSettles
<1>5. ASSUME NEW r \in Requests, spent' = spent, crashes' = crashes, req' = req, Moves(r),
             Fix(r) \in Counted => Counts(r)' <= Counts(r)
      PROVE  LocalShape'
  <2>1. Fix(r)' = Fix(r) /\ Key(r)' = Key(r)
    BY <1>5 DEF Fix, Key, Op, Tenant
  <2>2. QED
    BY <1>1, <1>2, <1>5, <2>1, LocalSettles
<1>6. ASSUME NEW r \in Requests, Moves(r)
      PROVE  LocalShape'
  BY <1>1, <1>3, <1>4, <1>5, <1>6, CountsMove, LocalEnters
<1>7. CASE Rest
  <2>1. spent' = spent /\ crashes' = crashes
    BY <1>7 DEF Rest, vars
  <2>2. ASSUME NEW x \in Requests
        PROVE  Fix(x)' = Fix(x) /\ Key(x)' = Key(x) /\ Counts(x)' <= Counts(x)
    BY <1>7, CountsAreNat DEF Rest, vars, Fix, Key, Op, Size, Tenant, Counts
  <2>3. QED
    BY <1>1, <2>1, <2>2, LocalSettles
<1>8. QED
  BY <1>1, <1>6, <1>7, LocalCrashes DEF Next, Moves

(* Bills count, and what live processes have spent is an allowance each. *)
LEMMA LocalCovers ==
  ASSUME Typed, Shape, LocalShape
  PROVE  EnforcedPerProcess
<1>1. /\ MaxLookups \in Nat /\ Price \in Nat /\ LocalAllowance \in Nat /\ crashes \in Nat
      /\ IsFiniteSet(Requests) /\ IsFiniteSet(Replicas)
  BY UnboundedAssumption DEF Typed
<1>2. ASSUME NEW r \in Requests
      PROVE  billed[r] \in Nat /\ Counts(r) \in Nat /\ billed[r] <= Counts(r)
  <2>1. /\ Size(r) \in Nat /\ billed[r] \in Nat /\ OwnShape(r) /\ Op(r) \in {"enrich", "import", "read"}
    BY Inputs DEF Typed, Shape
  <2>2. billed[r] <= Size(r)
    BY <2>1, CallSizes DEF OwnShape, ImportShape, EnrichShape, ReadShape, Typed
  <2>3. QED
    BY <2>1, <2>2, CountsAreNat DEF OwnShape, Counts
<1>3. ASSUME NEW f \in Counted, NEW k \in Keys
      PROVE  Price * BilledTo({r \in Requests : Fix(r) = f /\ Key(r) = k})
               <= LocalAllowance * (Cardinality(Replicas) + crashes)
  <2> DEFINE S == {r \in Requests : Fix(r) = f /\ Key(r) = k}
  <2>1. /\ IsFiniteSet(S)
        /\ \A r \in S : /\ billed[r] \in Nat /\ r \in Requests /\ CountsFor(f, k)[r] \in Nat
                         /\ billed[r] <= CountsFor(f, k)[r]
    BY <1>1, <1>2, FS_Subset DEF CountsFor
  <2>2. Tally(S, MaxLookups, billed) <= Tally(Requests, MaxLookups, CountsFor(f, k))
    <3> HIDE DEF S
    <3>1. QED
      BY <1>1, <2>1, TallyWithin
  <2>3. BilledTo(S) = Tally(S, MaxLookups, billed)
    BY DEF BilledTo, Lookups, Tally, Cells
  <2>4. PICK a \in Nat, b \in Nat, c \in Nat, n \in Nat :
          /\ a = Tally(S, MaxLookups, billed)
          /\ b = Tally(Requests, MaxLookups, CountsFor(f, k))
          /\ c = Tally(Replicas, LocalAllowance, SpentFor(f, k))
          /\ n = Cardinality(Replicas) /\ c <= n * LocalAllowance
    <3>1. Tally(S, MaxLookups, billed) \in Nat
      BY <1>1, <2>1, TallyBounded
    <3>2. Tally(Requests, MaxLookups, CountsFor(f, k)) \in Nat
      BY <1>1, TallyBounded
    <3>3. /\ Tally(Replicas, LocalAllowance, SpentFor(f, k)) \in Nat
          /\ Tally(Replicas, LocalAllowance, SpentFor(f, k)) <= Cardinality(Replicas) * LocalAllowance
      BY <1>1, TallyBounded
    <3>4. Cardinality(Replicas) \in Nat
      BY <1>1, FS_CardinalityType
    <3>5. QED
      BY <3>1, <3>2, <3>3, <3>4
  <2>5. Price * a <= Price * b + Price * 0 /\ Price * 0 = 0
    BY <1>1, <2>2, <2>4, Scaled
  <2>6. Price * b <= LocalAllowance * crashes + c
    BY <2>4 DEF LocalShape
  <2>7. /\ Price * a \in Nat /\ Price * b \in Nat /\ LocalAllowance * crashes \in Nat
        /\ n * LocalAllowance \in Nat
        /\ LocalAllowance * (n + crashes) = LocalAllowance * crashes + n * LocalAllowance
    BY <1>1
  <2>8. Price * a <= LocalAllowance * (n + crashes)
    BY <2>4, <2>5, <2>6, <2>7
  <2>9. QED
    BY <2>3, <2>4, <2>8
<1>4. QED
  BY <1>3 DEF EnforcedPerProcess

-----------------------------------------------------------------------------
(* The invariant and what follows from it *)

UInv ==
  /\ Typed /\ pool \in [Replicas -> Nat] /\ ConnectionsMatchHolders
  /\ Shape /\ JobShape /\ PeriodShape /\ AdmittedShape /\ LocalShape

LEMMA InvariantInit ==
  ASSUME Init
  PROVE  UInv
<1>1. /\ IsFiniteSet(Requests) /\ IsFiniteSet(Replicas) /\ Workload # {} /\ Workload \subseteq Descriptor
      /\ MaxLookups \in Nat /\ Price \in Nat /\ Cap \in Nat /\ LocalAllowance \in Nat
      /\ MaxErrors \in Nat /\ MaxCrashes \in Nat /\ PoolSize \in Nat
  BY UnboundedAssumption
<1>2. (CHOOSE w \in Workload : TRUE) \in Workload
  BY <1>1
<1>3. Typed /\ pool \in [Replicas -> Nat]
  BY <1>1, <1>2 DEF Init, Typed, Job, NothingSpent, Phases, Calls
<1>4. ConnectionsMatchHolders
  <2>1. \A p \in Replicas : {r \in Requests : phase[r] \in Holding /\ req[r].replica = p} = {}
    BY DEF Init, Holding
  <2>2. \A p \in Replicas : Cardinality({r \in Requests : phase[r] \in Holding /\ req[r].replica = p}) = 0
    BY <2>1, FS_EmptySet
  <2>3. QED
    <3>1. \A p \in Replicas : pool[p] = 0 /\ 0 <= PoolSize
      BY <1>1 DEF Init
    <3>2. QED
      BY <2>2, <3>1 DEF ConnectionsMatchHolders
<1>5. Shape /\ JobShape
  <2>1. \A r \in Requests : OwnShape(r)
    <3>1. ASSUME NEW r \in Requests
          PROVE  OwnShape(r)
      <4>1. /\ phase[r] = "absent" /\ call[r] = "idle" /\ billed[r] = 0
            /\ performed[r] = 0 /\ flushed[r] = 0 /\ Size(r) \in Nat
        BY <1>3, Inputs DEF Init, Typed
      <4>2. QED
        BY <4>1 DEF OwnShape, ImportShape, EnrichShape, ReadShape, Holding
    <3>2. QED
      BY <3>1
  <2>2. QED
    BY <2>1 DEF Shape, JobShape, Init
<1>6. ASSUME NEW f, \A r \in Requests : f[r] = 0
      PROVE  Tally(Requests, MaxLookups, f) = 0
  <2>1. Cells(Requests, MaxLookups, f) = {}
    BY <1>1, <1>6 DEF Cells
  <2>2. QED
    BY <2>1, FS_EmptySet DEF Tally
<1>7. PeriodShape
  <2>1. \A r \in Requests : Owing[r] = 0
    BY DEF Init, Owing, Owed
  <2>2. Tally(Requests, MaxLookups, Owing) = 0
    BY <1>6, <2>1
  <2>3. QED
    BY <1>1, <2>2 DEF PeriodShape, Init
<1>8. AdmittedShape
  <2>1. ASSUME NEW t \in Tenants
        PROVE  /\ Tally(Requests, MaxLookups, CarriedBy(t)) <= admitted[t]
               /\ admitted[t] <= Tally(Requests, MaxLookups, PledgedBy(t))
    <3>1. \A r \in Requests : CarriedBy(t)[r] = 0 /\ PledgedBy(t)[r] = 0
      BY DEF Init, CarriedBy, PledgedBy, Carried, Pledged, Unrecorded
    <3>2. /\ Tally(Requests, MaxLookups, CarriedBy(t)) = 0
          /\ Tally(Requests, MaxLookups, PledgedBy(t)) = 0
      BY <1>6, <3>1
    <3>3. QED
      BY <3>2 DEF Init
  <2>2. QED
    BY <2>1 DEF AdmittedShape
<1>9. LocalShape
  <2>1. ASSUME NEW f \in Counted, NEW k \in Keys
        PROVE  /\ \A p \in Replicas : spent[p][f][k] <= LocalAllowance
               /\ Price * Tally(Requests, MaxLookups, CountsFor(f, k))
                    <= LocalAllowance * crashes + Tally(Replicas, LocalAllowance, SpentFor(f, k))
    <3>1. \A r \in Requests : CountsFor(f, k)[r] = 0
      BY DEF Init, CountsFor, Counts
    <3>2. Tally(Requests, MaxLookups, CountsFor(f, k)) = 0
      BY <1>6, <3>1
    <3>3. Tally(Replicas, LocalAllowance, SpentFor(f, k)) \in Nat
      BY <1>1, TallyBounded
    <3>4. crashes = 0 /\ \A p \in Replicas : spent[p][f][k] = 0
      BY DEF Init, NothingSpent
    <3>5. QED
      BY <1>1, <3>2, <3>3, <3>4
  <2>2. QED
    BY <2>1 DEF LocalShape
<1>10. QED
  BY <1>3, <1>4, <1>5, <1>7, <1>8, <1>9 DEF UInv

LEMMA InvariantStep ==
  ASSUME UInv, [Next]_vars
  PROVE  UInv'
<1>1. CASE Next
  BY <1>1, ShapeStep, JobsStep, ConnectionsStep, PeriodStep, AdmittedStep, LocalStep DEF UInv
<1>2. CASE UNCHANGED vars
  <2>1. (Typed /\ pool \in [Replicas -> Nat] /\ ConnectionsMatchHolders)'
    BY <1>2 DEF vars, UInv, Typed, ConnectionsMatchHolders
  <2>2. (Shape /\ JobShape)'
    BY <1>2 DEF vars, UInv, Shape, OwnShape, ImportShape, EnrichShape, ReadShape, JobShape, Ended,
       CallSize, Op, Fix, Size
  <2>3. PeriodShape'
    BY <1>2 DEF vars, UInv, PeriodShape, Owing, Owed, CallSize, Op, Fix, Size, Tally, Cells
  <2>4. AdmittedShape'
    BY <1>2 DEF vars, UInv, AdmittedShape, CarriedBy, PledgedBy, Carried, Pledged, Op, Fix, Size,
       Tenant, Tally, Cells
  <2>5. LocalShape'
    <3>1. spent' = spent /\ crashes' = crashes
      BY <1>2 DEF vars
    <3>2. \A r : Counts(r)' = Counts(r) /\ Fix(r)' = Fix(r) /\ Key(r)' = Key(r)
      BY <1>2 DEF vars, Counts, Op, Fix, Key, Size, Tenant
    <3>3. \A f, k : CountsFor(f, k)' = CountsFor(f, k) /\ SpentFor(f, k)' = SpentFor(f, k)
      BY <3>1, <3>2 DEF CountsFor, SpentFor
    <3>4. QED
      BY <3>1, <3>3 DEF UInv, LocalShape, Tally, Cells
  <2>6. QED
    BY <2>1, <2>2, <2>3, <2>4, <2>5 DEF UInv
<1>3. QED
  BY <1>1, <1>2

(* The strengthening is inductive: each sum is covered, request by request. *)
THEOREM Invariant == Spec => []UInv
<1>1. Init => UInv
  BY InvariantInit
<1>2. UInv /\ [Next]_vars => UInv'
  BY InvariantStep
<1>3. QED
  BY <1>1, <1>2, PTL DEF Spec

(* Every variable keeps its type: no pool ever counts below nothing. *)
THEOREM TypeCorrect == Spec => []TypeOK
<1>1. UInv => TypeOK
  BY DEF UInv, Typed, TypeOK
<1>2. QED
  BY <1>1, Invariant, PTL

(* No connection leaks and none is handed out twice, whatever fails: for any
   number of replicas and requests each pool counts the handlers that hold one. *)
THEOREM ConnectionsAreHeld == Spec => []ConnectionsMatchHolders
<1>1. UInv => ConnectionsMatchHolders
  BY DEF UInv
<1>2. QED
  BY <1>1, Invariant, PTL

(* Charged before the call, the undivided pool pays for every bill that half
   fix 5 did not run up, whatever the cap, the chunks and the concurrency.   *)
THEOREM PeriodAlwaysPays == Spec => []PeriodPaysBill
<1>1. UInv => PeriodPaysBill
  BY PeriodCovers DEF UInv
<1>2. QED
  BY <1>1, Invariant, PTL

(* The record of admitted work covers every bill and nothing unasked for, in
   the face of lost answers and crashes between any two flushes or chunks.   *)
THEOREM AdmittedStaysHonest == Spec => []AdmittedIsHonest
<1>1. UInv => AdmittedIsHonest
  BY AdmittedCovers DEF UInv
<1>2. QED
  BY <1>1, Invariant, PTL

(* A job row reports what was billed, for every size of bundle and chunk. *)
THEOREM JobsAreTrue == Spec => []JobsReportBill
<1>1. UInv => JobsReportBill
  BY DEF UInv, JobShape, JobsReportBill
<1>2. QED
  BY <1>1, Invariant, PTL

(* A counted half fix lets through one allowance for each process that has
   lived, and never more, however keys rotate and requests overlap.          *)
THEOREM OneAllowancePerProcess == Spec => []EnforcedPerProcess
<1>1. UInv => EnforcedPerProcess
  BY LocalCovers DEF UInv
<1>2. QED
  BY <1>1, Invariant, PTL

=============================================================================
