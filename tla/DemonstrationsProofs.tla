------------------------ MODULE DemonstrationsProofs ------------------------
(***************************************************************************)
(* Theorems about the rate limiter and about the suites that drive the     *)
(* unbounded application, for any number of tenants, any window, every     *)
(* cap and allowance and any session of suites; the last part says when a  *)
(* suite must reproduce its whole script.                                  *)
(*                                                                         *)
(* The limiter forgets what is older than its window. That this loses      *)
(* nothing is a fact about all it ever let through, so its invariant       *)
(* compares what it remembers with what was granted.                       *)
(***************************************************************************)
EXTENDS Demonstrations, FiniteSetTheorems, SequenceTheorems, TLAPS

-----------------------------------------------------------------------------
(* The limiter *)

(* The grants of key k that number i to j, as the limiter remembers them. *)
Entries(k, i, j) == {<<m, granted[k][m]>> : m \in i..j}

(* Grants are in the order of the clock, the limiter remembers nothing else,
   and remembers all that its window still reaches.                          *)
Remembers(k) ==
  /\ \A i \in 1..Len(granted[k]) : granted[k][i] <= clock
  /\ \A i, j \in 1..Len(granted[k]) : i <= j => granted[k][i] <= granted[k][j]
  /\ seen[k] \subseteq Entries(k, 1, Len(granted[k]))
  /\ \A i \in 1..Len(granted[k]) :
       clock - granted[k][i] < Window => <<i, granted[k][i]>> \in seen[k]

(* MaxRequests grants apart, a window apart. *)
Spaced(k) ==
  \A i \in 1..Len(granted[k]) :
    i + MaxRequests <= Len(granted[k]) =>
      granted[k][i + MaxRequests] - granted[k][i] >= Window

LimiterInv ==
  /\ LimiterTypeOK
  /\ \A k \in Keys : Remembers(k) /\ Spaced(k)

(* Some entries of an interval are as many as their numbers. *)
LEMMA EntriesCounted ==
  ASSUME NEW g, NEW I, IsFiniteSet(I)
  PROVE  /\ IsFiniteSet({<<m, g[m]>> : m \in I})
         /\ Cardinality({<<m, g[m]>> : m \in I}) = Cardinality(I)
<1> DEFINE T == {<<m, g[m]>> : m \in I}
           h == [m \in I |-> <<m, g[m]>>]
<1>1. h \in Bijection(I, T)
  BY DEF Bijection, Injection, Surjection, IsInjective
<1>2. ExistsBijection(I, T)
  BY <1>1 DEF ExistsBijection
<1>3. QED
  BY <1>2, FS_Bijection

(* What is in the window is exactly what was granted in it. *)
LEMMA RecentIsGranted ==
  ASSUME LimiterInv, NEW k \in Keys
  PROVE  /\ Recent(k) = {<<i, granted[k][i]>> :
                           i \in {m \in 1..Len(granted[k]) : clock - granted[k][m] < Window}}
         /\ IsFiniteSet(Recent(k))
         /\ Cardinality(Recent(k))
              = Cardinality({m \in 1..Len(granted[k]) : clock - granted[k][m] < Window})
<1> DEFINE G == granted[k]
           I == {m \in 1..Len(G) : clock - G[m] < Window}
<1>1. Remembers(k) /\ Len(G) \in Nat
  BY DEF LimiterInv, LimiterTypeOK, Times
<1>2. Recent(k) = {<<i, G[i]>> : i \in I}
  BY <1>1 DEF Remembers, Recent, InWindow, Entries
<1>3. IsFiniteSet(I)
  <2>1. IsFiniteSet(1..Len(G))
    BY <1>1, FS_Interval
  <2>2. I \in SUBSET (1..Len(G))
    OBVIOUS
  <2>3. QED
    BY <2>1, <2>2, FS_Subset
<1>4. /\ IsFiniteSet({<<m, G[m]>> : m \in I})
      /\ Cardinality({<<m, G[m]>> : m \in I}) = Cardinality(I)
  <2> HIDE DEF G, I
  <2> QED
    BY <1>3, EntriesCounted
<1>5. QED
  BY <1>2, <1>3, <1>4

(* A limiter that is not full let through its last MaxRequests requests over
   at least a window.                                                        *)
LEMMA LastGrantsAreOld ==
  ASSUME LimiterInv, NEW k \in Keys, ~Full(k), NEW i \in 1..Len(granted[k]),
         i + MaxRequests = Len(granted[k]) + 1
  PROVE  clock - granted[k][i] >= Window
<1> DEFINE G == granted[k]
           I == {m \in 1..Len(G) : clock - G[m] < Window}
<1>1. /\ Remembers(k) /\ Len(G) \in Nat /\ clock \in Nat /\ Window \in Nat /\ MaxRequests \in Nat
      /\ \A m \in 1..Len(G) : G[m] \in Nat
  BY LimiterAssumption DEF LimiterInv, LimiterTypeOK, Times
<1>2. SUFFICES ASSUME clock - G[i] < Window
               PROVE  FALSE
  BY <1>1
<1>3. i..Len(G) \in SUBSET I
  <2>1. ASSUME NEW m \in i..Len(G)
        PROVE  m \in 1..Len(G) /\ clock - G[m] < Window
    <3>1. m \in 1..Len(G) /\ i <= m
      BY <1>1
    <3>2. G[i] <= G[m]
      BY <1>1, <3>1 DEF Remembers
    <3>3. QED
      BY <1>1, <1>2, <3>1, <3>2
  <2>2. QED
    BY <2>1
<1>4. IsFiniteSet(I) /\ Cardinality(I) < MaxRequests /\ Cardinality(I) \in Nat
  <2>1. IsFiniteSet(1..Len(G))
    BY <1>1, FS_Interval
  <2>2. I \in SUBSET (1..Len(G))
    OBVIOUS
  <2>3. IsFiniteSet(I) /\ Cardinality(I) \in Nat
    BY <2>1, <2>2, FS_Subset, FS_CardinalityType
  <2>4. Cardinality(Recent(k)) = Cardinality(I)
    BY RecentIsGranted
  <2>5. QED
    BY <1>1, <2>3, <2>4 DEF Full
<1>5. Cardinality(i..Len(G)) = MaxRequests
  <2>1. Cardinality(i..Len(G)) = IF i > Len(G) THEN 0 ELSE Len(G) - i + 1
    BY <1>1, FS_Interval
  <2>2. QED
    BY <1>1, <2>1
<1>6. Cardinality(i..Len(G)) <= Cardinality(I)
  <2> HIDE DEF I
  <2> QED
    BY <1>3, <1>4, FS_Subset
<1>7. QED
  BY <1>1, <1>4, <1>5, <1>6

(* Time only shrinks what the window reaches. *)
LEMMA TickKeepsWindow ==
  ASSUME LimiterInv, Tick
  PROVE  LimiterInv'
<1>1. /\ clock \in Nat /\ clock' = clock + 1 /\ clock' \in 0..MaxTime
      /\ seen' = seen /\ granted' = granted /\ Window \in Nat
  BY LimiterAssumption DEF Tick, LimiterInv, LimiterTypeOK
<1>2. LimiterTypeOK'
  BY <1>1 DEF LimiterInv, LimiterTypeOK, Times
<1>3. ASSUME NEW k \in Keys
      PROVE  Remembers(k)' /\ Spaced(k)'
  <2>1. \A i \in 1..Len(granted[k]) : granted[k][i] \in Nat
    BY LimiterAssumption DEF LimiterInv, LimiterTypeOK, Times
  <2>2. QED
    BY <1>1, <2>1 DEF LimiterInv, Remembers, Spaced, Entries
<1>4. QED
  BY <1>2, <1>3 DEF LimiterInv

(* A refusal forgets only what is out of the window. *)
LEMMA RefuseKeepsWindow ==
  ASSUME LimiterInv, NEW k0 \in Keys, Refuse(k0)
  PROVE  LimiterInv'
<1>1. /\ clock' = clock /\ granted' = granted
      /\ \A k \in Keys : seen'[k] = IF k = k0 THEN Recent(k0) ELSE seen[k]
      /\ seen' \in [Keys -> SUBSET (Nat \X (0..MaxTime))]
  BY DEF Refuse, Recent, LimiterInv, LimiterTypeOK
<1>2. LimiterTypeOK'
  BY <1>1 DEF LimiterInv, LimiterTypeOK, Times
<1>3. ASSUME NEW k \in Keys
      PROVE  Remembers(k)' /\ Spaced(k)'
  BY <1>1 DEF LimiterInv, Remembers, Spaced, Entries, Recent, InWindow
<1>4. QED
  BY <1>2, <1>3 DEF LimiterInv

(* A request let through is the latest, and a window after the one MaxRequests
   before it.                                                                *)
LEMMA AllowKeepsWindow ==
  ASSUME LimiterInv, NEW k0 \in Keys, Allow(k0)
  PROVE  LimiterInv'
<1> DEFINE G == granted[k0]
           len == Len(G)
<1>1. /\ len \in Nat /\ clock \in Nat /\ clock \in 0..MaxTime /\ Window \in Nat /\ MaxRequests \in Nat
      /\ G \in Times
      /\ \A i \in 1..len : G[i] \in Nat
  BY LimiterAssumption DEF LimiterInv, LimiterTypeOK, Times
<1>2. /\ clock' = clock
      /\ \A k \in Keys :
           /\ k # k0 => seen'[k] = seen[k] /\ granted'[k] = granted[k]
      /\ seen'[k0] = Recent(k0) \cup {<<len + 1, clock>>}
      /\ granted'[k0] = Append(G, clock)
  BY DEF Allow, LimiterInv, LimiterTypeOK
<1>3. /\ Len(Append(G, clock)) = len + 1
      /\ \A i \in 1..len : Append(G, clock)[i] = G[i]
      /\ Append(G, clock)[len + 1] = clock
      /\ Append(G, clock) \in Times
  BY <1>1 DEF Times
<1>4. LimiterTypeOK'
  <2>1. Recent(k0) \cup {<<len + 1, clock>>} \in SUBSET (Nat \X (0..MaxTime))
    <3>1. seen[k0] \in SUBSET (Nat \X (0..MaxTime))
      BY DEF LimiterInv, LimiterTypeOK
    <3>2. <<len + 1, clock>> \in Nat \X (0..MaxTime)
      BY <1>1
    <3>3. QED
      BY <3>1, <3>2 DEF Recent
  <2>2. seen' \in [Keys -> SUBSET (Nat \X (0..MaxTime))]
    BY <2>1 DEF Allow, LimiterInv, LimiterTypeOK
  <2>3. granted' \in [Keys -> Times]
    BY <1>3 DEF Allow, LimiterInv, LimiterTypeOK
  <2>4. QED
    BY <1>1, <1>2, <2>2, <2>3 DEF LimiterTypeOK, Times
<1>5. ASSUME NEW k \in Keys, k # k0
      PROVE  Remembers(k)' /\ Spaced(k)'
  BY <1>2, <1>5 DEF LimiterInv, Remembers, Spaced, Entries
<1>6. Remembers(k0) /\ Spaced(k0)
  BY DEF LimiterInv
<1>7. PICK H : /\ H = granted'[k0] /\ Len(H) = len + 1
               /\ \A i \in 1..len : H[i] = G[i]
               /\ H[len + 1] = clock
  BY <1>2, <1>3
<1>8. Remembers(k0)'
  <2>1. \A i \in 1..(len+1) : i \in 1..len \/ i = len + 1
    BY <1>1
  <2>2. \A i \in 1..(len+1) : H[i] <= clock
    BY <1>1, <1>6, <1>7, <2>1 DEF Remembers
  <2>3. \A i, j \in 1..(len+1) : i <= j => H[i] <= H[j]
    <3>1. ASSUME NEW i \in 1..(len+1), NEW j \in 1..(len+1), i <= j
          PROVE  H[i] <= H[j]
      <4>1. CASE j = len + 1
        BY <1>7, <2>2, <4>1
      <4>2. CASE j \in 1..len
        <5>1. i \in 1..len
          BY <1>1, <3>1, <4>2
        <5>2. QED
          BY <1>6, <1>7, <3>1, <4>2, <5>1 DEF Remembers
      <4>3. QED
        BY <2>1, <4>1, <4>2
    <3>2. QED
      BY <3>1
  <2>4. Recent(k0) \cup {<<len + 1, clock>>} \subseteq {<<i, H[i]>> : i \in 1..(len+1)}
    <3>1. Recent(k0) \subseteq {<<i, H[i]>> : i \in 1..len}
      BY <1>6, <1>7 DEF Remembers, Recent, Entries
    <3>2. 1..len \subseteq 1..(len+1) /\ len + 1 \in 1..(len+1)
      BY <1>1
    <3>3. QED
      BY <1>7, <3>1, <3>2
  <2>5. \A i \in 1..(len+1) :
          clock - H[i] < Window => <<i, H[i]>> \in Recent(k0) \cup {<<len + 1, clock>>}
    <3>1. ASSUME NEW i \in 1..len, clock - H[i] < Window
          PROVE  <<i, H[i]>> \in Recent(k0)
      BY <1>6, <1>7, <3>1 DEF Remembers, Recent, InWindow
    <3>2. QED
      BY <1>7, <2>1, <3>1
  <2>6. QED
    BY <1>2, <1>7, <2>2, <2>3, <2>4, <2>5 DEF Remembers, Entries
<1>9. Spaced(k0)'
  <2>1. ASSUME NEW i \in 1..(len+1), i + MaxRequests <= len + 1
        PROVE  H[i + MaxRequests] - H[i] >= Window
    <3>1. CASE i + MaxRequests <= len
      <4>1. i \in 1..len /\ i + MaxRequests \in 1..len
        BY <1>1, <3>1
      <4>2. QED
        BY <1>6, <1>7, <3>1, <4>1 DEF Spaced
    <3>2. CASE i + MaxRequests = len + 1
      <4>1. MaxRequests # 0
        <5>1. Cardinality(Recent(k0)) \in Nat
          BY RecentIsGranted, FS_CardinalityType
        <5>2. QED
          BY <1>1, <5>1 DEF Allow, Full
      <4>2. i \in 1..len
        BY <1>1, <3>2, <4>1
      <4>3. clock - G[i] >= Window
        BY <3>2, <4>2, LastGrantsAreOld DEF Allow
      <4>4. QED
        BY <1>7, <3>2, <4>2, <4>3
    <3>3. QED
      BY <1>1, <2>1, <3>1, <3>2
  <2>2. QED
    BY <1>7, <2>1 DEF Spaced
<1>10. QED
  BY <1>4, <1>5, <1>8, <1>9 DEF LimiterInv

(* A fresh limiter has let nothing through. *)
LEMMA FreshLimiter ==
  ASSUME clock \in 0..MaxTime, seen = [k \in Keys |-> {}], granted = [k \in Keys |-> <<>>]
  PROVE  LimiterInv
<1>1. LimiterTypeOK
  BY DEF LimiterTypeOK, Times
<1>2. \A k \in Keys : Len(granted[k]) = 0
  OBVIOUS
<1>3. \A k \in Keys : Remembers(k) /\ Spaced(k)
  BY <1>2 DEF Remembers, Spaced
<1>4. QED
  BY <1>1, <1>3 DEF LimiterInv

LEMMA LimiterInvStep ==
  ASSUME LimiterInv, [LimiterNext]_limiterVars
  PROVE  LimiterInv'
<1>1. CASE UNCHANGED limiterVars
  BY <1>1 DEF limiterVars, LimiterInv, LimiterTypeOK, Times, Remembers, Spaced, Entries
<1>2. QED
  BY <1>1, TickKeepsWindow, RefuseKeepsWindow, AllowKeepsWindow DEF LimiterNext

(* What the invariant says of what a key was granted. *)
LEMMA WindowFromInv ==
  ASSUME LimiterInv
  PROVE  WindowIsExact
BY RecentIsGranted DEF LimiterInv, Spaced, WindowIsExact, Full

(* The limiter honours its window exactly, although it forgets. *)
THEOREM LimiterIsExact == LimiterSpec => []WindowIsExact
<1>1. LimiterInit => LimiterInv
  BY FreshLimiter, LimiterAssumption DEF LimiterInit
<1>2. LimiterInv /\ [LimiterNext]_limiterVars => LimiterInv'
  BY LimiterInvStep
<1>3. LimiterInv => WindowIsExact
  BY WindowFromInv
<1>4. QED
  BY <1>1, <1>2, <1>3, PTL DEF LimiterSpec

-----------------------------------------------------------------------------
(* The suites and the limiter *)

(* A suite is one more client of the limiter, and a restart is a fresh one. *)
LimiterMoves ==
  [LimiterNext]_limiterVars
    \/ /\ seen' = [k \in Keys |-> {}] /\ granted' = [k \in Keys |-> <<>>]
       /\ UNCHANGED clock

(* The steps between which the burst of shape 4 may be out. *)
BurstSteps == {"poll", "cheap", "release", "judge"}

(* What the pool charged covers what was billed and what is being called, but
   for the calls that were abandoned, and nothing is called when the rows and
   the bill are emptied.                                                     *)
Books ==
  /\ period \in [charged : Nat, cap : Nat]
  /\ bill \in [total : Nat, carried : Nat]
  /\ tasks \in [waiting : Nat, calling : Nat]
  /\ bill.total + tasks.calling <= period.charged + bill.carried
  /\ period.charged <= period.cap

BillInv ==
  /\ Books
  /\ step \notin BurstSteps => tasks = Idle

SuitesInv == LimiterInv /\ BillInv

(* One request to the application: only half fix 1 asks the limiter. *)
Asks(a, failed) ==
  /\ a.fix = "rate_limit" => a.tenant \in Keys /\ step \in {"prove", "spend", "leftover"}
  /\ a.lookups \in Nat
  /\ Enrich(a, failed)

LEMMA AskMovesLimiter ==
  ASSUME NEW a, NEW failed, Asks(a, failed)
  PROVE  LimiterMoves
<1>1. CASE a.fix = "rate_limit"
  BY <1>1 DEF Asks, Enrich, LimiterMoves, LimiterNext
<1>2. CASE a.fix # "rate_limit"
  BY <1>2 DEF Asks, Enrich, LimiterMoves
<1>3. QED
  BY <1>1, <1>2

(* The pool charges no less than is billed, and never past its cap. *)
LEMMA AskKeepsBooks ==
  ASSUME Books, NEW a, NEW failed, Asks(a, failed)
  PROVE  Books' /\ tasks' = tasks
<1>1. PICK c \in Nat : c = a.lookups
  BY DEF Asks
<1>2. /\ tasks' = tasks
      /\ \/ UNCHANGED <<period, bill>>
         \/ /\ period.charged + c <= period.cap
            /\ period' = [period EXCEPT !.charged = @ + c]
            /\ bill' = [bill EXCEPT !.total = @ + c] \/ bill' = bill
  BY <1>1 DEF Asks, Enrich, Served, HasMoney, Pay, Bill, moneyVars, callVars
<1>3. QED
  BY <1>1, <1>2 DEF Books

Senders ==
  \/ NameTheWork \/ DrainThePool \/ TakeTheRest \/ AskForBystanders \/ SetUp
  \/ ProveTheLimiter \/ SpendInside \/ SpendSteadily \/ SpendRotating
  \/ SpendAtOne \/ SpendAtBoth \/ AskOrdinarily \/ FillTheCap

NothingAsked ==
  UNCHANGED <<limiterVars, scriptVars, tally, moneyVars, callVars, spent, limited, began, calm,
              errors>>

(* What sends a request is out of the burst, and sends one; the last request of
   a drain may find nothing left to take.                                    *)
LEMMA SendersAsk ==
  ASSUME Books, Senders
  PROVE  /\ step \notin BurstSteps
         /\ \/ \E a : \E failed \in BOOLEAN : Asks(a, failed)
            \/ NothingAsked
<1>1. /\ Keys = {Prover, Spender, Third}
      /\ Cap \in Nat /\ Batch \in Nat /\ Abandoned \in Nat /\ bill.total \in Nat
  BY DemonstrationAssumption DEF Books
<1>2. CASE NameTheWork
  <2>1. (Cap * 4) \div 5 \in Nat
    BY <1>1
  <2>2. PICK failed \in BOOLEAN : Enrich(Plain((Cap * 4) \div 5), failed)
    BY <1>2 DEF NameTheWork
  <2>3. Asks(Plain((Cap * 4) \div 5), failed)
    BY <2>1, <2>2 DEF Asks, Plain, Ask
  <2>4. QED
    BY <1>2, <2>3 DEF NameTheWork, BurstSteps
<1>3. CASE DrainThePool
  <2>1. PICK failed \in BOOLEAN : Enrich(Plain(Batch), failed)
    BY <1>3 DEF DrainThePool
  <2>2. Asks(Plain(Batch), failed)
    BY <1>1, <2>1 DEF Asks, Plain, Ask
  <2>3. QED
    BY <1>3, <2>2 DEF DrainThePool, BurstSteps
<1>4. CASE TakeTheRest
  <2> DEFINE limiting == step = "leftover"
             a == [Plain(Cap - bill.total) EXCEPT !.fix =
                     IF limiting THEN "rate_limit" ELSE "none"]
  <2>1. CASE bill.total < Cap /\ (limiting => tally.allowed < MaxRequests)
    <3>1. PICK failed \in BOOLEAN : Enrich(a, failed)
      BY <1>4, <2>1 DEF TakeTheRest
    <3>2. Cap - bill.total \in Nat
      BY <1>1, <2>1
    <3>3. a.tenant = Spender /\ a.lookups = Cap - bill.total
      BY DEF Plain, Ask
    <3>4. a.fix = "rate_limit" => step = "leftover"
      BY DEF Plain, Ask
    <3>5. Asks(a, failed)
      BY <1>1, <3>1, <3>2, <3>3, <3>4 DEF Asks
    <3>6. QED
      BY <1>4, <3>5 DEF TakeTheRest, BurstSteps
  <2>2. CASE ~(bill.total < Cap /\ (limiting => tally.allowed < MaxRequests))
    BY <1>4, <2>2 DEF TakeTheRest, BurstSteps, NothingAsked
  <2>3. QED
    BY <2>1, <2>2
<1>5. CASE AskForBystanders
  <2> DEFINE a == Ask(1, <<Prover, Third>>[n], 1, "none", Spender)
  <2>1. PICK failed \in BOOLEAN : Enrich(a, failed)
    BY <1>5 DEF AskForBystanders
  <2>2. Asks(a, failed)
    BY <2>1 DEF Asks, Ask
  <2>3. QED
    BY <1>5, <2>2 DEF AskForBystanders, BurstSteps
<1>6. CASE SetUp
  <2>1. PICK failed \in BOOLEAN : Enrich(Plain(1), failed)
    BY <1>6 DEF SetUp
  <2>2. Asks(Plain(1), failed)
    BY <2>1 DEF Asks, Plain, Ask
  <2>3. QED
    BY <1>6, <2>2 DEF SetUp, BurstSteps
<1>7. CASE ProveTheLimiter
  <2> DEFINE a == Ask(1, Prover, 1, "rate_limit", Prover)
  <2>1. PICK failed \in BOOLEAN : Enrich(a, failed)
    BY <1>7 DEF ProveTheLimiter
  <2>2. Asks(a, failed)
    BY <1>1, <1>7, <2>1 DEF Asks, Ask, ProveTheLimiter
  <2>3. QED
    BY <1>7, <2>2 DEF ProveTheLimiter, BurstSteps
<1>8. CASE SpendInside
  <2> DEFINE a == Ask(1, Spender, Batch, "rate_limit", Spender)
  <2>1. PICK failed \in BOOLEAN : Enrich(a, failed)
    BY <1>8 DEF SpendInside
  <2>2. Asks(a, failed)
    BY <1>1, <1>8, <2>1 DEF Asks, Ask, SpendInside
  <2>3. QED
    BY <1>8, <2>2 DEF SpendInside, BurstSteps
<1>9. ASSUME NEW a, NEW field, NEW then, SpendUntilRefused(a, field, then),
             a.fix \in Counted, a.lookups = Batch
      PROVE  \E failed \in BOOLEAN : Asks(a, failed)
  BY <1>1, <1>9 DEF SpendUntilRefused, Asks, Counted
<1>10. CASE SpendSteadily
  <2> DEFINE a == Ask(1, Spender, Batch, "caller_keyed", <<"steady", runs>>)
  <2>1. a.fix \in Counted /\ a.lookups = Batch
    BY DEF Ask, Counted
  <2>2. \E failed \in BOOLEAN : Asks(a, failed)
    BY <1>9, <1>10, <2>1 DEF SpendSteadily
  <2>3. QED
    BY <1>10, <2>2 DEF SpendSteadily, BurstSteps
<1>11. CASE SpendRotating
  <2> DEFINE a == Ask(1, Spender, Batch, "caller_keyed", <<"rotated", n>>)
  <2>1. a.fix \in Counted /\ a.lookups = Batch
    BY DEF Ask, Counted
  <2>2. \E failed \in BOOLEAN : Asks(a, failed)
    BY <1>9, <1>11, <2>1 DEF SpendRotating
  <2>3. QED
    BY <1>11, <2>2 DEF SpendRotating, BurstSteps
<1>12. CASE SpendAtOne
  <2> DEFINE a == Ask(1, Prover, Batch, "in_process", Prover)
  <2>1. a.fix \in Counted /\ a.lookups = Batch
    BY DEF Ask, Counted
  <2>2. \E failed \in BOOLEAN : Asks(a, failed)
    BY <1>9, <1>12, <2>1 DEF SpendAtOne
  <2>3. QED
    BY <1>12, <2>2 DEF SpendAtOne, BurstSteps
<1>13. CASE SpendAtBoth
  <2> DEFINE a == Ask(1 + ((n - 1) % 2), Third, Batch, "in_process", Third)
  <2>1. a.fix \in Counted /\ a.lookups = Batch
    BY DEF Ask, Counted
  <2>2. \E failed \in BOOLEAN : Asks(a, failed)
    BY <1>9, <1>13, <2>1 DEF SpendAtBoth
  <2>3. QED
    BY <1>13, <2>2 DEF SpendAtBoth, BurstSteps
<1>14. CASE AskOrdinarily
  <2> DEFINE c == IF n = 1 \/ (n = 3 /\ Ordinary = 4) THEN 1 ELSE 0
  <2>1. PICK failed \in BOOLEAN : Enrich(Plain(c), failed)
    BY <1>14 DEF AskOrdinarily
  <2>2. c \in Nat
    OBVIOUS
  <2>3. Asks(Plain(c), failed)
    BY <2>1, <2>2 DEF Asks, Plain, Ask
  <2>4. QED
    BY <1>14, <2>3 DEF AskOrdinarily, BurstSteps
<1>15. CASE FillTheCap
  <2>1. PICK failed \in BOOLEAN : Enrich(Plain(BatchNow), failed)
    BY <1>15 DEF FillTheCap
  <2>2. BatchNow \in Nat
    BY <1>1 DEF BatchNow
  <2>3. Asks(Plain(BatchNow), failed)
    BY <2>1, <2>2 DEF Asks, Plain, Ask
  <2>4. QED
    BY <1>15, <2>3 DEF FillTheCap, BurstSteps
<1>16. QED
  BY <1>2, <1>3, <1>4, <1>5, <1>6, <1>7, <1>8, <1>10, <1>11, <1>12, <1>13, <1>14, <1>15
  DEF Senders

(* Every step of a session asks the limiter once, lets time pass, leaves the
   limiter alone or starts it afresh.                                        *)
LEMMA SuitesMoveLimiter ==
  ASSUME Books, Next
  PROVE  LimiterMoves
<1>1. CASE Senders
  <2>1. CASE \E a : \E failed \in BOOLEAN : Asks(a, failed)
    BY <2>1, AskMovesLimiter
  <2>2. CASE NothingAsked
    BY <2>2 DEF NothingAsked, LimiterMoves
  <2>3. QED
    BY <1>1, <2>1, <2>2, SendersAsk
<1>2. CASE StartSuite
  BY <1>2 DEF StartSuite, LimiterMoves
<1>3. CASE TimePasses
  BY <1>3 DEF TimePasses, LimiterMoves, LimiterNext
<1>4. CASE Begin \/ Reseed \/ Measure \/ Judge
  BY <1>4 DEF Begin, Reseed, Measure, Judge, LimiterMoves
<1>5. CASE ImportTheBundle \/ Hold \/ Poll \/ AskTheCheapOne \/ SendWithDeadline \/ Look \/ Release
  BY <1>5 DEF ImportTheBundle, Hold, Poll, AskTheCheapOne, SendWithDeadline, Look, Release,
              LimiterMoves
<1>6. CASE LateBill \/ TaskCalls \/ TaskEnds
  BY <1>6 DEF LateBill, TaskCalls, TaskEnds, LimiterMoves
<1>7. CASE Rest
  BY <1>7 DEF Rest, vars, LimiterMoves
<1>8. QED
  BY <1>1, <1>2, <1>3, <1>4, <1>5, <1>6, <1>7
  DEF Next, Shape, HalfFix, Control, Elsewhere, Senders

LEMMA LimiterInvMoves ==
  ASSUME LimiterInv, LimiterMoves
  PROVE  LimiterInv'
<1>1. CASE [LimiterNext]_limiterVars
  BY <1>1, LimiterInvStep
<1>2. CASE /\ seen' = [k \in Keys |-> {}] /\ granted' = [k \in Keys |-> <<>>]
           /\ UNCHANGED clock
  <2>1. clock' \in 0..MaxTime
    BY <1>2 DEF LimiterInv, LimiterTypeOK
  <2>2. LimiterTypeOK'
    BY <1>2, <2>1 DEF LimiterTypeOK, Times
  <2>3. \A k \in Keys : Len(granted'[k]) = 0 /\ seen'[k] = {}
    BY <1>2
  <2>4. \A k \in Keys : Remembers(k)' /\ Spaced(k)'
    BY <2>3 DEF Remembers, Spaced
  <2>5. QED
    BY <2>2, <2>4 DEF LimiterInv
<1>3. QED
  BY <1>1, <1>2 DEF LimiterMoves

-----------------------------------------------------------------------------
(* The suites and the bill *)

(* Rows and bill are emptied together, while nothing is being called. *)
LEMMA SeedKeepsBooks ==
  ASSUME Books, tasks = Idle, tasks' = tasks, NEW cents \in Nat, Seed(cents)
  PROVE  Books'
BY DEF Books, Seed, Idle

LEMMA SendersKeepBill ==
  ASSUME BillInv, Senders
  PROVE  BillInv'
<1>1. /\ step \notin BurstSteps /\ Books /\ tasks = Idle
  BY SendersAsk DEF BillInv
<1>2. Books' /\ tasks' = tasks
  <2>1. CASE \E a : \E failed \in BOOLEAN : Asks(a, failed)
    BY <1>1, <2>1, AskKeepsBooks
  <2>2. CASE NothingAsked
    BY <1>1, <2>2 DEF NothingAsked, moneyVars, callVars, Books
  <2>3. QED
    BY <1>1, <2>1, <2>2, SendersAsk
<1>3. QED
  BY <1>1, <1>2 DEF BillInv, Idle

LEMMA SeedersKeepBill ==
  ASSUME BillInv, Begin \/ Reseed \/ Measure
  PROVE  BillInv'
<1>1. Cap \in Nat /\ 2 * Cap \in Nat
  BY DemonstrationAssumption
<1>2. tasks = Idle /\ tasks' = tasks /\ Books
  BY DEF BillInv, BurstSteps, Begin, Reseed, Measure
<1>3. UNCHANGED moneyVars \/ \E cents \in Nat : Seed(cents)
  BY <1>1 DEF Begin, Reseed, Measure
<1>4. Books'
  <2>1. CASE UNCHANGED moneyVars
    BY <1>2, <2>1 DEF moneyVars, Books
  <2>2. QED
    BY <1>2, <1>3, <2>1, SeedKeepsBooks
<1>5. QED
  BY <1>2, <1>4 DEF BillInv, Idle

(* The chunks of an import are paid for and billed alike. *)
LEMMA ImportKeepsBill ==
  ASSUME BillInv, ImportTheBundle
  PROVE  BillInv'
<1>1. PICK chunks \in 0..(Bundle \div Chunk) :
        /\ HasMoney(chunks * Chunk) /\ Pay(chunks * Chunk) /\ Bill(chunks * Chunk)
  BY DEF ImportTheBundle
<1>2. chunks \in Nat /\ Chunk \in Nat
  BY DemonstrationAssumption
<1>3. PICK c \in Nat : c = chunks * Chunk
  BY <1>2
<1>4. step \notin BurstSteps /\ tasks' = tasks
  BY DEF ImportTheBundle, BurstSteps, callVars
<1>5. /\ period.charged + c <= period.cap
      /\ period' = [period EXCEPT !.charged = @ + c]
      /\ bill' = [bill EXCEPT !.total = @ + c]
  BY <1>1, <1>3 DEF HasMoney, Pay, Bill
<1>6. Books'
  BY <1>3, <1>4, <1>5 DEF BillInv, Books
<1>7. QED
  BY <1>4, <1>6 DEF BillInv, Idle

LEMMA DeadlineKeepsBill ==
  ASSUME BillInv, SendWithDeadline
  PROVE  BillInv'
<1>1. Abandoned \in Nat
  BY DemonstrationAssumption
<1>2. step \notin BurstSteps /\ tasks' = tasks
  BY DEF SendWithDeadline, BurstSteps
<1>3. \/ UNCHANGED moneyVars
      \/ HasMoney(Abandoned) /\ Pay(Abandoned) /\ Bill(Abandoned)
      \/ /\ UNCHANGED period
         /\ bill' = [total |-> bill.total + Abandoned, carried |-> bill.carried + Abandoned]
  BY DEF SendWithDeadline
<1>4. Books'
  BY <1>1, <1>2, <1>3 DEF BillInv, Books, moneyVars, HasMoney, Pay, Bill
<1>5. QED
  BY <1>2, <1>4 DEF BillInv, Idle

(* What is neither a request nor the burst leaves the money and the calls. *)
LEMMA OthersKeepBill ==
  ASSUME BillInv, Poll \/ AskTheCheapOne \/ Look \/ Release \/ Judge \/ TimePasses
                    \/ StartSuite \/ Rest
  PROVE  BillInv'
<1>1. UNCHANGED <<moneyVars, tasks>>
  BY DEF Poll, AskTheCheapOne, Look, Release, Judge, TimePasses, StartSuite, Rest, vars, callVars
<1>2. Books'
  BY <1>1 DEF BillInv, Books, moneyVars
<1>3. step' \notin BurstSteps => tasks = Idle
  BY DEF Poll, AskTheCheapOne, Look, Release, Judge, Judging, TimePasses, StartSuite, Rest, vars,
         Goto, BillInv, BurstSteps
<1>4. QED
  BY <1>1, <1>2, <1>3 DEF BillInv, Idle

LEMMA BurstKeepsBill ==
  ASSUME BillInv, Hold \/ TaskCalls \/ TaskEnds
  PROVE  BillInv'
<1>1. CASE Hold
  <2>1. PoolSize \in Nat /\ step \notin BurstSteps /\ tasks = Idle
    BY <1>1, DemonstrationAssumption DEF BillInv, Hold, BurstSteps
  <2>2. Books'
    BY <1>1, <2>1 DEF Hold, BillInv, Books, moneyVars, Idle
  <2>3. step' \notin BurstSteps => tasks' = Idle
    BY <1>1, <2>1 DEF Hold, Goto, BurstSteps
  <2>4. QED
    BY <2>2, <2>3 DEF BillInv, Idle
<1>2. CASE TaskCalls
  <2>1. step' = step /\ bill' = bill /\ tasks.waiting > 0
    BY <1>2 DEF TaskCalls
  <2>2. step \in BurstSteps
    BY <2>1 DEF BillInv, Idle
  <2>3. Books'
    BY <1>2, <2>1 DEF TaskCalls, BillInv, Books, HasMoney, Pay
  <2>4. QED
    BY <2>1, <2>2, <2>3 DEF BillInv
<1>3. CASE TaskEnds
  <2>1. step' = step /\ period' = period /\ tasks.calling > 0
    BY <1>3 DEF TaskEnds
  <2>2. step \in BurstSteps
    BY <2>1 DEF BillInv, Idle
  <2>3. Books'
    BY <1>3, <2>1 DEF TaskEnds, BillInv, Books, Bill
  <2>4. QED
    BY <2>1, <2>2, <2>3 DEF BillInv
<1>4. QED
  BY <1>1, <1>2, <1>3

(* An abandoned call is billed outside the pool. *)
LEMMA LateBillKeepsBill ==
  ASSUME BillInv, LateBill
  PROVE  BillInv'
<1>1. Abandoned \in Nat
  BY DemonstrationAssumption
<1>2. UNCHANGED <<step, period, tasks>>
  BY DEF LateBill
<1>3. bill' = [total |-> bill.total + Abandoned, carried |-> bill.carried + Abandoned]
  BY DEF LateBill
<1>4. Books'
  BY <1>1, <1>2, <1>3 DEF BillInv, Books
<1>5. QED
  BY <1>2, <1>4 DEF BillInv, Idle

LEMMA SuitesInvStep ==
  ASSUME SuitesInv, [Next]_vars
  PROVE  SuitesInv'
<1>1. CASE UNCHANGED vars
  <2>1. UNCHANGED limiterVars /\ UNCHANGED <<period, bill, tasks, step>>
    BY <1>1 DEF vars, moneyVars, callVars
  <2>2. LimiterInv'
    BY <2>1, LimiterInvStep DEF SuitesInv
  <2>3. BillInv'
    BY <2>1 DEF SuitesInv, BillInv, Books, Idle
  <2>4. QED
    BY <2>2, <2>3 DEF SuitesInv
<1>2. CASE Next
  <2>1. LimiterInv'
    BY <1>2, SuitesMoveLimiter, LimiterInvMoves DEF SuitesInv, BillInv
  <2>2. BillInv'
    BY <1>2, SendersKeepBill, SeedersKeepBill, ImportKeepsBill, DeadlineKeepsBill,
       OthersKeepBill, BurstKeepsBill, LateBillKeepsBill
    DEF SuitesInv, Next, Shape, HalfFix, Control, Elsewhere, Senders
  <2>3. QED
    BY <2>1, <2>2 DEF SuitesInv
<1>3. QED
  BY <1>1, <1>2

LEMMA SuitesInvInit ==
  ASSUME Init
  PROVE  SuitesInv
<1>1. LimiterInv
  BY FreshLimiter, LimiterAssumption DEF Init, LimiterInit
<1>2. Books
  BY DemonstrationAssumption DEF Init, Books, Idle
<1>3. QED
  BY <1>1, <1>2 DEF Init, SuitesInv, BillInv

LEMMA SuitesInvariant == Spec => []SuitesInv
<1>1. Init => SuitesInv
  BY SuitesInvInit
<1>2. SuitesInv /\ [Next]_vars => SuitesInv'
  BY SuitesInvStep
<1>3. QED
  BY <1>1, <1>2, PTL DEF Spec

(* The limiter honours its window exactly through every session of suites,
   with time passing, requests answered 503 and the replicas restarted.      *)
THEOREM SuitesMeetExactWindow == Spec => []WindowIsExact
<1>1. SuitesInv => WindowIsExact
  BY WindowFromInv DEF SuitesInv
<1>2. QED
  BY <1>1, SuitesInvariant, PTL

(* Through every seeding, what is billed beyond the period row is what
   abandoned calls cost, whenever they are billed.                           *)
THEOREM BillIsExplained == Spec => []BillIsPoolAndAbandoned
<1>1. SuitesInv => BillIsPoolAndAbandoned
  BY DEF SuitesInv, BillInv, Books, BillIsPoolAndAbandoned
<1>2. QED
  BY <1>1, SuitesInvariant, PTL

-----------------------------------------------------------------------------
(* What a verdict shows *)

Tallies ==
  [refused : Nat, allowed : Nat, first : Nat, second : Nat, peak : Nat,
   ok : BOOLEAN, truly : BOOLEAN, ratios : Seq(Nat \X Nat)]

Counters == Replicas \X Counted \X LocalKeys

(* The types of what is counted; no counter of a half fix passes the allowance. *)
CountsOK ==
  /\ tally \in Tallies /\ n \in Nat \ {0} /\ began \in Nat
  /\ IsFiniteSet(late)
  /\ limited \in [Keys -> Nat]
  /\ spent \in [Counters -> 0..Allowance]

(* Which scenario a step is a step of. *)
ScenarioOfStep ==
  /\ step = "name" => Scenario = "names_the_work"
  /\ step \in {"drain", "rest", "bystanders"} => Scenario = "undivided_budget"
  /\ step = "import" => Scenario \in {"expansion", "compressed_size"}
  /\ step \in {"setup", "poll", "cheap"} => Scenario = "in_flight"
  /\ step \in {"hold", "release"} => Scenario \in {"in_flight", "deadline"}
  /\ step \in {"send", "look"} => Scenario = "deadline"
  /\ step \in {"prove", "spend", "leftover"} => Scenario = "rate_limit"
  /\ step \in {"steady", "reseed", "rotated"} => Scenario = "caller_keyed"
  /\ step \in {"single", "double"} => Scenario = "in_process"
  /\ step = "ask" => Scenario \in {"authorized", "one_of_each"}
  /\ step \in {"fill", "measure"} => Scenario = "more_capacity"

(* A suite runs one of its scenarios, which begins with nothing counted. *)
OnScript ==
  /\ session \in Sessions /\ runs \in 0..Len(session)
  /\ step \in {"begin", "ended"} => tally = Blank
  /\ step # "ended" =>
       /\ suite \in DOMAIN Script /\ pos \in 1..Len(Script[suite]) /\ runs # 0
       /\ ScenarioOfStep

(* Shape 2: a bystander was turned away because the pool has run dry. *)
DrainedTruly ==
  Scenario = "undivided_budget" =>
    /\ step \in {"drain", "rest"} => tally.refused = 0
    /\ step \in {"bystanders", "judge"} /\ calm /\ tally.refused # 0 => ~HasMoney(1)

(* Shape 4: the cheap read had its job, and failed for want of a connection. *)
HeldTruly ==
  /\ step = "setup" => period = [charged |-> 0, cap |-> Cap]
  /\ Scenario = "in_flight" /\ calm =>
       /\ step \in {"hold", "poll", "cheap"} => tally.ok
       /\ step \in {"release", "judge"} /\ tally.ok => tally.truly

(* Half fix 5: no older suite has a call under way. *)
AbandonedTruly ==
  fresh =>
    /\ late \subseteq {runs}
    /\ Scenario = "deadline" /\ step \in {"release", "judge"} /\ tally.peak # 0 => tally.truly

(* Half fix 1: the requests the prover still has in its window, since it began. *)
Since(k) == {entry \in seen[k] : entry[2] >= began}
Proving ==
  /\ n <= MaxRequests + 1
  /\ calm => /\ n > 1 => began <= clock /\ clock - began < Window
             /\ n > 1 => n <= Cardinality(Since(Prover)) + limited[Prover] + 1

LimitedTruly ==
  Scenario = "rate_limit" =>
    /\ step # "begin" => period.cap = Cap /\ limited[Prover] <= tally.refused
    /\ step = "prove" => Proving
    /\ step \in {"spend", "leftover", "judge"} /\ calm => limited[Prover] # 0

(* A fresh process has let the spender do no more than this scenario asked. *)
SpenderUnseen ==
  \/ \A p \in 1..pos : Script[suite][p] # "rate_limit"
  \/ Scenario = "rate_limit" /\ step \in {"begin", "prove"}

SpentTruly ==
  fresh =>
    /\ SpenderUnseen => seen[Spender] = {}
    /\ Scenario = "rate_limit" =>
         /\ step = "prove" => tally.allowed = 0 /\ limited[Spender] = 0
         /\ step = "spend" => /\ limited[Spender] = 0 /\ tally.allowed + 1 = n
                              /\ Cardinality(seen[Spender]) < n
         /\ step = "leftover" /\ tally.allowed < MaxRequests =>
              limited[Spender] = 0 /\ Cardinality(seen[Spender]) <= tally.allowed + 1
         /\ step = "judge" /\ tally.allowed < MaxRequests => limited[Spender] = 0

(* Half fixes 2 and 3: what a scenario was served, its counters counted. *)
CountedTruly ==
  /\ Scenario = "caller_keyed" /\ step # "begin" =>
       /\ step = "steady" => tally.second = 0
       /\ tally.first <= spent[1, "caller_keyed", <<"steady", runs>>]
  /\ Scenario = "in_process" /\ step # "begin" =>
       /\ step = "single" => tally.second = 0
       /\ tally.first <= spent[1, "in_process", Prover]
       /\ tally.second <= spent[1, "in_process", Third] + spent[2, "in_process", Third]

Truths ==
  /\ DrainedTruly /\ HeldTruly /\ AbandonedTruly
  /\ LimitedTruly /\ SpentTruly /\ CountedTruly

VerdictsInv ==
  /\ SuitesInv /\ CountsOK /\ OnScript
  /\ step # "ended" => Truths

(* The script is a list of twelve names, of which no suite repeats one. *)
Names == DOMAIN FirstStep

OnlyAt(A, r, i) == \A p \in 1..Len(A) : A[p] = r => p = i

LEMMA Joined ==
  ASSUME NEW N, NEW A \in Seq(N), NEW B \in Seq(N)
  PROVE  /\ A \o B \in Seq(N)
         /\ Len(A \o B) = Len(A) + Len(B)
         /\ \A p \in 1..(Len(A) + Len(B)) :
              (A \o B)[p] = IF p <= Len(A) THEN A[p] ELSE B[p - Len(A)]
OBVIOUS

LEMMA JoinedOnce ==
  ASSUME NEW N, NEW A \in Seq(N), NEW B \in Seq(N), NEW r, NEW i \in Nat,
         \/ OnlyAt(A, r, i) /\ OnlyAt(B, r, 0)
         \/ OnlyAt(A, r, 0) /\ OnlyAt(B, r, i - Len(A))
  PROVE  OnlyAt(A \o B, r, i)
<1>1. PICK E : E = A \o B
  OBVIOUS
<1>2. /\ Len(A) \in Nat /\ Len(B) \in Nat /\ Len(E) = Len(A) + Len(B)
      /\ \A p \in 1..(Len(A) + Len(B)) : E[p] = IF p <= Len(A) THEN A[p] ELSE B[p - Len(A)]
  BY <1>1, Joined
<1>3. ASSUME NEW p \in 1..(Len(A) + Len(B)), E[p] = r
      PROVE  p = i
  <2>1. CASE p <= Len(A)
    BY <1>2, <1>3, <2>1 DEF OnlyAt
  <2>2. CASE ~(p <= Len(A))
    <3>1. p - Len(A) \in 1..Len(B) /\ B[p - Len(A)] = r
      BY <1>2, <1>3, <2>2
    <3>2. QED
      BY <1>2, <3>1 DEF OnlyAt
  <2>3. QED
    BY <2>1, <2>2
<1>4. QED
  BY <1>1, <1>2, <1>3 DEF OnlyAt

LEMMA ScriptFacts ==
  ASSUME NEW s \in DOMAIN Script
  PROVE  /\ Len(Script[s]) \in Nat \ {0}
         /\ \A p \in 1..Len(Script[s]) : Script[s][p] \in Names
         /\ \A p, q \in 1..Len(Script[s]) :
              Script[s][p] = "rate_limit" /\ Script[s][q] = "rate_limit" => p = q
<1> DEFINE N == {"names_the_work", "undivided_budget", "expansion", "in_flight", "rate_limit",
                 "caller_keyed", "compressed_size", "deadline", "in_process", "authorized",
                 "one_of_each", "more_capacity"}
<1>1. Names = N
  BY DEF Names, FirstStep
<1>2. /\ Shapes \in Seq(N) /\ Len(Shapes) = 4
      /\ \A p \in 1..4 : Shapes[p] # "rate_limit"
  <2>1. 1..4 = {1, 2, 3, 4}
    OBVIOUS
  <2>2. Shapes \in Seq(N) /\ Len(Shapes) = 4
    BY DEF Shapes
  <2>3. QED
    BY <2>1, <2>2 DEF Shapes
<1>3. /\ HalfFixes \in Seq(N) /\ Len(HalfFixes) = 5
      /\ \A p \in 1..5 : HalfFixes[p] = "rate_limit" => p = 1
  <2>1. 1..5 = {1, 2, 3, 4, 5}
    OBVIOUS
  <2>2. HalfFixes \in Seq(N) /\ Len(HalfFixes) = 5
    BY DEF HalfFixes
  <2>3. QED
    BY <2>1, <2>2 DEF HalfFixes
<1>4. /\ Controls \in Seq(N) /\ Len(Controls) = 3
      /\ \A p \in 1..3 : Controls[p] # "rate_limit"
  <2>1. 1..3 = {1, 2, 3}
    OBVIOUS
  <2>2. Controls \in Seq(N) /\ Len(Controls) = 3
    BY DEF Controls
  <2>3. QED
    BY <2>1, <2>2 DEF Controls
<1>5. \/ Script[s] = Shapes \/ Script[s] = HalfFixes \/ Script[s] = Controls
      \/ Script[s] = Shapes \o HalfFixes \o Controls
  BY DEF Script
<1>6. /\ OnlyAt(Shapes, "rate_limit", 0) /\ OnlyAt(HalfFixes, "rate_limit", 1)
      /\ OnlyAt(Controls, "rate_limit", 0)
  BY <1>2, <1>3, <1>4 DEF OnlyAt
<1> HIDE DEF N
<1>7. /\ Shapes \o HalfFixes \in Seq(N) /\ Len(Shapes \o HalfFixes) = 9
      /\ OnlyAt(Shapes \o HalfFixes, "rate_limit", 5)
  <2>1. OnlyAt(HalfFixes, "rate_limit", 5 - Len(Shapes))
    BY <1>2, <1>6
  <2>2. OnlyAt(Shapes \o HalfFixes, "rate_limit", 5)
    BY <1>2, <1>3, <1>6, <2>1, JoinedOnce
  <2>3. /\ Shapes \o HalfFixes \in Seq(N)
        /\ Len(Shapes \o HalfFixes) = Len(Shapes) + Len(HalfFixes)
    BY <1>2, <1>3, Joined, Zenon
  <2>4. QED
    BY <1>2, <1>3, <2>2, <2>3
<1>8. /\ Shapes \o HalfFixes \o Controls \in Seq(N)
      /\ Len(Shapes \o HalfFixes \o Controls) = 12
      /\ OnlyAt(Shapes \o HalfFixes \o Controls, "rate_limit", 5)
  <2>1. PICK A \in Seq(N) : A = Shapes \o HalfFixes
    BY <1>7
  <2>2. OnlyAt(A \o Controls, "rate_limit", 5)
    BY <1>4, <1>6, <1>7, <2>1, JoinedOnce
  <2>3. A \o Controls \in Seq(N) /\ Len(A \o Controls) = Len(A) + Len(Controls)
    BY <1>4, Joined, Zenon
  <2>4. QED
    BY <1>4, <1>7, <2>1, <2>2, <2>3
<1>9. PICK i : /\ Script[s] \in Seq(N) /\ Len(Script[s]) # 0
               /\ OnlyAt(Script[s], "rate_limit", i)
  <2>1. CASE Script[s] = Shapes
    BY <1>2, <1>6, <2>1
  <2>2. CASE Script[s] = HalfFixes
    BY <1>3, <1>6, <2>2
  <2>3. CASE Script[s] = Controls
    BY <1>4, <1>6, <2>3
  <2>4. CASE Script[s] = Shapes \o HalfFixes \o Controls
    BY <1>8, <2>4
  <2>5. QED
    BY <1>5, <2>1, <2>2, <2>3, <2>4
<1>10. PICK A \in Seq(N) : A = Script[s]
  BY <1>9
<1>11. /\ Len(A) \in Nat \ {0}
       /\ \A p \in 1..Len(A) : A[p] \in N
       /\ \A p, q \in 1..Len(A) : A[p] = "rate_limit" /\ A[q] = "rate_limit" => p = q
  BY <1>9, <1>10 DEF OnlyAt
<1>12. QED
  BY <1>1, <1>10, <1>11

(* What one request does to what is counted. *)
LEMMA AskCounts ==
  ASSUME Books, CountsOK, NEW a, NEW failed \in BOOLEAN, Asks(a, failed)
  PROVE  /\ limited' \in [Keys -> Nat]
         /\ \A k \in Keys :
              limited'[k] = IF a.fix = "rate_limit" /\ k = a.tenant /\ ~Passes(a)
                            THEN limited[k] + 1 ELSE limited[k]
         /\ spent' \in [Counters -> 0..Allowance]
         /\ \A c \in Counters :
              spent'[c] = IF /\ a.fix \in Counted /\ Passes(a)
                             /\ c = <<a.replica, a.fix, a.key>>
                          THEN spent[c] + a.lookups ELSE spent[c]
         /\ calm' => calm /\ ~failed
         /\ period'.cap = period.cap
         /\ ~HasMoney(1) => ~HasMoney(1)'
         /\ UNCHANGED <<scriptVars, callVars>>
<1>1. a.lookups \in Nat /\ Allowance \in Nat /\ (a.fix = "rate_limit" => a.tenant \in Keys)
  BY DemonstrationAssumption DEF Asks
<1>2. /\ limited' = IF a.fix = "rate_limit" /\ ~Passes(a)
                    THEN [limited EXCEPT ![a.tenant] = @ + 1] ELSE limited
      /\ limited \in [Keys -> Nat]
  BY DEF Asks, Enrich, CountsOK
<1>3. /\ limited' \in [Keys -> Nat]
      /\ \A k \in Keys :
              limited'[k] = IF a.fix = "rate_limit" /\ k = a.tenant /\ ~Passes(a)
                            THEN limited[k] + 1 ELSE limited[k]
  BY <1>1, <1>2
<1>4. /\ spent' = IF a.fix \in Counted /\ Passes(a)
                  THEN [spent EXCEPT ![<<a.replica, a.fix, a.key>>] = @ + a.lookups] ELSE spent
      /\ spent \in [Counters -> 0..Allowance]
  BY DEF Asks, Enrich, CountsOK
<1>5. a.fix \in Counted /\ Passes(a) => spent[<<a.replica, a.fix, a.key>>] + a.lookups <= Allowance
  <2>1. a.fix \in Counted => a.fix # "rate_limit"
    BY DEF Counted
  <2>2. QED
    BY <2>1 DEF Passes
<1>6. /\ spent' \in [Counters -> 0..Allowance]
      /\ \A c \in Counters :
              spent'[c] = IF /\ a.fix \in Counted /\ Passes(a)
                             /\ c = <<a.replica, a.fix, a.key>>
                          THEN spent[c] + a.lookups ELSE spent[c]
  <2> HIDE DEF Counters
  <2>1. CASE a.fix \in Counted /\ Passes(a) /\ <<a.replica, a.fix, a.key>> \in Counters
    <3>1. PICK e \in Counters : e = <<a.replica, a.fix, a.key>>
      BY <2>1
    <3>2. spent' = [spent EXCEPT ![e] = @ + a.lookups] /\ spent[e] + a.lookups <= Allowance
      BY <1>4, <1>5, <2>1, <3>1
    <3>3. spent[e] + a.lookups \in 0..Allowance
      BY <1>1, <1>4, <3>2
    <3>4. /\ spent' \in [Counters -> 0..Allowance]
          /\ \A c \in Counters : spent'[c] = IF c = e THEN spent[c] + a.lookups ELSE spent[c]
      BY <1>4, <3>2, <3>3
    <3>5. QED
      BY <2>1, <3>1, <3>4
  <2>2. CASE ~(a.fix \in Counted /\ Passes(a) /\ <<a.replica, a.fix, a.key>> \in Counters)
    <3>1. spent' = spent
      BY <1>4, <2>2
    <3>2. QED
      BY <1>4, <2>2, <3>1
  <2>3. QED
    BY <2>1, <2>2
<1>7. (calm' => calm /\ ~failed) /\ UNCHANGED <<scriptVars, callVars>>
  BY DEF Asks, Enrich
<1>8. period'.cap = period.cap /\ period'.charged >= period.charged
  BY <1>1 DEF Asks, Enrich, Pay, moneyVars, Books
<1>9. ~HasMoney(1) => ~HasMoney(1)'
  <2>1. period' \in [charged : Nat, cap : Nat]
    BY AskKeepsBooks DEF Books
  <2>2. QED
    BY <1>8, <2>1 DEF HasMoney, Books
<1>10. QED
  BY <1>3, <1>6, <1>7, <1>8, <1>9

(* Requests are of the scenario that is running, and of no other. *)
LEMMA SendersStay ==
  ASSUME SuitesInv, CountsOK, Senders
  PROVE  /\ UNCHANGED <<scriptVars, callVars>>
         /\ limited' \in [Keys -> Nat] /\ spent' \in [Counters -> 0..Allowance]
         /\ began' \in Nat
         /\ calm' => calm
         /\ ~HasMoney(1) => ~HasMoney(1)'
         /\ period'.cap = period.cap
<1>1. Books /\ clock \in Nat /\ began \in Nat
  BY LimiterAssumption DEF SuitesInv, BillInv, LimiterInv, LimiterTypeOK, CountsOK
<1>2. CASE \E a : \E failed \in BOOLEAN : Asks(a, failed)
  <2>1. PICK a : \E failed \in BOOLEAN : Asks(a, failed)
    BY <1>2
  <2>2. PICK failed \in BOOLEAN : Asks(a, failed)
    BY <2>1
  <2>3. began' = IF step = "prove" /\ n = 1 THEN clock ELSE began
    BY <2>2 DEF Asks, Enrich
  <2>4. QED
    BY <1>1, <2>2, <2>3, AskCounts
<1>3. CASE NothingAsked
  BY <1>1, <1>3 DEF NothingAsked, CountsOK, moneyVars, HasMoney
<1>4. QED
  BY <1>1, <1>2, <1>3, SendersAsk

LEMMA NoteTyped ==
  ASSUME tally \in Tallies, NEW field, NEW value, Note(field, value),
         \/ field \in {"refused", "allowed", "first", "second"} /\ value \in Nat
         \/ field = "ok" /\ value \in BOOLEAN
  PROVE  tally' \in Tallies
BY DEF Note, Tallies

(* The drain counts what it was served. *)
LEMMA SpendsTyped ==
  ASSUME CountsOK, NEW a, a.lookups \in Nat, NEW field \in {"first", "second"}, NEW then,
         SpendUntilRefused(a, field, then)
  PROVE  tally' \in Tallies /\ n' \in Nat \ {0}
<1>1. tally \in Tallies /\ n \in Nat \ {0}
  BY DEF CountsOK
<1>2. tally[field] \in Nat
  BY <1>1 DEF Tallies
<1>3. tally' \in Tallies
  <2>1. CASE Note(field, tally[field] + a.lookups)
    <3>1. tally[field] + a.lookups \in Nat
      BY <1>2
    <3>2. QED
      BY <1>1, <2>1, <3>1, NoteTyped
  <2>2. QED
    BY <1>1, <2>1 DEF SpendUntilRefused
<1>4. n' \in Nat \ {0}
  BY <1>1 DEF SpendUntilRefused, Goto, Again
<1>5. QED
  BY <1>3, <1>4

LEMMA SendersTyped ==
  ASSUME SuitesInv, CountsOK, Senders
  PROVE  tally' \in Tallies /\ n' \in Nat \ {0}
<1>1. /\ tally \in Tallies /\ n \in Nat \ {0} /\ Batch \in Nat
      /\ tally.refused + 1 \in Nat /\ tally.allowed + 1 \in Nat
  <2>1. Batch \in Nat
    BY DemonstrationAssumption
  <2>2. tally \in Tallies /\ n \in Nat \ {0}
    BY DEF CountsOK
  <2>3. QED
    BY <2>1, <2>2 DEF Tallies
<1>2. \A a : \A failed : Served(a, failed) \in BOOLEAN
  BY DEF Served
<1>3. CASE NameTheWork
  <2>1. PICK failed \in BOOLEAN : Note("ok", Served(Plain((Cap * 4) \div 5), failed))
    BY <1>3 DEF NameTheWork
  <2>2. tally' \in Tallies
    BY <1>1, <1>2, <2>1, NoteTyped
  <2>3. QED
    BY <1>3, <2>2 DEF NameTheWork, Goto
<1>4. CASE DrainThePool
  BY <1>1, <1>4 DEF DrainThePool, Goto, Again
<1>5. CASE TakeTheRest
  <2>1. UNCHANGED tally \/ Note("allowed", tally.allowed + 1)
    BY <1>5 DEF TakeTheRest
  <2>2. tally' \in Tallies
    BY <1>1, <2>1, NoteTyped
  <2>3. QED
    BY <1>5, <2>2 DEF TakeTheRest, Goto
<1>6. CASE AskForBystanders
  <2>1. UNCHANGED tally \/ Note("refused", tally.refused + 1)
    BY <1>6 DEF AskForBystanders
  <2>2. tally' \in Tallies
    BY <1>1, <2>1, NoteTyped
  <2>3. QED
    BY <1>1, <1>6, <2>2 DEF AskForBystanders, Goto, Again
<1>7. CASE SetUp
  <2>1. PICK failed \in BOOLEAN : Note("ok", Served(Plain(1), failed))
    BY <1>7 DEF SetUp
  <2>2. tally' \in Tallies
    BY <1>1, <1>2, <2>1, NoteTyped
  <2>3. QED
    BY <1>7, <2>2 DEF SetUp, Goto
<1>8. CASE ProveTheLimiter
  <2>1. UNCHANGED tally \/ Note("refused", tally.refused + 1)
    BY <1>8 DEF ProveTheLimiter
  <2>2. tally' \in Tallies
    BY <1>1, <2>1, NoteTyped
  <2>3. QED
    BY <1>1, <1>8, <2>2 DEF ProveTheLimiter, Goto, Again
<1>9. CASE SpendInside
  <2>1. UNCHANGED tally \/ Note("allowed", tally.allowed + 1)
    BY <1>9 DEF SpendInside
  <2>2. tally' \in Tallies
    BY <1>1, <2>1, NoteTyped
  <2>3. QED
    BY <1>1, <1>9, <2>2 DEF SpendInside, Goto, Again
<1>10. \A replica, tenant, fix, key : Ask(replica, tenant, Batch, fix, key).lookups = Batch
  BY DEF Ask
<1>11. CASE SpendSteadily
  BY <1>1, <1>10, <1>11, SpendsTyped DEF SpendSteadily
<1>12. CASE SpendRotating
  BY <1>1, <1>10, <1>12, SpendsTyped DEF SpendRotating
<1>13. CASE SpendAtOne
  BY <1>1, <1>10, <1>13, SpendsTyped DEF SpendAtOne
<1>14. CASE SpendAtBoth
  BY <1>1, <1>10, <1>14, SpendsTyped DEF SpendAtBoth
<1>15. CASE AskOrdinarily
  <2>1. UNCHANGED tally \/ Note("allowed", tally.allowed + 1)
    BY <1>15 DEF AskOrdinarily
  <2>2. tally' \in Tallies
    BY <1>1, <2>1, NoteTyped
  <2>3. QED
    BY <1>1, <1>15, <2>2 DEF AskOrdinarily, Goto, Again
<1>16. CASE FillTheCap
  BY <1>1, <1>16 DEF FillTheCap, Again
<1>17. QED
  BY <1>3, <1>4, <1>5, <1>6, <1>7, <1>8, <1>9, <1>11, <1>12, <1>13, <1>14, <1>15, <1>16
  DEF Senders

(* The steps that look at what is in flight, and the ones that only move on. *)
LEMMA WatchersTyped ==
  ASSUME SuitesInv, CountsOK, Poll \/ AskTheCheapOne \/ Look
  PROVE  CountsOK'
<1>1. InFlight \in Nat /\ Highest \in Nat
  <2>1. tasks.calling \in Nat /\ Cardinality(late) \in Nat /\ tally.peak \in Nat
    BY FS_CardinalityType DEF SuitesInv, BillInv, Books, CountsOK, Tallies
  <2>2. QED
    BY <2>1 DEF InFlight, Highest
<1>2. UNCHANGED <<late, limited, spent, began>> /\ n' \in Nat \ {0}
  <2>1. CASE Poll
    BY <2>1 DEF Poll, callVars, Goto, CountsOK
  <2>2. CASE AskTheCheapOne
    <3>1. UNCHANGED <<callVars, spent, limited, began>> /\ Goto("release")
      BY <2>2, Zenon DEF AskTheCheapOne
    <3>2. QED
      BY <3>1 DEF callVars, Goto
  <2>3. CASE Look
    BY <2>3 DEF Look, callVars, Goto
  <2>4. QED
    BY <2>1, <2>2, <2>3
<1>3. tally' \in Tallies
  <2>1. tally \in Tallies
    BY DEF CountsOK
  <2>2. CASE Poll
    BY <1>1, <2>1, <2>2 DEF Poll, Note, Tallies
  <2>3. CASE AskTheCheapOne
    <3>1. PICK answered \in BOOLEAN :
            tally' = [tally EXCEPT !.peak = Highest, !.ok = ~answered,
                                   !.truly = tasks.calling = PoolSize]
      BY <2>3 DEF AskTheCheapOne
    <3>2. QED
      BY <1>1, <2>1, <3>1 DEF Tallies
  <2>4. CASE Look
    <3>1. tally' = [[tally EXCEPT !.peak = InFlight] EXCEPT !.truly = runs \in late]
      BY <2>4 DEF Look
    <3>2. PICK early : early = [tally EXCEPT !.peak = InFlight]
      OBVIOUS
    <3>3. early \in Tallies
      BY <1>1, <2>1, <3>2 DEF Tallies
    <3>4. \A v : v \in BOOLEAN => [early EXCEPT !.truly = v] \in Tallies
      BY <3>3 DEF Tallies
    <3>5. (runs \in late) \in BOOLEAN
      OBVIOUS
    <3>6. QED
      BY <3>1, <3>2, <3>4, <3>5
  <2>5. QED
    BY <2>2, <2>3, <2>4
<1>4. QED
  BY <1>2, <1>3 DEF CountsOK

LEMMA OthersTyped ==
  ASSUME SuitesInv, CountsOK, OnScript, Next, ~Senders, ~(Poll \/ AskTheCheapOne \/ Look)
  PROVE  CountsOK'
<1>1. /\ tally \in Tallies /\ n \in Nat \ {0} /\ IsFiniteSet(late) /\ began \in Nat
      /\ limited \in [Keys -> Nat] /\ spent \in [Counters -> 0..Allowance] /\ bill.total \in Nat
  BY DEF CountsOK, SuitesInv, BillInv, Books
<1>2. Bundle \in Nat /\ Batch \in Nat /\ Allowance \in Nat
  BY DemonstrationAssumption
<1>3. CASE Begin
  <2>1. limited' \in [Keys -> Nat] /\ n' = 1
    BY <1>3 DEF Begin, Goto
  <2>2. UNCHANGED <<tally, late, spent, began>>
    BY <1>3 DEF Begin
  <2>3. QED
    BY <1>1, <2>1, <2>2 DEF CountsOK
<1>4. CASE ImportTheBundle
  <2>1. UNCHANGED <<late, limited, spent, began>> /\ n' = 1
    BY <1>4 DEF ImportTheBundle, Goto, callVars
  <2>2. PICK ok \in BOOLEAN, admitted \in Nat :
          tally' = [tally EXCEPT !.ok = ok, !.first = admitted]
    BY <1>2, <1>4 DEF ImportTheBundle
  <2>3. tally' \in Tallies
    BY <1>1, <1>2, <2>2 DEF Tallies
  <2>4. QED
    BY <1>1, <2>1, <2>3 DEF CountsOK
<1>5. CASE Hold \/ Release \/ Reseed
  <2>1. UNCHANGED <<tally, late, limited, spent, began>> /\ n' = 1
    BY <1>5 DEF Hold, Release, Reseed, Goto
  <2>2. QED
    BY <1>1, <2>1 DEF CountsOK
<1>6. CASE SendWithDeadline
  <2>1. UNCHANGED <<limited, spent, began>> /\ n' = 1
    BY <1>6 DEF SendWithDeadline, Goto
  <2>2. IsFiniteSet(late')
    <3>1. late' = late \/ late' = late \cup {runs}
      BY <1>6 DEF SendWithDeadline
    <3>2. QED
      BY <1>1, <3>1, FS_AddElement
  <2>3. tally' \in Tallies
    <3>1. UNCHANGED tally \/ Note("ok", TRUE)
      BY <1>6 DEF SendWithDeadline
    <3>2. QED
      BY <1>1, <3>1, NoteTyped
  <2>4. QED
    BY <1>1, <2>1, <2>2, <2>3 DEF CountsOK
<1>7. CASE Measure
  <2>1. UNCHANGED <<late, limited, spent, began>> /\ n' \in Nat \ {0}
    BY <1>7 DEF Measure, Goto
  <2>2. BatchNow \in Nat
    BY <1>2 DEF BatchNow
  <2>3. n * BatchNow \in Nat
    BY <1>1, <2>2
  <2>4. PICK pair \in Nat \X Nat : pair = <<bill.total, n * BatchNow>>
    BY <1>1, <2>3
  <2>5. tally.ratios \in Seq(Nat \X Nat)
    BY <1>1 DEF Tallies
  <2>6. Append(tally.ratios, pair) \in Seq(Nat \X Nat)
    BY <2>5
  <2>7. tally' = [tally EXCEPT !["ratios"] = Append(tally.ratios, pair)]
    BY <1>7, <2>4 DEF Measure, Note
  <2>8. tally' \in Tallies
    BY <1>1, <2>6, <2>7 DEF Tallies
  <2>9. QED
    BY <1>1, <2>1, <2>8 DEF CountsOK
<1>8. CASE Judge
  <2>1. UNCHANGED <<late, limited, spent, began>> /\ n' = 1 /\ tally' = Blank
    BY <1>8 DEF Judge, Goto, callVars
  <2>2. Blank \in Tallies
    BY DEF Blank, Tallies
  <2>3. QED
    BY <1>1, <2>1, <2>2 DEF CountsOK
<1>9. CASE StartSuite
  <2>1. UNCHANGED <<tally, late, limited, began>> /\ n' = 1
    BY <1>9 DEF StartSuite, Goto, callVars
  <2>2. spent' = spent \/ spent' = [c \in DOMAIN spent |-> 0]
    BY <1>9 DEF StartSuite
  <2>3. spent' \in [Counters -> 0..Allowance]
    BY <1>1, <1>2, <2>2
  <2>4. QED
    BY <1>1, <2>1, <2>3 DEF CountsOK
<1>10. CASE LateBill
  <2>1. UNCHANGED <<tally, n, limited, spent, began>>
    BY <1>10 DEF LateBill
  <2>2. PICK call : late' = late \ {call}
    BY <1>10 DEF LateBill
  <2>3. IsFiniteSet(late')
    BY <1>1, <2>2, FS_RemoveElement
  <2>4. QED
    BY <1>1, <2>1, <2>3 DEF CountsOK
<1>11. CASE TaskCalls \/ TaskEnds \/ TimePasses \/ Rest
  <2>1. UNCHANGED <<tally, n, late, limited, spent, began>>
    BY <1>11 DEF TaskCalls, TaskEnds, TimePasses, Rest, vars, callVars
  <2>2. QED
    BY <1>1, <2>1 DEF CountsOK
<1>12. QED
  BY <1>3, <1>4, <1>5, <1>6, <1>7, <1>8, <1>9, <1>10, <1>11
  DEF Next, Shape, HalfFix, Control, Elsewhere, Senders

LEMMA CountsStep ==
  ASSUME SuitesInv, CountsOK, OnScript, Next
  PROVE  CountsOK'
<1>1. CASE Senders
  <2>1. late' = late
    BY <1>1, SendersStay DEF callVars
  <2>2. QED
    BY <1>1, <2>1, SendersStay, SendersTyped DEF CountsOK
<1>2. QED
  BY <1>1, WatchersTyped, OthersTyped

-----------------------------------------------------------------------------
(* The order of the steps *)

Turn == StartSuite \/ Begin \/ Judge
Background == LateBill \/ TaskCalls \/ TaskEnds \/ TimePasses

(* Where a scenario begins. *)
LEMMA BeginGoes ==
  ASSUME OnScript, Begin
  PROVE  /\ step' \notin {"begin", "ended", "judge"}
         /\ ScenarioOfStep' /\ Scenario' = Scenario
         /\ Scenario \in {"undivided_budget", "in_flight", "deadline", "rate_limit",
                          "caller_keyed", "in_process"} =>
              step' = [undivided_budget |-> "drain", in_flight |-> "setup", deadline |-> "hold",
                       rate_limit |-> "prove", caller_keyed |-> "steady",
                       in_process |-> "single"][Scenario]
<1>1. UNCHANGED <<suite, pos>> /\ step' = FirstStep[Scenario] /\ step = "begin"
  BY DEF Begin, Goto, scriptVars
<1>2. Scenario' = Scenario
  BY <1>1 DEF Scenario
<1>3. Scenario \in Names
  BY <1>1, ScriptFacts DEF OnScript, Scenario
<1>4. PICK s : s = Scenario
  OBVIOUS
<1>5. s \in {"names_the_work", "undivided_budget", "expansion", "in_flight", "rate_limit",
             "caller_keyed", "compressed_size", "deadline", "in_process", "authorized",
             "one_of_each", "more_capacity"}
  BY <1>3, <1>4 DEF Names, FirstStep
<1>6. QED
  BY <1>1, <1>2, <1>4, <1>5 DEF FirstStep, ScenarioOfStep

(* A step within a scenario leads to a step of the same scenario. *)
LEMMA ScriptGoesOn ==
  ASSUME OnScript, UNCHANGED scriptVars, step # "ended", step' \notin {"begin", "ended"},
         Scenario' = Scenario => ScenarioOfStep'
  PROVE  OnScript' /\ Scenario' = Scenario
<1>1. UNCHANGED <<session, suite, pos, runs>>
  BY DEF scriptVars
<1>2. Scenario' = Scenario
  BY <1>1 DEF Scenario
<1>3. QED
  BY <1>1, <1>2 DEF OnScript

LEMMA SendersGoOn ==
  ASSUME SuitesInv, CountsOK, OnScript, Senders
  PROVE  OnScript' /\ Scenario' = Scenario
<1>1. UNCHANGED scriptVars
  BY SendersStay
<1>2. step # "ended" => ScenarioOfStep
  BY DEF OnScript
<1>3. CASE NameTheWork \/ SetUp
  BY <1>1, <1>2, <1>3, ScriptGoesOn DEF NameTheWork, SetUp, Goto, ScenarioOfStep
<1>4. CASE DrainThePool
  BY <1>1, <1>2, <1>4, ScriptGoesOn DEF DrainThePool, Goto, Again, ScenarioOfStep
<1>5. CASE TakeTheRest
  <2>1. /\ step \in {"rest", "leftover"}
        /\ step' = IF step = "rest" THEN "bystanders" ELSE "judge"
    BY <1>5 DEF TakeTheRest, Goto
  <2>2. QED
    BY <1>1, <1>2, <2>1, ScriptGoesOn DEF ScenarioOfStep
<1>6. CASE AskForBystanders
  BY <1>1, <1>2, <1>6, ScriptGoesOn DEF AskForBystanders, Goto, Again, ScenarioOfStep
<1>7. CASE ProveTheLimiter
  BY <1>1, <1>2, <1>7, ScriptGoesOn DEF ProveTheLimiter, Goto, Again, ScenarioOfStep
<1>8. CASE SpendInside
  BY <1>1, <1>2, <1>8, ScriptGoesOn DEF SpendInside, Goto, Again, ScenarioOfStep
<1>9. CASE SpendSteadily \/ SpendRotating
  BY <1>1, <1>2, <1>9, ScriptGoesOn
  DEF SpendSteadily, SpendRotating, SpendUntilRefused, Goto, Again, ScenarioOfStep
<1>10. CASE SpendAtOne \/ SpendAtBoth
  BY <1>1, <1>2, <1>10, ScriptGoesOn
  DEF SpendAtOne, SpendAtBoth, SpendUntilRefused, Goto, Again, ScenarioOfStep
<1>11. CASE AskOrdinarily
  BY <1>1, <1>2, <1>11, ScriptGoesOn DEF AskOrdinarily, Goto, Again, ScenarioOfStep
<1>12. CASE FillTheCap
  BY <1>1, <1>2, <1>12, ScriptGoesOn DEF FillTheCap, Goto, Again, ScenarioOfStep
<1>13. QED
  BY <1>3, <1>4, <1>5, <1>6, <1>7, <1>8, <1>9, <1>10, <1>11, <1>12 DEF Senders

LEMMA TurnGoesOn ==
  ASSUME OnScript, Turn
  PROVE  OnScript'
<1>1. CASE Begin
  BY <1>1, BeginGoes DEF OnScript, Begin, scriptVars
<1>2. CASE Judge
  <2>1. /\ UNCHANGED <<session, suite, runs>> /\ tally' = Blank /\ step = "judge"
        /\ \/ pos < Len(Script[suite]) /\ pos' = pos + 1 /\ step' = "begin"
           \/ step' = "ended"
    BY <1>2 DEF Judge, Judging, Goto
  <2>2. /\ suite \in DOMAIN Script /\ Len(Script[suite]) \in Nat
        /\ pos \in 1..Len(Script[suite])
    BY <2>1, ScriptFacts DEF OnScript
  <2>3. step' = "begin" => pos' \in 1..Len(Script[suite])
    BY <2>1, <2>2
  <2>4. QED
    BY <2>1, <2>2, <2>3 DEF OnScript, ScenarioOfStep
<1>3. CASE StartSuite
  <2>1. /\ session' = session /\ tally' = tally /\ step = "ended" /\ step' = "begin"
        /\ runs < Len(session) /\ runs' = runs + 1
        /\ suite' = session[runs + 1] /\ pos' = 1
    BY <1>3 DEF StartSuite, Goto
  <2>2. session \in Seq(DOMAIN Script) /\ runs \in 0..Len(session)
    BY SessionAssumption DEF OnScript
  <2>3. runs + 1 \in 1..Len(session) /\ Len(session) \in Nat
    BY <2>1, <2>2
  <2>4. suite' \in DOMAIN Script
    BY <2>1, <2>2, <2>3
  <2>5. 1 \in 1..Len(Script[suite'])
    BY <2>4, ScriptFacts
  <2>6. QED
    BY <2>1, <2>3, <2>4, <2>5 DEF OnScript, ScenarioOfStep
<1>4. QED
  BY <1>1, <1>2, <1>3 DEF Turn

LEMMA OthersGoOn ==
  ASSUME SuitesInv, OnScript, Next, ~Senders, ~Turn
  PROVE  OnScript' /\ Scenario' = Scenario
<1>1. step # "ended" => ScenarioOfStep
  BY DEF OnScript
<1>2. CASE ImportTheBundle
  BY <1>1, <1>2, ScriptGoesOn DEF ImportTheBundle, Goto, ScenarioOfStep
<1>3. CASE Hold
  BY <1>1, <1>3, ScriptGoesOn DEF Hold, Goto, ScenarioOfStep
<1>4. CASE Poll
  BY <1>1, <1>4, ScriptGoesOn DEF Poll, Goto, ScenarioOfStep
<1>5. CASE AskTheCheapOne
  <2>1. UNCHANGED scriptVars /\ step = "cheap" /\ step' = "release"
    BY <1>5, Zenon DEF AskTheCheapOne, Goto
  <2>2. QED
    BY <1>1, <2>1, ScriptGoesOn DEF ScenarioOfStep
<1>6. CASE Release
  BY <1>1, <1>6, ScriptGoesOn DEF Release, Goto, ScenarioOfStep
<1>7. CASE SendWithDeadline
  BY <1>1, <1>7, ScriptGoesOn DEF SendWithDeadline, Goto, ScenarioOfStep
<1>8. CASE Look
  BY <1>1, <1>8, ScriptGoesOn DEF Look, Goto, ScenarioOfStep
<1>9. CASE Reseed
  BY <1>1, <1>9, ScriptGoesOn DEF Reseed, Goto, ScenarioOfStep
<1>10. CASE Measure
  BY <1>1, <1>10, ScriptGoesOn DEF Measure, Goto, ScenarioOfStep
<1>11. CASE Background \/ Rest
  <2>1. UNCHANGED <<session, suite, pos, runs, step, tally>>
    BY <1>11 DEF Background, LateBill, TaskCalls, TaskEnds, TimePasses, Rest, vars, scriptVars
  <2>2. QED
    BY <2>1 DEF OnScript, Scenario, ScenarioOfStep
<1>12. QED
  BY <1>2, <1>3, <1>4, <1>5, <1>6, <1>7, <1>8, <1>9, <1>10, <1>11
  DEF Next, Shape, HalfFix, Control, Elsewhere, Senders, Turn, Background

LEMMA ScriptStep ==
  ASSUME SuitesInv, CountsOK, OnScript, Next
  PROVE  OnScript' /\ (~Turn => Scenario' = Scenario)
<1>1. CASE Senders
  BY <1>1, SendersGoOn
<1>2. CASE Turn
  BY <1>2, TurnGoesOn
<1>3. QED
  BY <1>1, <1>2, OthersGoOn

(* Only a suite that starts leads out of the end. *)
LEMMA OnlyRestAfterEnd ==
  ASSUME SuitesInv, Next, ~Turn, step' # "ended"
  PROVE  step # "ended"
<1>1. CASE Senders
  BY <1>1
  DEF Senders, NameTheWork, DrainThePool, TakeTheRest, AskForBystanders, SetUp, ProveTheLimiter,
      SpendInside, SpendSteadily, SpendRotating, SpendAtOne, SpendAtBoth, AskOrdinarily, FillTheCap
<1>2. CASE Background
  <2>1. step' = step
    BY <1>2 DEF Background, LateBill, TaskCalls, TaskEnds, TimePasses
  <2>2. QED
    BY <2>1
<1>3. QED
  BY <1>1, <1>2
  DEF Next, Shape, HalfFix, Control, Elsewhere, Senders, Turn, Background,
      ImportTheBundle, Hold, Poll, AskTheCheapOne, Release, Reseed, SendWithDeadline, Look,
      Measure, Rest, vars

(* What may happen while a scenario runs. *)
LEMMA ScenarioMoves ==
  ASSUME OnScript, Next, step # "ended"
  PROVE  /\ Scenario = "undivided_budget" =>
              DrainThePool \/ TakeTheRest \/ AskForBystanders \/ Turn \/ Background
         /\ Scenario = "in_flight" =>
              SetUp \/ Hold \/ Poll \/ AskTheCheapOne \/ Release \/ Turn \/ Background
         /\ Scenario = "deadline" =>
              Hold \/ SendWithDeadline \/ Look \/ Release \/ Turn \/ Background
         /\ Scenario = "rate_limit" =>
              ProveTheLimiter \/ SpendInside \/ TakeTheRest \/ Turn \/ Background
         /\ Scenario = "caller_keyed" =>
              SpendSteadily \/ Reseed \/ SpendRotating \/ Turn \/ Background
         /\ Scenario = "in_process" => SpendAtOne \/ SpendAtBoth \/ Turn \/ Background
         /\ Scenario = "names_the_work" => NameTheWork \/ Turn \/ Background
         /\ Scenario \in {"expansion", "compressed_size"} => ImportTheBundle \/ Turn \/ Background
         /\ Scenario \in {"authorized", "one_of_each"} => AskOrdinarily \/ Turn \/ Background
         /\ Scenario = "more_capacity" => FillTheCap \/ Measure \/ Turn \/ Background
<1>1. ScenarioOfStep
  BY DEF OnScript
<1>2. NameTheWork => Scenario = "names_the_work"
  BY <1>1 DEF ScenarioOfStep, NameTheWork
<1>3. DrainThePool \/ AskForBystanders => Scenario = "undivided_budget"
  BY <1>1 DEF ScenarioOfStep, DrainThePool, AskForBystanders
<1>4. SetUp \/ Poll \/ AskTheCheapOne => Scenario = "in_flight"
  BY <1>1 DEF ScenarioOfStep, SetUp, Poll, AskTheCheapOne
<1>5. SendWithDeadline \/ Look => Scenario = "deadline"
  BY <1>1 DEF ScenarioOfStep, SendWithDeadline, Look
<1>6. ProveTheLimiter \/ SpendInside => Scenario = "rate_limit"
  BY <1>1 DEF ScenarioOfStep, ProveTheLimiter, SpendInside
<1>7. SpendSteadily \/ Reseed \/ SpendRotating => Scenario = "caller_keyed"
  BY <1>1 DEF ScenarioOfStep, SpendSteadily, Reseed, SpendRotating
<1>8. SpendAtOne \/ SpendAtBoth => Scenario = "in_process"
  BY <1>1 DEF ScenarioOfStep, SpendAtOne, SpendAtBoth
<1>9. FillTheCap \/ Measure => Scenario = "more_capacity"
  BY <1>1 DEF ScenarioOfStep, FillTheCap, Measure
<1>10. ImportTheBundle => Scenario \in {"expansion", "compressed_size"}
  BY <1>1 DEF ScenarioOfStep, ImportTheBundle
<1>11. AskOrdinarily => Scenario \in {"authorized", "one_of_each"}
  BY <1>1 DEF ScenarioOfStep, AskOrdinarily
<1>12. Hold \/ Release => Scenario \in {"in_flight", "deadline"}
  BY <1>1 DEF ScenarioOfStep, Hold, Release
<1>13. TakeTheRest => Scenario \in {"undivided_budget", "rate_limit"}
  BY <1>1 DEF ScenarioOfStep, TakeTheRest
<1>14. ~Rest
  BY DEF Rest
<1>15. QED
  BY <1>2, <1>3, <1>4, <1>5, <1>6, <1>7, <1>8, <1>9, <1>10, <1>11, <1>12, <1>13, <1>14
  DEF Next, Shape, HalfFix, Control, Elsewhere, Turn, Background

(* What goes on beside the client leaves what it has seen. *)
LEMMA BackgroundLeaves ==
  ASSUME Books, Background
  PROVE  /\ UNCHANGED <<scriptVars, step, n, tally, spent, limited, began, seen, granted>>
         /\ calm' => calm
         /\ period'.cap = period.cap
         /\ ~HasMoney(1) => ~HasMoney(1)'
         /\ late' \subseteq late
<1>1. CASE LateBill
  BY <1>1 DEF LateBill, limiterVars, HasMoney
<1>2. CASE TaskCalls
  <2>1. UNCHANGED period \/ HasMoney(1)
    BY <1>2 DEF TaskCalls
  <2>2. period'.cap = period.cap
    BY <1>2 DEF TaskCalls, Pay, Books
  <2>3. QED
    BY <1>2, <2>1, <2>2 DEF TaskCalls, limiterVars, HasMoney
<1>3. CASE TaskEnds
  BY <1>3 DEF TaskEnds, limiterVars, HasMoney
<1>4. CASE TimePasses
  BY <1>4 DEF TimePasses, Tick, moneyVars, callVars, HasMoney
<1>5. QED
  BY <1>1, <1>2, <1>3, <1>4 DEF Background

(* Where a suite turns to the next scenario, nothing has been counted. *)
LEMMA TurnLeaves ==
  ASSUME SuitesInv, CountsOK, OnScript, Turn, step' # "ended"
  PROVE  \/ /\ step' = "begin" /\ ~Begin
         \/ /\ Begin /\ tally = Blank /\ tally' = Blank /\ n' = 1 /\ Scenario' = Scenario
            /\ UNCHANGED <<scriptVars, late, spent, calm, seen, began>>
            /\ limited' = [t \in Keys |-> 0]
            /\ period' = [charged |-> 0, cap |-> Cap]
<1>1. CASE Begin
  BY <1>1, BeginGoes DEF Begin, OnScript, Goto, Seed, limiterVars
<1>2. CASE ~Begin
  BY <1>2 DEF Turn, StartSuite, Judge, Goto
<1>3. QED
  BY <1>1, <1>2

LEMMA BlankIs ==
  /\ Blank.refused = 0 /\ Blank.allowed = 0 /\ Blank.first = 0 /\ Blank.second = 0
  /\ Blank.peak = 0 /\ Blank.ok = FALSE
BY DEF Blank

(* Notes leave the other fields alone. *)
LEMMA NoteLeaves ==
  ASSUME tally \in Tallies, NEW field, NEW value, Note(field, value)
  PROVE  /\ \A f \in {"refused", "allowed", "first", "second", "peak", "ok", "truly"} :
              f # field => tally'[f] = tally[f]
         /\ field \in {"refused", "allowed", "first", "second", "peak", "ok", "truly"} =>
              tally'[field] = value
BY DEF Note, Tallies

VerdictsPre == SuitesInv /\ CountsOK /\ OnScript /\ Next /\ step' # "ended"

LEMMA DrainedStep ==
  ASSUME VerdictsPre, step # "ended" => DrainedTruly
  PROVE  DrainedTruly'
<1>1. SuitesInv /\ CountsOK /\ OnScript /\ Next /\ step' # "ended" /\ Books /\ tally \in Tallies
  BY DEF VerdictsPre, SuitesInv, BillInv, CountsOK
<1>2. CASE Turn
  <2>1. CASE step' = "begin"
    BY <2>1 DEF DrainedTruly
  <2>2. CASE step' # "begin"
    BY <1>1, <1>2, <2>2, TurnLeaves, BeginGoes, BlankIs DEF DrainedTruly
  <2>3. QED
    BY <2>1, <2>2
<1>3. ASSUME ~Turn, Scenario' = "undivided_budget"
      PROVE  DrainedTruly'
  <2>1. step # "ended"
    <3>1. Rest => step' = "ended"
      BY DEF Rest, vars
    <3>2. QED
      BY <1>1, <1>3, <3>1, OnlyRestAfterEnd
  <2>2. /\ Scenario' = Scenario /\ DrainedTruly
        /\ DrainThePool \/ TakeTheRest \/ AskForBystanders \/ Background
    BY <1>1, <1>3, <2>1, ScriptStep, ScenarioMoves
  <2>3. CASE DrainThePool
    BY <1>3, <2>2, <2>3 DEF DrainThePool, DrainedTruly, Goto, Again
  <2>4. CASE TakeTheRest
    <3>1. step = "rest" /\ step' = "bystanders"
      BY <1>1, <1>3, <2>1, <2>2, <2>4 DEF TakeTheRest, Goto, OnScript, ScenarioOfStep
    <3>2. tally'.refused = tally.refused
      <4>1. UNCHANGED tally \/ Note("allowed", tally.allowed + 1)
        BY <2>4 DEF TakeTheRest
      <4>2. QED
        BY <1>1, <4>1, NoteLeaves
    <3>3. QED
      BY <1>3, <2>2, <3>1, <3>2 DEF DrainedTruly
  <2>5. CASE AskForBystanders
    <3> DEFINE a == Ask(1, <<Prover, Third>>[n], 1, "none", Spender)
    <3>1. PICK failed \in BOOLEAN :
            /\ Enrich(a, failed)
            /\ IF Served(a, failed) THEN UNCHANGED tally ELSE Note("refused", tally.refused + 1)
      BY <2>5 DEF AskForBystanders
    <3>2. a.fix = "none" /\ a.lookups = 1
      BY DEF Ask
    <3> HIDE DEF a
    <3>3. Asks(a, failed) /\ Passes(a)
      <4>1. Asks(a, failed)
        BY <3>1, <3>2 DEF Asks
      <4>2. Passes(a)
        BY <3>2 DEF Passes, Counted
      <4>3. QED
        BY <4>1, <4>2
    <3>4. (calm' => calm /\ ~failed) /\ (~HasMoney(1) => ~HasMoney(1)')
      BY <1>1, <3>3, AskCounts
    <3>5. step = "bystanders" /\ step' \in {"bystanders", "judge"}
      BY <2>5 DEF AskForBystanders, Goto, Again
    <3>6. ASSUME calm', tally'.refused # 0
          PROVE  ~HasMoney(1)
      <4>1. CASE Served(a, failed)
        BY <1>3, <2>2, <3>1, <3>4, <3>5, <3>6, <4>1 DEF DrainedTruly
      <4>2. CASE ~Served(a, failed)
        BY <3>2, <3>3, <3>4, <3>6, <4>2 DEF Served
      <4>3. QED
        BY <4>1, <4>2
    <3>7. QED
      BY <3>4, <3>5, <3>6 DEF DrainedTruly
  <2>6. CASE Background
    BY <1>1, <1>3, <2>2, <2>6, BackgroundLeaves DEF DrainedTruly
  <2>7. QED
    BY <2>2, <2>3, <2>4, <2>5, <2>6
<1>4. QED
  BY <1>2, <1>3 DEF DrainedTruly

LEMMA HeldStep ==
  ASSUME VerdictsPre, step # "ended" => HeldTruly
  PROVE  HeldTruly'
<1>1. /\ SuitesInv /\ CountsOK /\ OnScript /\ Next /\ step' # "ended" /\ Books
      /\ tally \in Tallies /\ BillInv
  BY DEF VerdictsPre, SuitesInv, BillInv, CountsOK
<1>2. CASE Turn
  <2>1. CASE step' = "begin"
    BY <2>1 DEF HeldTruly
  <2>2. CASE step' # "begin"
    <3>1. Scenario' = "in_flight" => step' = "setup"
      BY <1>1, <1>2, <2>2, TurnLeaves, BeginGoes
    <3>2. QED
      BY <1>1, <1>2, <2>2, <3>1, TurnLeaves DEF HeldTruly
  <2>3. QED
    BY <2>1, <2>2
<1>3. ASSUME ~Turn, Scenario' = "in_flight"
      PROVE  HeldTruly'
  <2>1. step # "ended"
    BY <1>1, <1>3, OnlyRestAfterEnd
  <2>2. /\ Scenario' = Scenario /\ Scenario = "in_flight" /\ HeldTruly
        /\ SetUp \/ Hold \/ Poll \/ AskTheCheapOne \/ Release \/ Background
    BY <1>1, <1>3, <2>1, ScriptStep, ScenarioMoves
  <2>3. CASE SetUp
    <3> DEFINE a == Plain(1)
    <3>1. PICK failed \in BOOLEAN : Enrich(a, failed) /\ Note("ok", Served(a, failed))
      BY <2>3 DEF SetUp
    <3>2. step = "setup" /\ step' = "hold"
      BY <2>3 DEF SetUp, Goto
    <3>3. a.fix = "none" /\ a.lookups = 1
      BY DEF Plain, Ask
    <3> HIDE DEF a
    <3>4. Asks(a, failed)
      BY <3>1, <3>3 DEF Asks
    <3>5. Passes(a)
      BY <3>3 DEF Passes, Counted
    <3>6. HasMoney(a.lookups)
      BY <2>2, <3>2, <3>3, DemonstrationAssumption DEF HeldTruly, HasMoney
    <3>7. calm' => Served(a, failed) = TRUE
      <4>1. calm' => ~failed
        BY <1>1, <3>4, AskCounts
      <4>2. QED
        BY <3>5, <3>6, <4>1 DEF Served
    <3>8. tally'["ok"] = Served(a, failed)
      BY <1>1, <3>1, NoteLeaves
    <3>9. QED
      BY <3>2, <3>7, <3>8 DEF HeldTruly
  <2>4. CASE Hold
    BY <2>2, <2>4 DEF Hold, Goto, HeldTruly
  <2>5. CASE Poll
    <3>1. tally'["ok"] = tally["ok"]
      BY <1>1, <2>5, NoteLeaves DEF Poll
    <3>2. step = "poll" /\ step' \in {"poll", "cheap"} /\ calm' = calm
      BY <2>5 DEF Poll, Goto
    <3>3. QED
      BY <2>2, <3>1, <3>2 DEF HeldTruly
  <2>6. CASE AskTheCheapOne
    <3>1. PICK answered \in BOOLEAN :
            /\ ~answered => tasks.calling = PoolSize \/ ~tally.ok
            /\ tally' = [tally EXCEPT !.peak = Highest, !.ok = ~answered,
                                      !.truly = tasks.calling = PoolSize]
      BY <2>6, Zenon DEF AskTheCheapOne
    <3>2. step = "cheap" /\ step' = "release" /\ calm' = calm
      BY <2>6, Zenon DEF AskTheCheapOne, Goto
    <3>3. calm /\ ~answered => tasks.calling = PoolSize
      BY <2>2, <3>1, <3>2 DEF HeldTruly
    <3>4. tally'.ok = ~answered /\ tally'.truly = (tasks.calling = PoolSize)
      BY <1>1, <3>1 DEF Tallies
    <3>5. QED
      BY <3>2, <3>3, <3>4 DEF HeldTruly
  <2>7. CASE Release
    BY <2>2, <2>7 DEF Release, Goto, HeldTruly
  <2>8. CASE Background
    <3>1. step' = "setup" => UNCHANGED period
      <4>1. CASE LateBill
        BY <4>1 DEF LateBill
      <4>2. CASE TimePasses
        BY <4>2 DEF TimePasses, moneyVars
      <4>3. CASE TaskCalls \/ TaskEnds
        <5>1. step' = step /\ tasks # Idle
          BY <4>3 DEF TaskCalls, TaskEnds, Idle
        <5>2. QED
          BY <1>1, <5>1 DEF BillInv, BurstSteps
      <4>4. QED
        BY <2>8, <4>1, <4>2, <4>3 DEF Background
    <3>2. QED
      BY <1>1, <2>2, <2>8, <3>1, BackgroundLeaves DEF HeldTruly
  <2>9. QED
    BY <2>2, <2>3, <2>4, <2>5, <2>6, <2>7, <2>8
<1>4. ASSUME ~Turn, Scenario' # "in_flight"
      PROVE  HeldTruly'
  <2>1. OnScript'
    BY <1>1, ScriptStep
  <2>2. step' # "setup"
    BY <1>1, <1>4, <2>1 DEF OnScript, ScenarioOfStep
  <2>3. QED
    BY <1>4, <2>2 DEF HeldTruly
<1>5. QED
  BY <1>2, <1>3, <1>4

(* Calls are abandoned in the name of the suite that runs. *)
LEMMA LateGrows ==
  ASSUME SuitesInv, CountsOK, Next, ~StartSuite
  PROVE  late' \subseteq late \cup {runs} /\ fresh' = fresh /\ runs' = runs
<1>1. CASE Senders
  BY <1>1, SendersStay DEF scriptVars, callVars
<1>2. CASE SendWithDeadline
  BY <1>2 DEF SendWithDeadline, scriptVars
<1>3. CASE LateBill
  BY <1>3 DEF LateBill, scriptVars
<1>4. CASE ImportTheBundle \/ Hold \/ Poll \/ Look \/ Release
  BY <1>4 DEF ImportTheBundle, Hold, Poll, Look, Release, scriptVars, callVars
<1>5. CASE AskTheCheapOne
  <2>1. UNCHANGED <<scriptVars, callVars>>
    BY <1>5, Zenon DEF AskTheCheapOne
  <2>2. QED
    BY <2>1 DEF scriptVars, callVars
<1>6. CASE Begin \/ Reseed \/ Measure \/ Judge
  BY <1>6 DEF Begin, Reseed, Measure, Judge, scriptVars, callVars
<1>7. CASE TaskCalls \/ TaskEnds \/ TimePasses \/ Rest
  BY <1>7 DEF TaskCalls, TaskEnds, TimePasses, Rest, vars, scriptVars, callVars
<1>8. QED
  BY <1>1, <1>2, <1>3, <1>4, <1>5, <1>6, <1>7
  DEF Next, Shape, HalfFix, Control, Elsewhere, Senders

LEMMA AbandonedStep ==
  ASSUME VerdictsPre, step # "ended" => AbandonedTruly
  PROVE  AbandonedTruly'
<1>1. /\ SuitesInv /\ CountsOK /\ OnScript /\ Next /\ step' # "ended" /\ Books
      /\ tally \in Tallies /\ BillInv
  BY DEF VerdictsPre, SuitesInv, BillInv, CountsOK
<1>2. fresh' => late' \subseteq {runs'}
  <2>1. CASE StartSuite
    BY <2>1 DEF StartSuite, callVars
  <2>2. CASE ~StartSuite
    <3>1. step # "ended"
      BY <1>1, <2>2, OnlyRestAfterEnd DEF Turn, Begin, Judge, Judging
    <3>2. QED
      BY <1>1, <2>2, <3>1, LateGrows DEF AbandonedTruly
  <2>3. QED
    BY <2>1, <2>2
<1>3. ASSUME fresh', Scenario' = "deadline", step' \in {"release", "judge"}, tally'.peak # 0
      PROVE  tally'.truly
  <2>1. CASE Turn
    BY <1>1, <1>3, <2>1, TurnLeaves, BeginGoes
  <2>2. CASE ~Turn
    <3>1. step # "ended"
      BY <1>1, <2>2, OnlyRestAfterEnd
    <3>2. /\ Scenario = "deadline" /\ AbandonedTruly
          /\ Hold \/ SendWithDeadline \/ Look \/ Release \/ Background
      BY <1>1, <1>3, <2>2, <3>1, ScriptStep, ScenarioMoves
    <3>3. fresh
      BY <1>1, <1>3, <2>2, LateGrows DEF Turn
    <3>4. CASE Hold \/ SendWithDeadline
      BY <1>3, <3>2, <3>4 DEF Hold, SendWithDeadline, Goto
    <3>5. CASE Look
      <4>1. step = "look" /\ tally'.peak = InFlight /\ tally'.truly = (runs \in late)
        BY <1>1, <3>5 DEF Look, Tallies
      <4>2. tasks = Idle
        BY <1>1, <4>1 DEF BillInv, BurstSteps
      <4>3. Cardinality(late) # 0
        BY <1>3, <4>1, <4>2, FS_CardinalityType DEF InFlight, Idle, CountsOK
      <4>4. late # {}
        BY <4>3, FS_EmptySet
      <4>5. runs \in late
        BY <3>2, <3>3, <4>4 DEF AbandonedTruly
      <4>6. QED
        BY <4>1, <4>5
    <3>6. CASE Release
      BY <1>3, <3>2, <3>3, <3>6 DEF Release, Goto, AbandonedTruly
    <3>7. CASE Background
      BY <1>1, <1>3, <3>2, <3>3, <3>7, BackgroundLeaves DEF AbandonedTruly
    <3>8. QED
      BY <3>2, <3>4, <3>5, <3>6, <3>7
  <2>3. QED
    BY <2>1, <2>2
<1>4. QED
  BY <1>2, <1>3 DEF AbandonedTruly

-----------------------------------------------------------------------------
(* Half fix 1 *)

LEMMA TenantsDiffer ==
  /\ Prover \in Keys /\ Spender \in Keys /\ Third \in Keys
  /\ Prover # Spender /\ Prover # Third /\ Spender # Third
<1>1. Keys = {Prover, Spender, Third} /\ Cardinality(Keys) = 3
  BY DemonstrationAssumption
<1>2. \A x, y : Cardinality({x, y}) <= 2
  <2>1. ASSUME NEW x, NEW y
        PROVE  Cardinality({x, y}) <= 2
    <3>1. IsFiniteSet({x}) /\ Cardinality({x}) = 1
      BY FS_Singleton
    <3>2. {x, y} = {x} \cup {y}
      OBVIOUS
    <3>3. QED
      BY <3>1, <3>2, FS_AddElement
  <2>2. QED
    BY <2>1
<1>3. ASSUME NEW x, NEW y, Keys = {x, y}
      PROVE  FALSE
  <2>1. Cardinality(Keys) <= 2
    BY <1>2, <1>3, Zenon
  <2>2. QED
    BY <1>1, <2>1
<1>4. QED
  BY <1>1, <1>3

(* Nothing but this scenario reaches the limiter. *)
LEMMA OthersLeaveSeen ==
  ASSUME SuitesInv, CountsOK, OnScript, Next, ~StartSuite, Scenario # "rate_limit",
         step # "ended"
  PROVE  seen' = seen
<1>1. step \notin {"prove", "spend", "leftover"} /\ Books
  BY DEF OnScript, ScenarioOfStep, SuitesInv, BillInv
<1>2. CASE Senders
  <2>1. CASE \E a : \E failed \in BOOLEAN : Asks(a, failed)
    <3>1. PICK a : \E failed \in BOOLEAN : Asks(a, failed)
      BY <2>1
    <3>2. PICK failed \in BOOLEAN : Asks(a, failed)
      BY <3>1
    <3>3. a.fix # "rate_limit"
      BY <1>1, <3>2 DEF Asks
    <3>4. QED
      BY <3>2, <3>3 DEF Asks, Enrich, limiterVars
  <2>2. CASE NothingAsked
    BY <2>2 DEF NothingAsked, limiterVars
  <2>3. QED
    BY <1>1, <1>2, <2>1, <2>2, SendersAsk
<1>3. CASE Background
  BY <1>1, <1>3, BackgroundLeaves
<1>4. CASE AskTheCheapOne
  <2>1. UNCHANGED limiterVars
    BY <1>4, Zenon DEF AskTheCheapOne
  <2>2. QED
    BY <2>1 DEF limiterVars
<1>5. QED
  BY <1>2, <1>3, <1>4
  DEF Next, Shape, HalfFix, Control, Elsewhere, Senders, Background, limiterVars, vars,
      Begin, ImportTheBundle, Hold, Poll, Release, Reseed, SendWithDeadline, Look, Measure,
      Judge, Rest

LEMMA SeenIsFinite ==
  ASSUME LimiterInv, NEW k \in Keys
  PROVE  /\ IsFiniteSet(seen[k]) /\ Cardinality(seen[k]) \in Nat
         /\ IsFiniteSet(Recent(k)) /\ Cardinality(Recent(k)) \in Nat
         /\ Cardinality(Recent(k)) <= Cardinality(seen[k])
         /\ <<Len(granted[k]) + 1, clock>> \notin seen[k]
<1>1. Len(granted[k]) \in Nat /\ seen[k] \subseteq Entries(k, 1, Len(granted[k]))
  BY DEF LimiterInv, LimiterTypeOK, Times, Remembers
<1>2. IsFiniteSet(1..Len(granted[k]))
  BY <1>1, FS_Interval
<1>3. IsFiniteSet(Entries(k, 1, Len(granted[k])))
  <2>1. PICK g : g = granted[k]
    OBVIOUS
  <2>2. IsFiniteSet({<<m, g[m]>> : m \in 1..Len(g)})
    BY <1>2, <2>1, EntriesCounted
  <2>3. QED
    BY <2>1, <2>2 DEF Entries
<1>4. IsFiniteSet(seen[k]) /\ Cardinality(seen[k]) \in Nat
  BY <1>1, <1>3, FS_Subset, FS_CardinalityType
<1>5. Recent(k) \in SUBSET seen[k]
  BY DEF Recent
<1>6. /\ IsFiniteSet(Recent(k)) /\ Cardinality(Recent(k)) \in Nat
      /\ Cardinality(Recent(k)) <= Cardinality(seen[k])
  BY <1>4, <1>5, FS_Subset, FS_CardinalityType
<1>7. <<Len(granted[k]) + 1, clock>> \notin seen[k]
  BY <1>1 DEF Entries
<1>8. QED
  BY <1>4, <1>6, <1>7

(* What the limiter does with one request of key k. *)
LEMMA AskedLimiter ==
  ASSUME LimiterInv, NEW a, NEW failed, Asks(a, failed), a.fix = "rate_limit"
  PROVE  /\ a.tenant \in Keys /\ clock' = clock
         /\ Passes(a) <=> ~Full(a.tenant)
         /\ Passes(a) => seen' = [seen EXCEPT ![a.tenant] = Recent(a.tenant)
                                    \cup {<<Len(granted[a.tenant]) + 1, clock>>}]
         /\ ~Passes(a) => seen' = [seen EXCEPT ![a.tenant] = Recent(a.tenant)]
BY DEF Asks, Enrich, Passes, Allow, Refuse, Counted

(* The prover's requests since it began are still in its window. *)
LEMMA SinceIsRecent ==
  ASSUME LimiterInv, NEW k \in Keys, began \in Nat, began <= clock, clock - began < Window
  PROVE  /\ Since(k) \subseteq Recent(k)
         /\ IsFiniteSet(Since(k)) /\ Cardinality(Since(k)) \in Nat
         /\ Cardinality(Since(k)) <= Cardinality(Recent(k))
<1>1. /\ clock \in Nat /\ Window \in Nat
      /\ \A entry \in seen[k] : entry[2] \in Nat
  BY LimiterAssumption DEF LimiterInv, LimiterTypeOK
<1>2. Since(k) \subseteq Recent(k)
  BY <1>1 DEF Since, Recent, InWindow
<1>3. QED
  BY <1>2, SeenIsFinite, FS_Subset, FS_CardinalityType

(* One more request of the prover: counted in its window, or refused. *)
LEMMA ProvingStep ==
  ASSUME SuitesInv, CountsOK, ProveTheLimiter, Proving
  PROVE  /\ calm' /\ n <= MaxRequests => /\ began' <= clock' /\ clock' - began' < Window
                                         /\ n + 1 <= Cardinality(Since(Prover))' + limited'[Prover] + 1
         /\ calm' /\ ~(n <= MaxRequests) => limited'[Prover] # 0
<1> DEFINE a == Ask(1, Prover, 1, "rate_limit", Prover)
<1>1. PICK failed \in BOOLEAN : Enrich(a, failed)
  BY DEF ProveTheLimiter
<1>2. /\ a.fix = "rate_limit" /\ a.tenant = Prover /\ a.lookups = 1
      /\ step = "prove" /\ Prover \in Keys
  BY TenantsDiffer DEF Ask, ProveTheLimiter
<1> HIDE DEF a
<1>3. Asks(a, failed)
  BY <1>1, <1>2 DEF Asks
<1>4. /\ LimiterInv /\ LimiterInv' /\ Books /\ n \in Nat \ {0} /\ began \in Nat
      /\ limited[Prover] \in Nat /\ clock \in Nat /\ MaxRequests \in Nat /\ Window \in Nat \ {0}
  <2>1. LimiterInv /\ Books /\ n \in Nat \ {0} /\ began \in Nat /\ limited \in [Keys -> Nat]
    BY DEF SuitesInv, BillInv, CountsOK
  <2>2. clock \in Nat
    BY <2>1, LimiterAssumption DEF LimiterInv, LimiterTypeOK
  <2>3. MaxRequests \in Nat /\ Window \in Nat \ {0}
    BY LimiterAssumption, DemonstrationAssumption
  <2>4. LimiterInv'
    BY <1>3, <2>1, AskMovesLimiter, LimiterInvMoves
  <2>5. QED
    BY <1>2, <2>1, <2>2, <2>3, <2>4
<1>5. /\ clock' = clock
      /\ Passes(a) <=> ~Full(Prover)
      /\ Passes(a) => seen'[Prover] = Recent(Prover)
                                        \cup {<<Len(granted[Prover]) + 1, clock>>}
      /\ ~Passes(a) => seen'[Prover] = Recent(Prover)
  <2>1. seen \in [Keys -> SUBSET (Nat \X (0..MaxTime))]
    BY <1>4 DEF LimiterInv, LimiterTypeOK
  <2>2. QED
    BY <1>2, <1>3, <1>4, <2>1, AskedLimiter
<1>6. limited'[Prover] = IF Passes(a) THEN limited[Prover] ELSE limited[Prover] + 1
  BY <1>2, <1>3, <1>4, AskCounts
<1>7. calm' => calm
  BY <1>3, <1>4, AskCounts
<1>8. began' = IF n = 1 THEN clock ELSE began
  BY <1>1, <1>2 DEF Enrich
<1>9. ASSUME calm', n <= MaxRequests
      PROVE  /\ began' <= clock' /\ clock' - began' < Window
             /\ n + 1 <= Cardinality(Since(Prover))' + limited'[Prover] + 1
  <2>1. /\ began' <= clock' /\ clock' - began' < Window /\ began' \in Nat
        /\ n > 1 => began' = began /\ began <= clock /\ clock - began < Window
                    /\ n <= Cardinality(Since(Prover)) + limited[Prover] + 1
    BY <1>4, <1>5, <1>7, <1>8, <1>9 DEF Proving
  <2>2. PICK now : now = Since(Prover)'
    OBVIOUS
  <2>3. now = {entry \in seen'[Prover] : entry[2] >= began'}
    BY <2>2 DEF Since
  <2>4. IsFiniteSet(now) /\ Cardinality(now) \in Nat
    <3>1. IsFiniteSet(Recent(Prover))
      BY <1>2, <1>4, SeenIsFinite
    <3>2. IsFiniteSet(seen'[Prover])
      BY <1>5, <3>1, FS_AddElement
    <3>3. now \subseteq seen'[Prover]
      BY <2>3
    <3>4. QED
      BY <3>2, <3>3, FS_Subset, FS_CardinalityType
  <2>5. CASE n = 1
    <3>1. CASE ~Passes(a)
      BY <1>4, <1>6, <2>1, <2>2, <2>4, <2>5, <3>1
    <3>2. CASE Passes(a)
      <4>1. <<Len(granted[Prover]) + 1, clock>> \in now
        BY <1>4, <1>5, <1>8, <2>3, <2>5, <3>2
      <4>2. Cardinality(now) # 0
        BY <2>4, <4>1, FS_EmptySet
      <4>3. QED
        BY <1>4, <1>6, <2>1, <2>2, <2>4, <2>5, <3>2, <4>2
    <3>3. QED
      BY <2>1, <3>1, <3>2
  <2>6. CASE n > 1
    <3>1. /\ Since(Prover) \subseteq Recent(Prover)
          /\ IsFiniteSet(Since(Prover)) /\ Cardinality(Since(Prover)) \in Nat
      BY <1>2, <1>4, <2>1, <2>6, SinceIsRecent
    <3>2. Recent(Prover) \subseteq seen[Prover]
      BY DEF Recent
    <3>3. CASE ~Passes(a)
      <4>1. now = Since(Prover)
        BY <1>5, <2>1, <2>3, <2>6, <3>1, <3>2, <3>3 DEF Since
      <4>2. QED
        BY <1>4, <1>6, <2>1, <2>2, <2>6, <3>1, <3>3, <4>1
    <3>4. CASE Passes(a)
      <4>1. PICK e : e = <<Len(granted[Prover]) + 1, clock>>
        OBVIOUS
      <4>2. e[2] = clock /\ e \notin seen[Prover]
        BY <1>2, <1>4, <4>1, SeenIsFinite
      <4>3. now = Since(Prover) \cup {e}
        BY <1>5, <2>1, <2>3, <2>6, <3>1, <3>2, <3>4, <4>1, <4>2 DEF Since
      <4>4. e \notin Since(Prover)
        BY <4>2 DEF Since
      <4>5. Cardinality(now) = Cardinality(Since(Prover)) + 1
        BY <3>1, <4>3, <4>4, FS_AddElement
      <4>6. QED
        BY <1>4, <1>6, <2>1, <2>2, <2>6, <3>1, <3>4, <4>5
    <3>5. QED
      BY <2>1, <3>3, <3>4
  <2>7. QED
    BY <1>4, <2>5, <2>6
<1>10. ASSUME calm', ~(n <= MaxRequests)
       PROVE  limited'[Prover] # 0
  <2>1. CASE ~Passes(a)
    BY <1>4, <1>6, <2>1
  <2>2. CASE Passes(a)
    <3>1. Cardinality(Recent(Prover)) < MaxRequests /\ Cardinality(Recent(Prover)) \in Nat
      <4>1. Cardinality(Recent(Prover)) \in Nat
        BY <1>2, <1>4, SeenIsFinite
      <4>2. ~(Cardinality(Recent(Prover)) >= MaxRequests)
        BY <1>5, <2>2 DEF Full
      <4>3. QED
        BY <1>4, <4>1, <4>2
    <3>2. n > 1
      BY <1>4, <1>10, <3>1
    <3>3. /\ began <= clock /\ clock - began < Window
          /\ n <= Cardinality(Since(Prover)) + limited[Prover] + 1
      BY <1>7, <1>10, <3>2 DEF Proving
    <3>4. /\ Cardinality(Since(Prover)) \in Nat
          /\ Cardinality(Since(Prover)) <= Cardinality(Recent(Prover))
      BY <1>2, <1>4, <3>3, SinceIsRecent
    <3>5. QED
      BY <1>4, <1>6, <1>10, <2>2, <3>1, <3>3, <3>4
  <2>3. QED
    BY <2>1, <2>2
<1>11. QED
  BY <1>9, <1>10

(* A key that asks the limiter has at most one entry more. *)
LEMMA AskedSeen ==
  ASSUME LimiterInv, NEW a, NEW failed, Asks(a, failed), a.fix = "rate_limit",
         NEW k \in Keys, a.tenant = k
  PROVE  /\ Cardinality(seen'[k]) \in Nat /\ Cardinality(seen[k]) \in Nat
         /\ Cardinality(seen'[k]) <= Cardinality(seen[k]) + 1
         /\ Cardinality(seen[k]) < MaxRequests => Passes(a)
<1>1. seen \in [Keys -> SUBSET (Nat \X (0..MaxTime))] /\ MaxRequests \in Nat
  BY LimiterAssumption DEF LimiterInv, LimiterTypeOK
<1>2. /\ Passes(a) <=> ~Full(k)
      /\ \/ seen'[k] = Recent(k)
         \/ seen'[k] = Recent(k) \cup {<<Len(granted[k]) + 1, clock>>}
  BY <1>1, AskedLimiter
<1>3. /\ IsFiniteSet(seen[k]) /\ Cardinality(seen[k]) \in Nat
      /\ IsFiniteSet(Recent(k)) /\ Cardinality(Recent(k)) \in Nat
      /\ Cardinality(Recent(k)) <= Cardinality(seen[k])
  BY <1>1, SeenIsFinite
<1>4. /\ Cardinality(seen'[k]) \in Nat
      /\ Cardinality(seen'[k]) <= Cardinality(Recent(k)) + 1
  <2>1. CASE seen'[k] = Recent(k)
    BY <1>3, <2>1
  <2>2. CASE seen'[k] = Recent(k) \cup {<<Len(granted[k]) + 1, clock>>}
    <3>1. PICK e : seen'[k] = Recent(k) \cup {e}
      BY <2>2
    <3>2. Cardinality(Recent(k) \cup {e})
            = IF e \in Recent(k) THEN Cardinality(Recent(k)) ELSE Cardinality(Recent(k)) + 1
      BY <1>3, FS_AddElement
    <3>3. QED
      BY <1>3, <3>1, <3>2
  <2>3. QED
    BY <1>2, <2>1, <2>2
<1>5. Cardinality(seen[k]) < MaxRequests => Passes(a)
  BY <1>1, <1>2, <1>3 DEF Full
<1>6. QED
  BY <1>3, <1>4, <1>5

(* A request of the spender leaves the prover's count, and is refused only by
   what the limiter has of the spender.                                      *)
LEMMA SpenderAsks ==
  ASSUME SuitesInv, CountsOK, NEW a, NEW failed \in BOOLEAN, Asks(a, failed),
         a.fix = "rate_limit", a.tenant = Spender
  PROVE  /\ limited'[Prover] = limited[Prover]
         /\ limited'[Spender] = IF Passes(a) THEN limited[Spender] ELSE limited[Spender] + 1
         /\ Cardinality(seen'[Spender]) \in Nat /\ Cardinality(seen[Spender]) \in Nat
         /\ Cardinality(seen'[Spender]) <= Cardinality(seen[Spender]) + 1
         /\ Cardinality(seen[Spender]) < MaxRequests => Passes(a)
<1>1. LimiterInv /\ Books /\ Prover \in Keys /\ Spender \in Keys /\ Prover # Spender
  BY TenantsDiffer DEF SuitesInv, BillInv
<1>2. /\ limited'[Prover] = limited[Prover]
      /\ limited'[Spender] = IF Passes(a) THEN limited[Spender] ELSE limited[Spender] + 1
  BY <1>1, AskCounts
<1>3. QED
  BY <1>1, <1>2, AskedSeen

(* The spender's two steps, each with its request. *)
LEMMA SpenderSteps ==
  ASSUME SuitesInv, CountsOK, OnScript, Scenario = "rate_limit",
         SpendInside \/ TakeTheRest
  PROVE  \/ \E a : \E failed \in BOOLEAN :
              /\ Asks(a, failed) /\ a.fix = "rate_limit" /\ a.tenant = Spender
              /\ \/ /\ step = "spend" /\ step' \in {"spend", "leftover"}
                    /\ step' = "spend" => /\ n < MaxRequests /\ n' = n + 1
                                          /\ tally'.allowed = tally.allowed + 1
                    /\ \/ tally'.allowed = tally.allowed + 1
                       \/ tally'.allowed = tally.allowed
                 \/ /\ step = "leftover" /\ step' = "judge"
                    /\ tally'.allowed = tally.allowed + 1
              /\ tally'.refused = tally.refused
         \/ step = "leftover" /\ step' = "judge" /\ NothingAsked
<1>1. /\ Books /\ tally \in Tallies /\ Cap \in Nat /\ bill.total \in Nat /\ Batch \in Nat
      /\ Spender \in Keys
  BY DemonstrationAssumption, TenantsDiffer DEF SuitesInv, BillInv, CountsOK, Books
<1>2. CASE SpendInside
  <2> DEFINE a == Ask(1, Spender, Batch, "rate_limit", Spender)
  <2>1. PICK failed \in BOOLEAN :
          /\ Enrich(a, failed)
          /\ IF Served(a, failed) THEN Note("allowed", tally.allowed + 1) ELSE UNCHANGED tally
          /\ IF Served(a, failed) /\ n < MaxRequests THEN Again ELSE Goto("leftover")
    BY <1>2 DEF SpendInside
  <2>2. a.fix = "rate_limit" /\ a.tenant = Spender /\ a.lookups = Batch
    BY DEF Ask
  <2> HIDE DEF a
  <2>3. step = "spend"
    BY <1>2 DEF SpendInside
  <2>4. Asks(a, failed)
    BY <1>1, <2>1, <2>2, <2>3 DEF Asks
  <2>5. /\ Note("allowed", tally.allowed + 1) =>
             tally'.allowed = tally.allowed + 1 /\ tally'.refused = tally.refused
        /\ UNCHANGED tally => tally'.allowed = tally.allowed /\ tally'.refused = tally.refused
    BY <1>1, NoteLeaves
  <2>6. QED
    BY <2>1, <2>2, <2>3, <2>4, <2>5 DEF Again, Goto
<1>3. CASE TakeTheRest
  <2>1. step = "leftover"
    BY <1>3 DEF TakeTheRest, OnScript, ScenarioOfStep
  <2>2. step' = "judge"
    BY <1>3, <2>1 DEF TakeTheRest, Goto
  <2> DEFINE a == [Plain(Cap - bill.total) EXCEPT !.fix =
                     IF step = "leftover" THEN "rate_limit" ELSE "none"]
  <2>3. CASE bill.total < Cap /\ (step = "leftover" => tally.allowed < MaxRequests)
    <3>1. /\ \E failed \in BOOLEAN : Enrich(a, failed)
          /\ Note("allowed", tally.allowed + 1)
      BY <1>3, <2>3 DEF TakeTheRest
    <3>2. PICK failed \in BOOLEAN : Enrich(a, failed)
      BY <3>1
    <3>3. a.tenant = Spender /\ a.lookups = Cap - bill.total /\ a.fix = "rate_limit"
      BY <2>1 DEF Plain, Ask
    <3>4. Cap - bill.total \in Nat
      BY <1>1, <2>3
    <3> HIDE DEF a
    <3>5. Asks(a, failed)
      BY <1>1, <2>1, <3>2, <3>3, <3>4 DEF Asks
    <3>6. tally'.allowed = tally.allowed + 1 /\ tally'.refused = tally.refused
      BY <1>1, <3>1, NoteLeaves
    <3>7. QED
      BY <2>1, <2>2, <3>3, <3>5, <3>6
  <2>4. CASE ~(bill.total < Cap /\ (step = "leftover" => tally.allowed < MaxRequests))
    BY <1>3, <2>1, <2>2, <2>4 DEF TakeTheRest, NothingAsked
  <2>5. QED
    BY <2>3, <2>4
<1>4. QED
  BY <1>2, <1>3

LEMMA LimitedStep ==
  ASSUME VerdictsPre, step # "ended" => LimitedTruly
  PROVE  LimitedTruly'
<1>1. /\ SuitesInv /\ CountsOK /\ OnScript /\ Next /\ step' # "ended" /\ Books
      /\ tally \in Tallies /\ limited \in [Keys -> Nat] /\ MaxRequests \in Nat /\ n \in Nat \ {0}
      /\ Prover \in Keys /\ Spender \in Keys /\ Prover # Spender
  BY LimiterAssumption, TenantsDiffer DEF VerdictsPre, SuitesInv, BillInv, CountsOK
<1>2. CASE Turn
  <2>1. CASE step' = "begin"
    BY <2>1 DEF LimitedTruly
  <2>2. CASE step' # "begin"
    <3>1. Scenario' = "rate_limit" => step' = "prove"
      BY <1>1, <1>2, <2>2, TurnLeaves, BeginGoes
    <3>2. tally'.refused = 0 /\ n' = 1 /\ limited'[Prover] = 0 /\ period'.cap = Cap
      BY <1>1, <1>2, <2>2, TurnLeaves, BlankIs
    <3>3. Proving'
      BY <1>1, <3>2 DEF Proving
    <3>4. QED
      BY <3>1, <3>2, <3>3 DEF LimitedTruly
  <2>3. QED
    BY <2>1, <2>2
<1>3. ASSUME ~Turn, Scenario' = "rate_limit"
      PROVE  LimitedTruly'
  <2>1. step # "ended"
    BY <1>1, <1>3, OnlyRestAfterEnd
  <2>2. /\ Scenario = "rate_limit" /\ LimitedTruly
        /\ ProveTheLimiter \/ SpendInside \/ TakeTheRest \/ Background
    BY <1>1, <1>3, <2>1, ScriptStep, ScenarioMoves
  <2>3. CASE ProveTheLimiter
    <3> DEFINE a == Ask(1, Prover, 1, "rate_limit", Prover)
    <3>1. PICK failed \in BOOLEAN :
            /\ Enrich(a, failed)
            /\ IF Served(a, failed) THEN UNCHANGED tally ELSE Note("refused", tally.refused + 1)
      BY <2>3 DEF ProveTheLimiter
    <3>2. /\ step = "prove"
          /\ \/ n <= MaxRequests /\ n' = n + 1 /\ step' = "prove"
             \/ ~(n <= MaxRequests) /\ n' = 1 /\ step' = "spend"
      BY <2>3 DEF ProveTheLimiter, Again, Goto
    <3>3. a.fix = "rate_limit" /\ a.tenant = Prover /\ a.lookups = 1
      BY DEF Ask
    <3> HIDE DEF a
    <3>4. Asks(a, failed)
      BY <1>1, <3>1, <3>2, <3>3 DEF Asks
    <3>5. /\ limited'[Prover] = IF Passes(a) THEN limited[Prover] ELSE limited[Prover] + 1
          /\ period'.cap = period.cap
      BY <1>1, <3>3, <3>4, AskCounts
    <3>6. tally'.refused = IF Served(a, failed) THEN tally.refused ELSE tally.refused + 1
      BY <1>1, <3>1, NoteLeaves
    <3>7. limited'[Prover] <= tally'.refused
      <4>1. limited[Prover] \in Nat /\ tally.refused \in Nat /\ limited[Prover] <= tally.refused
        BY <1>1, <2>2, <3>2 DEF LimitedTruly, Tallies
      <4>2. Served(a, failed) => Passes(a)
        BY DEF Served
      <4>3. QED
        BY <3>5, <3>6, <4>1, <4>2
    <3>8. /\ calm' /\ n <= MaxRequests =>
               /\ began' <= clock' /\ clock' - began' < Window
               /\ n + 1 <= Cardinality(Since(Prover))' + limited'[Prover] + 1
          /\ calm' /\ ~(n <= MaxRequests) => limited'[Prover] # 0
      BY <1>1, <2>2, <2>3, <3>2, ProvingStep DEF LimitedTruly
    <3>9. CASE n <= MaxRequests
      <4>1. Proving'
        BY <1>1, <3>2, <3>8, <3>9 DEF Proving
      <4>2. QED
        BY <2>2, <3>2, <3>5, <3>7, <3>9, <4>1 DEF LimitedTruly
    <3>10. CASE ~(n <= MaxRequests)
      BY <2>2, <3>2, <3>5, <3>7, <3>8, <3>10 DEF LimitedTruly
    <3>11. QED
      BY <3>9, <3>10
  <2>4. CASE SpendInside \/ TakeTheRest
    <3>1. /\ step \in {"spend", "leftover"} /\ step' \in {"spend", "leftover", "judge"}
          /\ limited'[Prover] = limited[Prover] /\ period'.cap = period.cap
          /\ tally'.refused = tally.refused /\ (calm' => calm)
      <4>1. CASE step = "leftover" /\ step' = "judge" /\ NothingAsked
        BY <4>1 DEF NothingAsked, moneyVars
      <4>2. CASE ~(step = "leftover" /\ step' = "judge" /\ NothingAsked)
        <5>1. PICK a : \E failed \in BOOLEAN :
              /\ Asks(a, failed) /\ a.fix = "rate_limit" /\ a.tenant = Spender
              /\ step \in {"spend", "leftover"} /\ step' \in {"spend", "leftover", "judge"}
              /\ tally'.refused = tally.refused
          BY <1>1, <2>2, <2>4, <4>2, SpenderSteps
        <5>2. PICK failed \in BOOLEAN :
              /\ Asks(a, failed) /\ a.fix = "rate_limit" /\ a.tenant = Spender
              /\ step \in {"spend", "leftover"} /\ step' \in {"spend", "leftover", "judge"}
              /\ tally'.refused = tally.refused
          BY <5>1
        <5>3. QED
          BY <1>1, <5>2, SpenderAsks, AskCounts
      <4>3. QED
        BY <4>1, <4>2
    <3>2. QED
      BY <2>2, <3>1 DEF LimitedTruly
  <2>5. CASE Background
    <3>1. /\ UNCHANGED <<step, n, tally, limited, began, seen>>
          /\ calm' => calm
          /\ period'.cap = period.cap
      BY <1>1, <2>5, BackgroundLeaves
    <3>2. Since(Prover)' = Since(Prover)
      BY <3>1 DEF Since
    <3>3. step = "prove" /\ calm' /\ n > 1 => began <= clock' /\ clock' - began < Window
      <4>1. CASE TimePasses
        <5>1. clock \in Nat /\ began \in Nat /\ Window \in Nat
          BY <1>1, LimiterAssumption DEF SuitesInv, LimiterInv, LimiterTypeOK, CountsOK
        <5>2. clock' = clock + 1 /\ (calm' => ~(step = "prove" /\ n > 1 /\ clock' - began >= Window))
          BY <4>1 DEF TimePasses, Tick
        <5>3. step = "prove" /\ calm' /\ n > 1 => began <= clock
          BY <2>2, <3>1 DEF LimitedTruly, Proving
        <5>4. QED
          BY <5>1, <5>2, <5>3
      <4>2. CASE ~TimePasses
        <5>1. clock' = clock
          BY <2>5, <4>2 DEF Background, LateBill, TaskCalls, TaskEnds, limiterVars
        <5>2. QED
          BY <2>2, <3>1, <5>1 DEF LimitedTruly, Proving
      <4>3. QED
        BY <4>1, <4>2
    <3>4. step' = "prove" => Proving'
      <4>1. step = "prove" => Proving
        BY <2>2 DEF LimitedTruly
      <4>2. QED
        BY <3>1, <3>2, <3>3, <4>1 DEF Proving
    <3>5. QED
      BY <2>2, <3>1, <3>4 DEF LimitedTruly
  <2>6. QED
    BY <2>2, <2>3, <2>4, <2>5
<1>4. QED
  BY <1>2, <1>3 DEF LimitedTruly

(* The script moves only where a suite turns to its next scenario. *)
LEMMA ScriptRests ==
  ASSUME SuitesInv, CountsOK, Next, ~Turn
  PROVE  UNCHANGED scriptVars
<1>1. CASE Senders
  BY <1>1, SendersStay
<1>2. CASE AskTheCheapOne
  BY <1>2, Zenon DEF AskTheCheapOne
<1>3. QED
  BY <1>1, <1>2
  DEF Next, Shape, HalfFix, Control, Elsewhere, Senders, Turn, ImportTheBundle, Hold, Poll,
      Release, Reseed, SendWithDeadline, Look, Measure, LateBill, TaskCalls, TaskEnds, TimePasses,
      Rest, vars, scriptVars

(* The limiter's scenario comes once in a suite: what has not seen it before it
   is over, had not seen it a step earlier.                                  *)
LEMMA StillUnseen ==
  ASSUME VerdictsPre, ~StartSuite, SpenderUnseen'
  PROVE  SpenderUnseen
<1>1. SuitesInv /\ CountsOK /\ OnScript /\ Next /\ step' # "ended"
  BY DEF VerdictsPre
<1>2. CASE Begin
  BY <1>2 DEF Begin, SpenderUnseen, Scenario, scriptVars
<1>3. CASE Judge
  <2>1. suite' = suite /\ pos' = pos + 1 /\ pos < Len(Script[suite]) /\ step = "judge"
    BY <1>1, <1>3 DEF Judge, Judging, Goto
  <2>2. suite \in DOMAIN Script /\ pos \in 1..Len(Script[suite])
    BY <1>1, <2>1 DEF OnScript
  <2>3. Len(Script[suite]) \in Nat /\ pos \in Nat /\ pos \in 1..pos'
    BY <2>1, <2>2, ScriptFacts
  <2>4. CASE \A p \in 1..pos' : Script[suite'][p] # "rate_limit"
    BY <2>1, <2>3, <2>4 DEF SpenderUnseen
  <2>5. CASE Scenario' = "rate_limit"
    <3>1. Script[suite][pos + 1] = "rate_limit" /\ pos + 1 \in 1..Len(Script[suite])
      BY <2>1, <2>2, <2>3, <2>5 DEF Scenario
    <3>2. \A p \in 1..pos : p \in 1..Len(Script[suite]) /\ p # pos + 1
      BY <2>2, <2>3
    <3>3. \A p \in 1..pos : Script[suite][p] # "rate_limit"
      BY <2>2, <3>1, <3>2, ScriptFacts
    <3>4. QED
      BY <3>3 DEF SpenderUnseen
  <2>6. QED
    BY <2>4, <2>5 DEF SpenderUnseen
<1>4. CASE ~Turn
  <2>1. UNCHANGED <<suite, pos>> /\ Scenario' = Scenario
    BY <1>1, <1>4, ScriptRests, ScriptStep DEF scriptVars
  <2>2. step # "ended"
    BY <1>1, <1>4, OnlyRestAfterEnd
  <2>3. Scenario = "rate_limit" /\ step' \in {"begin", "prove"} => step \in {"begin", "prove"}
    <3>1. CASE Background
      BY <1>1, <3>1, BackgroundLeaves DEF SuitesInv, BillInv
    <3>2. CASE Scenario = "rate_limit" /\ ~Background
      <4>1. ProveTheLimiter \/ SpendInside \/ TakeTheRest
        BY <1>1, <1>4, <2>2, <3>2, ScenarioMoves
      <4>2. QED
        BY <4>1 DEF ProveTheLimiter, SpendInside, TakeTheRest, Goto, Again
    <3>3. QED
      BY <3>1, <3>2
  <2>4. QED
    BY <2>1, <2>3 DEF SpenderUnseen
<1>5. QED
  BY <1>2, <1>3, <1>4 DEF Turn

LEMMA SpentStep ==
  ASSUME VerdictsPre, step # "ended" => SpentTruly
  PROVE  SpentTruly'
<1>1. /\ SuitesInv /\ CountsOK /\ OnScript /\ Next /\ step' # "ended" /\ Books /\ LimiterInv
      /\ tally \in Tallies /\ limited \in [Keys -> Nat] /\ MaxRequests \in Nat /\ n \in Nat \ {0}
      /\ Prover \in Keys /\ Spender \in Keys /\ Prover # Spender
  BY LimiterAssumption, TenantsDiffer DEF VerdictsPre, SuitesInv, BillInv, CountsOK
<1>2. CASE StartSuite
  <2>1. step' = "begin" /\ (fresh' => seen' = [t \in Keys |-> {}])
    BY <1>2 DEF StartSuite, Goto
  <2>2. QED
    BY <1>1, <2>1 DEF SpentTruly
<1>3. CASE ~StartSuite /\ Turn
  <2>1. step = "judge" \/ step = "begin"
    BY <1>3 DEF Turn, Judge, Judging, Begin
  <2>2. fresh' = fresh /\ seen' = seen
    BY <1>3 DEF Turn, Judge, Begin, scriptVars, limiterVars
  <2>3. fresh' /\ SpenderUnseen' => seen'[Spender] = {}
    BY <1>3, <2>1, <2>2, StillUnseen DEF SpentTruly
  <2>4. CASE step' = "begin"
    BY <2>3, <2>4 DEF SpentTruly
  <2>5. CASE step' # "begin"
    <3>1. /\ tally' = Blank /\ limited' = [t \in Keys |-> 0] /\ Begin
      BY <1>1, <1>3, <2>5, TurnLeaves
    <3>2. Scenario' = "rate_limit" => step' = "prove"
      BY <1>1, <3>1, BeginGoes
    <3>3. tally'.allowed = 0 /\ limited'[Spender] = 0
      BY <1>1, <3>1, BlankIs
    <3>4. QED
      BY <2>3, <3>2, <3>3 DEF SpentTruly
  <2>6. QED
    BY <2>4, <2>5
<1>4. ASSUME ~Turn, fresh'
      PROVE  SpentTruly'
  <2>1. step # "ended"
    BY <1>1, <1>4, OnlyRestAfterEnd
  <2>2. Scenario' = Scenario /\ fresh /\ SpentTruly
    BY <1>1, <1>4, <2>1, ScriptStep, LateGrows DEF Turn
  <2>3. SpenderUnseen' => seen[Spender] = {}
    BY <1>4, <2>2, StillUnseen DEF SpentTruly, Turn
  <2>4. CASE Scenario # "rate_limit"
    <3>1. seen' = seen
      BY <1>1, <1>4, <2>1, <2>4, OthersLeaveSeen DEF Turn
    <3>2. QED
      BY <2>2, <2>3, <2>4, <3>1 DEF SpentTruly
  <2>5. CASE Scenario = "rate_limit"
    <3>1. ProveTheLimiter \/ SpendInside \/ TakeTheRest \/ Background
      BY <1>1, <1>4, <2>1, <2>5, ScenarioMoves
    <3>2. CASE ProveTheLimiter
      <4> DEFINE a == Ask(1, Prover, 1, "rate_limit", Prover)
      <4>1. PICK failed \in BOOLEAN :
              /\ Enrich(a, failed)
              /\ IF Served(a, failed) THEN UNCHANGED tally
                 ELSE Note("refused", tally.refused + 1)
        BY <3>2 DEF ProveTheLimiter
      <4>2. /\ step = "prove"
            /\ step' = "prove" \/ (n' = 1 /\ step' = "spend")
        BY <3>2 DEF ProveTheLimiter, Again, Goto
      <4>3. a.fix = "rate_limit" /\ a.tenant = Prover /\ a.lookups = 1
        BY DEF Ask
      <4> HIDE DEF a
      <4>4. Asks(a, failed)
        BY <1>1, <4>1, <4>2, <4>3 DEF Asks
      <4>5. limited'[Spender] = limited[Spender]
        BY <1>1, <4>3, <4>4, AskCounts
      <4>6. seen'[Spender] = seen[Spender]
        <5>1. seen \in [Keys -> SUBSET (Nat \X (0..MaxTime))]
          BY <1>1 DEF LimiterInv, LimiterTypeOK
        <5>2. QED
          BY <1>1, <4>3, <4>4, <5>1, AskedLimiter
      <4>7. tally'.allowed = tally.allowed
        BY <1>1, <4>1, NoteLeaves
      <4>8. seen[Spender] = {} /\ tally.allowed = 0 /\ limited[Spender] = 0
        BY <2>2, <2>5, <4>2 DEF SpentTruly, SpenderUnseen
      <4>9. Cardinality(seen'[Spender]) = 0
        BY <4>6, <4>8, FS_EmptySet
      <4>10. QED
        BY <2>2, <2>5, <4>2, <4>5, <4>6, <4>7, <4>8, <4>9 DEF SpentTruly
    <3>3. CASE SpendInside \/ TakeTheRest
      <4>1. step' \in {"spend", "leftover", "judge"}
        BY <2>5, <3>3, <1>1, SpenderSteps
      <4>2. ~SpenderUnseen'
        <5>1. pos' \in 1..pos' /\ Script[suite'][pos'] = "rate_limit"
          <6>1. OnScript'
            BY <1>1, ScriptStep
          <6>2. suite' \in DOMAIN Script /\ pos' \in 1..Len(Script[suite'])
            BY <1>1, <6>1 DEF OnScript
          <6>3. QED
            BY <2>2, <2>5, <6>2, ScriptFacts DEF Scenario
        <5>2. QED
          BY <4>1, <5>1 DEF SpenderUnseen
      <4>3. CASE step = "leftover" /\ step' = "judge" /\ NothingAsked
        BY <2>2, <2>5, <4>2, <4>3 DEF SpentTruly, NothingAsked
      <4>4. CASE ~(step = "leftover" /\ step' = "judge" /\ NothingAsked)
        <5>1. PICK a : \E failed \in BOOLEAN :
              /\ Asks(a, failed) /\ a.fix = "rate_limit" /\ a.tenant = Spender
              /\ \/ /\ step = "spend" /\ step' \in {"spend", "leftover"}
                    /\ step' = "spend" => /\ n < MaxRequests /\ n' = n + 1
                                          /\ tally'.allowed = tally.allowed + 1
                    /\ \/ tally'.allowed = tally.allowed + 1
                       \/ tally'.allowed = tally.allowed
                 \/ /\ step = "leftover" /\ step' = "judge"
                    /\ tally'.allowed = tally.allowed + 1
          BY <1>1, <2>5, <3>3, <4>4, SpenderSteps
        <5>2. PICK failed \in BOOLEAN :
              /\ Asks(a, failed) /\ a.fix = "rate_limit" /\ a.tenant = Spender
              /\ \/ /\ step = "spend" /\ step' \in {"spend", "leftover"}
                    /\ step' = "spend" => /\ n < MaxRequests /\ n' = n + 1
                                          /\ tally'.allowed = tally.allowed + 1
                    /\ \/ tally'.allowed = tally.allowed + 1
                       \/ tally'.allowed = tally.allowed
                 \/ /\ step = "leftover" /\ step' = "judge"
                    /\ tally'.allowed = tally.allowed + 1
          BY <5>1
        <5>3. /\ limited'[Spender] = IF Passes(a) THEN limited[Spender] ELSE limited[Spender] + 1
              /\ Cardinality(seen'[Spender]) \in Nat /\ Cardinality(seen[Spender]) \in Nat
              /\ Cardinality(seen'[Spender]) <= Cardinality(seen[Spender]) + 1
              /\ Cardinality(seen[Spender]) < MaxRequests => Passes(a)
          BY <1>1, <5>2, SpenderAsks
        <5>4. tally.allowed \in Nat /\ limited[Spender] \in Nat
          BY <1>1 DEF Tallies
        <5>5. CASE step = "spend"
          <6>1. /\ limited[Spender] = 0 /\ tally.allowed + 1 = n
                /\ Cardinality(seen[Spender]) < n
            BY <2>2, <2>5, <5>5 DEF SpentTruly
          <6>2. step' = "spend" => /\ limited'[Spender] = 0 /\ tally'.allowed + 1 = n'
                                   /\ Cardinality(seen'[Spender]) < n'
            BY <1>1, <5>2, <5>3, <5>4, <5>5, <6>1
          <6>3. tally'.allowed < MaxRequests =>
                  limited'[Spender] = 0 /\ Cardinality(seen'[Spender]) <= tally'.allowed + 1
            BY <1>1, <5>2, <5>3, <5>4, <5>5, <6>1
          <6>4. QED
            BY <4>2, <5>2, <5>5, <6>2, <6>3 DEF SpentTruly
        <5>6. CASE step = "leftover"
          <6>1. tally.allowed < MaxRequests =>
                  limited[Spender] = 0 /\ Cardinality(seen[Spender]) <= tally.allowed + 1
            BY <2>2, <2>5, <5>6 DEF SpentTruly
          <6>2. tally'.allowed < MaxRequests => limited'[Spender] = 0
            BY <1>1, <5>2, <5>3, <5>4, <5>6, <6>1
          <6>3. QED
            BY <4>2, <5>2, <5>6, <6>2 DEF SpentTruly
        <5>7. QED
          BY <5>2, <5>5, <5>6
      <4>5. QED
        BY <4>3, <4>4
    <3>4. CASE Background
      <4>1. UNCHANGED <<step, n, tally, limited, seen>>
        BY <1>1, <3>4, BackgroundLeaves
      <4>2. QED
        BY <2>2, <2>3, <2>5, <4>1 DEF SpentTruly
    <3>5. QED
      BY <3>1, <3>2, <3>3, <3>4
  <2>6. QED
    BY <2>4, <2>5
<1>5. QED
  BY <1>2, <1>3, <1>4 DEF SpentTruly

-----------------------------------------------------------------------------
(* Half fixes 2 and 3 *)

(* A drain against a repair's counter: what it was served, the counter has. *)
LEMMA DrainCounts ==
  ASSUME SuitesInv, CountsOK, NEW a, NEW field \in {"first", "second"}, NEW then,
         SpendUntilRefused(a, field, then), a.fix \in Counted, a.lookups = Batch
  PROVE  /\ step' \in {step, then}
         /\ \A f \in {"first", "second"} : f # field => tally'[f] = tally[f]
         /\ \A c \in Counters : spent[c] <= spent'[c]
         /\ \/ tally'[field] = tally[field]
            \/ /\ tally'[field] = tally[field] + Batch
               /\ \A c \in Counters : c = <<a.replica, a.fix, a.key>> =>
                    spent'[c] = spent[c] + Batch
<1>1. /\ Books /\ tally \in Tallies /\ Batch \in Nat /\ a.fix # "rate_limit"
      /\ spent \in [Counters -> 0..Allowance] /\ Allowance \in Nat
  BY DemonstrationAssumption DEF SuitesInv, BillInv, CountsOK, Counted
<1>2. PICK failed \in BOOLEAN :
        /\ Enrich(a, failed)
        /\ IF Served(a, failed) THEN Note(field, tally[field] + a.lookups) ELSE UNCHANGED tally
        /\ IF Served(a, failed) /\ n < SpendLimit THEN Again ELSE Goto(then)
  BY DEF SpendUntilRefused
<1>3. Asks(a, failed)
  BY <1>1, <1>2 DEF Asks
<1>4. \A c \in Counters :
        spent'[c] = IF Passes(a) /\ c = <<a.replica, a.fix, a.key>>
                    THEN spent[c] + Batch ELSE spent[c]
  <2>1. \A c \in Counters :
          spent'[c] = IF /\ a.fix \in Counted /\ Passes(a)
                         /\ c = <<a.replica, a.fix, a.key>>
                      THEN spent[c] + a.lookups ELSE spent[c]
    BY <1>1, <1>3, AskCounts
  <2> HIDE DEF Counters
  <2>2. QED
    BY <2>1
<1>5. \A c \in Counters : spent[c] \in Nat /\ spent[c] <= spent'[c]
  <2> HIDE DEF Counters
  <2>1. \A c \in Counters : spent[c] \in Nat
    BY <1>1
  <2>2. QED
    BY <1>1, <1>4, <2>1
<1>6. step' \in {step, then}
  BY <1>2 DEF Again, Goto
<1>7. CASE Served(a, failed)
  <2>1. Note(field, tally[field] + Batch) /\ Passes(a)
    BY <1>2, <1>7 DEF Served
  <2>2. /\ tally'[field] = tally[field] + Batch
        /\ \A f \in {"first", "second"} : f # field => tally'[f] = tally[f]
    BY <1>1, <2>1, NoteLeaves
  <2>3. \A c \in Counters : c = <<a.replica, a.fix, a.key>> => spent'[c] = spent[c] + Batch
    BY <1>4, <2>1
  <2>4. QED
    BY <1>5, <1>6, <2>2, <2>3
<1>8. CASE ~Served(a, failed)
  BY <1>2, <1>5, <1>6, <1>8
<1>9. QED
  BY <1>7, <1>8

(* The counters that the verdicts are about. *)
LEMMA OwnCounters ==
  ASSUME OnScript, step # "ended"
  PROVE  /\ <<1, "caller_keyed", <<"steady", runs>>>> \in Counters
         /\ <<1, "in_process", Prover>> \in Counters
         /\ \A p \in Replicas : <<p, "in_process", Third>> \in Counters
<1>1. runs \in 1..MaxSuites
  <2>1. session \in Sessions /\ runs \in 0..Len(session) /\ runs # 0
    BY DEF OnScript
  <2>2. session \in Seq(DOMAIN Script) /\ Len(session) <= MaxSuites /\ MaxSuites \in Nat
    BY <2>1, SessionAssumption
  <2>3. QED
    BY <2>1, <2>2
<1>2. <<"steady", runs>> \in LocalKeys
  BY <1>1 DEF LocalKeys
<1>3. Prover \in LocalKeys /\ Third \in LocalKeys
  BY TenantsDiffer DEF LocalKeys
<1>4. QED
  BY <1>2, <1>3 DEF Counters, Replicas, Counted

LEMMA CountedStep ==
  ASSUME VerdictsPre, step # "ended" => CountedTruly
  PROVE  CountedTruly'
<1>1. /\ SuitesInv /\ CountsOK /\ OnScript /\ Next /\ step' # "ended" /\ Books
      /\ tally \in Tallies /\ n \in Nat \ {0} /\ Batch \in Nat
      /\ spent \in [Counters -> 0..Allowance] /\ Allowance \in Nat
  BY DemonstrationAssumption DEF VerdictsPre, SuitesInv, BillInv, CountsOK
<1>2. CASE Turn
  <2>1. CASE step' = "begin"
    BY <2>1 DEF CountedTruly
  <2>2. CASE step' # "begin"
    <3>1. /\ tally' = Blank /\ Begin /\ spent' = spent /\ runs' = runs /\ step = "begin"
      BY <1>1, <1>2, <2>2, TurnLeaves DEF Begin, scriptVars
    <3>2. /\ <<1, "caller_keyed", <<"steady", runs>>>> \in Counters
          /\ <<1, "in_process", Prover>> \in Counters
          /\ \A p \in Replicas : <<p, "in_process", Third>> \in Counters
      BY <1>1, <3>1, OwnCounters
    <3>3. PICK c1 \in Counters : c1 = <<1, "caller_keyed", <<"steady", runs>>>>
      BY <3>2
    <3>4. PICK c2 \in Counters : c2 = <<1, "in_process", Prover>>
      BY <3>2
    <3>5. PICK c3 \in Counters : c3 = <<1, "in_process", Third>>
      BY <3>2 DEF Replicas
    <3>6. PICK c4 \in Counters : c4 = <<2, "in_process", Third>>
      BY <3>2 DEF Replicas
    <3>7. spent[c1] \in Nat /\ spent[c2] \in Nat /\ spent[c3] \in Nat /\ spent[c4] \in Nat
      BY <1>1
    <3>8. /\ 0 <= spent[c1] /\ 0 <= spent[c2] /\ 0 <= spent[c3] + spent[c4]
          /\ tally'.first = 0 /\ tally'.second = 0
      BY <3>1, <3>7, BlankIs
    <3>9. QED
      BY <3>1, <3>3, <3>4, <3>5, <3>6, <3>8 DEF CountedTruly
  <2>3. QED
    BY <2>1, <2>2
<1>3. ASSUME ~Turn
      PROVE  CountedTruly'
  <2>1. step # "ended"
    BY <1>1, <1>3, OnlyRestAfterEnd
  <2>2. Scenario' = Scenario /\ CountedTruly /\ runs' = runs
    BY <1>1, <1>3, <2>1, ScriptStep, LateGrows DEF Turn
  <2>3. PICK c1 \in Counters : c1 = <<1, "caller_keyed", <<"steady", runs>>>>
    BY <1>1, <2>1, OwnCounters
  <2>4. PICK c2 \in Counters : c2 = <<1, "in_process", Prover>>
    BY <1>1, <2>1, OwnCounters
  <2>5. PICK c3 \in Counters : c3 = <<1, "in_process", Third>>
    BY <1>1, <2>1, OwnCounters DEF Replicas
  <2>6. PICK c4 \in Counters : c4 = <<2, "in_process", Third>>
    BY <1>1, <2>1, OwnCounters DEF Replicas
  <2>7. /\ spent[c1] \in Nat /\ spent[c2] \in Nat /\ spent[c3] \in Nat /\ spent[c4] \in Nat
        /\ tally.first \in Nat /\ tally.second \in Nat
    BY <1>1 DEF Tallies
  <2>8. CASE Scenario = "caller_keyed" /\ step # "begin"
    <3>1. /\ tally.first <= spent[c1]
          /\ step = "steady" => tally.second = 0
      BY <2>2, <2>3, <2>8 DEF CountedTruly
    <3>2. SpendSteadily \/ Reseed \/ SpendRotating \/ Background
      BY <1>1, <1>3, <2>1, <2>8, ScenarioMoves
    <3>3. /\ step' = "steady" => tally'.second = 0
          /\ tally'.first <= spent'[c1]
      <4>1. CASE SpendSteadily
        <5> DEFINE a == Ask(1, Spender, Batch, "caller_keyed", <<"steady", runs>>)
        <5>1. SpendUntilRefused(a, "first", "reseed") /\ step = "steady"
          BY <4>1 DEF SpendSteadily
        <5>2. a.fix \in Counted /\ a.lookups = Batch /\ c1 = <<a.replica, a.fix, a.key>>
          BY <2>3 DEF Ask, Counted
        <5> HIDE DEF a
        <5>3. /\ tally'["second"] = tally["second"]
              /\ spent[c1] <= spent'[c1]
              /\ \/ tally'["first"] = tally["first"]
                 \/ /\ tally'["first"] = tally["first"] + Batch
                    /\ spent'[c1] = spent[c1] + Batch
          BY <1>1, <5>1, <5>2, DrainCounts
        <5>4. spent'[c1] \in Nat
          BY <1>1, CountsStep DEF CountsOK
        <5>5. QED
          BY <1>1, <2>7, <3>1, <5>1, <5>3, <5>4
      <4>2. CASE Reseed
        BY <3>1, <4>2 DEF Reseed, Goto
      <4>3. CASE SpendRotating
        <5> DEFINE a == Ask(1, Spender, Batch, "caller_keyed", <<"rotated", n>>)
        <5>1. SpendUntilRefused(a, "second", "judge") /\ step = "rotated"
          BY <4>3 DEF SpendRotating
        <5>2. a.fix \in Counted /\ a.lookups = Batch
          BY DEF Ask, Counted
        <5> HIDE DEF a
        <5>3. /\ tally'["first"] = tally["first"]
              /\ spent[c1] <= spent'[c1] /\ step' \in {"rotated", "judge"}
          BY <1>1, <5>1, <5>2, DrainCounts
        <5>4. spent'[c1] \in Nat
          BY <1>1, CountsStep DEF CountsOK
        <5>5. QED
          BY <1>1, <2>7, <3>1, <5>3, <5>4
      <4>4. CASE Background
        BY <1>1, <3>1, <4>4, BackgroundLeaves
      <4>5. QED
        BY <3>2, <4>1, <4>2, <4>3, <4>4
    <3>4. QED
      BY <2>2, <2>3, <2>8, <3>3 DEF CountedTruly
  <2>9. CASE Scenario = "in_process" /\ step # "begin"
    <3>1. /\ tally.first <= spent[c2]
          /\ tally.second <= spent[c3] + spent[c4]
          /\ step = "single" => tally.second = 0
      BY <2>2, <2>4, <2>5, <2>6, <2>9 DEF CountedTruly
    <3>2. SpendAtOne \/ SpendAtBoth \/ Background
      BY <1>1, <1>3, <2>1, <2>9, ScenarioMoves
    <3>3. spent'[c2] \in Nat /\ spent'[c3] \in Nat /\ spent'[c4] \in Nat
      BY <1>1, CountsStep DEF CountsOK
    <3>4. /\ step' = "single" => tally'.second = 0
          /\ tally'.first <= spent'[c2]
          /\ tally'.second <= spent'[c3] + spent'[c4]
      <4>1. CASE SpendAtOne
        <5> DEFINE a == Ask(1, Prover, Batch, "in_process", Prover)
        <5>1. SpendUntilRefused(a, "first", "double") /\ step = "single"
          BY <4>1 DEF SpendAtOne
        <5>2. a.fix \in Counted /\ a.lookups = Batch /\ c2 = <<a.replica, a.fix, a.key>>
          BY <2>4 DEF Ask, Counted
        <5> HIDE DEF a
        <5>3. /\ tally'["second"] = tally["second"]
              /\ spent[c2] <= spent'[c2]
              /\ \/ tally'["first"] = tally["first"]
                 \/ /\ tally'["first"] = tally["first"] + Batch
                    /\ spent'[c2] = spent[c2] + Batch
          BY <1>1, <5>1, <5>2, DrainCounts
        <5>4. QED
          BY <1>1, <2>7, <3>1, <3>3, <5>1, <5>3
      <4>2. CASE SpendAtBoth
        <5> DEFINE a == Ask(1 + ((n - 1) % 2), Third, Batch, "in_process", Third)
        <5>1. SpendUntilRefused(a, "second", "judge") /\ step = "double"
          BY <4>2 DEF SpendAtBoth
        <5>2. a.fix \in Counted /\ a.lookups = Batch
          BY DEF Ask, Counted
        <5>3. c3 = <<a.replica, a.fix, a.key>> \/ c4 = <<a.replica, a.fix, a.key>>
          <6>1. (n - 1) % 2 \in {0, 1}
            BY <1>1
          <6>2. QED
            BY <2>5, <2>6, <6>1 DEF Ask
        <5> HIDE DEF a
        <5>4. /\ tally'["first"] = tally["first"]
              /\ \A c \in Counters : spent[c] <= spent'[c]
              /\ \/ tally'["second"] = tally["second"]
                 \/ /\ tally'["second"] = tally["second"] + Batch
                    /\ \/ spent'[c3] = spent[c3] + Batch
                       \/ spent'[c4] = spent[c4] + Batch
              /\ step' \in {"double", "judge"}
          BY <1>1, <5>1, <5>2, <5>3, DrainCounts
        <5>5. spent[c2] <= spent'[c2] /\ spent[c3] <= spent'[c3] /\ spent[c4] <= spent'[c4]
          BY <5>4
        <5>6. QED
          BY <1>1, <2>7, <3>1, <3>3, <5>4, <5>5
      <4>3. CASE Background
        BY <1>1, <3>1, <4>3, BackgroundLeaves
      <4>4. QED
        BY <3>2, <4>1, <4>2, <4>3
    <3>5. QED
      BY <2>2, <2>4, <2>5, <2>6, <2>9, <3>4 DEF CountedTruly
  <2>10. CASE step = "begin"
    <3>1. step' = "begin" \/ Begin
      BY <2>10, <1>1
      DEF Next, Shape, HalfFix, Control, Elsewhere, NameTheWork, DrainThePool, TakeTheRest,
          AskForBystanders, ImportTheBundle, SetUp, Hold, Poll, AskTheCheapOne, Release,
          ProveTheLimiter, SpendInside, SpendSteadily, Reseed, SpendRotating, SendWithDeadline,
          Look, SpendAtOne, SpendAtBoth, AskOrdinarily, FillTheCap, Measure, LateBill, TaskCalls,
          TaskEnds, TimePasses, Judge, Judging, StartSuite, Rest
    <3>2. QED
      BY <1>3, <3>1 DEF CountedTruly, Turn
  <2>11. QED
    BY <2>2, <2>8, <2>9, <2>10 DEF CountedTruly
<1>4. QED
  BY <1>2, <1>3

-----------------------------------------------------------------------------
(* The verdicts *)

LEMMA VerdictsInvStep ==
  ASSUME VerdictsInv, [Next]_vars
  PROVE  VerdictsInv'
<1>1. SuitesInv'
  BY SuitesInvStep DEF VerdictsInv
<1>2. CASE Next
  <2>1. CountsOK' /\ OnScript'
    BY <1>2, CountsStep, ScriptStep DEF VerdictsInv
  <2>2. ASSUME step' # "ended"
        PROVE  Truths'
    <3>1. VerdictsPre /\ (step # "ended" => Truths)
      BY <1>2, <2>2 DEF VerdictsPre, VerdictsInv
    <3>2. DrainedTruly' /\ HeldTruly' /\ AbandonedTruly'
      BY <3>1, DrainedStep, HeldStep, AbandonedStep DEF Truths
    <3>3. LimitedTruly' /\ SpentTruly' /\ CountedTruly'
      BY <3>1, LimitedStep, SpentStep, CountedStep DEF Truths
    <3>4. QED
      BY <3>2, <3>3 DEF Truths
  <2>3. QED
    BY <1>1, <2>1, <2>2 DEF VerdictsInv
<1>3. CASE UNCHANGED vars
  <2>1. /\ UNCHANGED <<session, suite, mode, pos, runs, missed, fresh, restarts>>
        /\ UNCHANGED <<step, n, tally, period, late, spent, limited, began, calm, errors>>
        /\ UNCHANGED <<clock, seen>>
    BY <1>3 DEF vars, limiterVars, scriptVars, moneyVars, callVars
  <2>2. CountsOK' /\ OnScript' /\ Scenario' = Scenario
    BY <2>1 DEF VerdictsInv, CountsOK, OnScript, ScenarioOfStep, Scenario
  <2>3. step # "ended" => DrainedTruly' /\ HeldTruly' /\ AbandonedTruly'
    BY <2>1, <2>2
    DEF VerdictsInv, Truths, DrainedTruly, HeldTruly, AbandonedTruly, HasMoney
  <2>4. step # "ended" => LimitedTruly'
    BY <2>1, <2>2 DEF VerdictsInv, Truths, LimitedTruly, Proving, Since
  <2>5. step # "ended" => SpentTruly' /\ CountedTruly'
    BY <2>1, <2>2 DEF VerdictsInv, Truths, SpentTruly, SpenderUnseen, CountedTruly
  <2>6. QED
    BY <1>1, <2>1, <2>2, <2>3, <2>4, <2>5 DEF VerdictsInv, Truths
<1>4. QED
  BY <1>2, <1>3

LEMMA VerdictsInvInit ==
  ASSUME Init
  PROVE  VerdictsInv
<1>1. SuitesInv /\ step = "ended" /\ tally = Blank /\ runs = 0 /\ session \in Sessions
  BY SuitesInvInit DEF Init
<1>2. OnScript
  <2>1. session \in Seq(DOMAIN Script)
    BY <1>1, SessionAssumption
  <2>2. 0 \in 0..Len(session)
    BY <2>1
  <2>3. QED
    BY <1>1, <2>2 DEF OnScript
<1>3. Blank \in Tallies
  BY DEF Blank, Tallies
<1>4. IsFiniteSet(late)
  BY FS_EmptySet DEF Init
<1>5. spent \in [Counters -> 0..Allowance]
  BY DemonstrationAssumption DEF Init, Counters
<1>6. CountsOK
  BY <1>1, <1>3, <1>4, <1>5 DEF Init, CountsOK
<1>7. QED
  BY <1>1, <1>2, <1>6 DEF VerdictsInv

LEMMA VerdictsFromInv ==
  ASSUME VerdictsInv
  PROVE  VerdictsAreTrue
<1> SUFFICES ASSUME Judging, Reproduced
             PROVE  VerdictsAreTrue
  BY DEF VerdictsAreTrue
<1>1. /\ step = "judge" /\ Truths /\ Books /\ tally \in Tallies /\ OnScript
      /\ limited \in [Keys -> Nat] /\ spent \in [Counters -> 0..Allowance] /\ Allowance \in Nat
  BY DemonstrationAssumption DEF Judging, VerdictsInv, SuitesInv, BillInv, CountsOK
<1>2. Scenario = "undivided_budget" /\ calm => ~HasMoney(1)
  <2>1. Scenario = "undivided_budget" => tally.refused = 2
    BY DEF Reproduced
  <2>2. QED
    BY <1>1, <2>1 DEF Truths, DrainedTruly
<1>3. Scenario = "in_flight" /\ calm => tally.truly
  <2>1. Scenario = "in_flight" => tally.ok
    BY DEF Reproduced
  <2>2. QED
    BY <1>1, <2>1 DEF Truths, HeldTruly
<1>4. Scenario = "deadline" /\ fresh => tally.truly
  <2>1. Scenario = "deadline" => tally.peak >= 1
    BY DEF Reproduced
  <2>2. Scenario = "deadline" => tally.peak # 0
    BY <2>1
  <2>3. QED
    BY <1>1, <2>2 DEF Truths, AbandonedTruly
<1>5. ASSUME Scenario = "rate_limit"
      PROVE  /\ bill.carried = 0 => ~HasMoney(1)
             /\ calm => limited[Prover] = 1
             /\ fresh => limited[Spender] = 0
  <2>1. tally.refused = 1 /\ tally.allowed < MaxRequests /\ bill.total >= Cap
    BY <1>5 DEF Reproduced
  <2>2. /\ period.cap = Cap /\ limited[Prover] <= 1 /\ limited[Prover] \in Nat
        /\ calm => limited[Prover] # 0
    BY <1>1, <1>5, <2>1, TenantsDiffer DEF Truths, LimitedTruly
  <2>3. fresh => limited[Spender] = 0
    BY <1>1, <1>5, <2>1 DEF Truths, SpentTruly
  <2>4. bill.carried = 0 => ~HasMoney(1)
    BY <1>1, <2>1, <2>2, DemonstrationAssumption DEF Books, HasMoney
  <2>5. QED
    BY <2>2, <2>3, <2>4
<1>6. Scenario = "caller_keyed" => spent[1, "caller_keyed", <<"steady", runs>>] = Allowance
  <2>1. Scenario = "caller_keyed" => tally.first = Allowance
    BY DEF Reproduced
  <2>2. PICK c \in Counters : c = <<1, "caller_keyed", <<"steady", runs>>>>
    BY <1>1, OwnCounters
  <2>3. Scenario = "caller_keyed" => tally.first <= spent[c]
    BY <1>1, <2>2 DEF Truths, CountedTruly
  <2>4. spent[c] \in 0..Allowance
    BY <1>1
  <2>5. Scenario = "caller_keyed" => spent[c] = Allowance
    BY <1>1, <2>1, <2>3, <2>4
  <2>6. QED
    BY <2>2, <2>5
<1>7. ASSUME Scenario = "in_process"
      PROVE  /\ spent[1, "in_process", Prover] = Allowance
             /\ \A p \in Replicas : spent[p, "in_process", Third] = Allowance
  <2>1. tally.first = Allowance /\ tally.second = 2 * Allowance
    BY <1>7 DEF Reproduced
  <2>2. PICK c2 \in Counters : c2 = <<1, "in_process", Prover>>
    BY <1>1, OwnCounters
  <2>3. PICK c3 \in Counters : c3 = <<1, "in_process", Third>>
    BY <1>1, OwnCounters DEF Replicas
  <2>4. PICK c4 \in Counters : c4 = <<2, "in_process", Third>>
    BY <1>1, OwnCounters DEF Replicas
  <2>5. tally.first <= spent[c2] /\ tally.second <= spent[c3] + spent[c4]
    BY <1>1, <1>7, <2>2, <2>3, <2>4 DEF Truths, CountedTruly
  <2>6. spent[c2] \in 0..Allowance /\ spent[c3] \in 0..Allowance /\ spent[c4] \in 0..Allowance
    BY <1>1
  <2>7. spent[c2] = Allowance /\ spent[c3] = Allowance /\ spent[c4] = Allowance
    BY <1>1, <2>1, <2>5, <2>6
  <2>8. QED
    BY <2>2, <2>3, <2>4, <2>7 DEF Replicas
<1>8. QED
  BY <1>2, <1>3, <1>4, <1>5, <1>6, <1>7 DEF VerdictsAreTrue

LEMMA VerdictsInvariant == Spec => []VerdictsInv
<1>1. Init => VerdictsInv
  BY VerdictsInvInit
<1>2. VerdictsInv /\ [Next]_vars => VerdictsInv'
  BY VerdictsInvStep
<1>3. QED
  BY <1>1, <1>2, PTL DEF Spec

(* A scenario that the suites report as reproduced did what its name says:
   whatever the cap, the allowance, the window, the session, and whenever an
   abandoned call is billed, time passes, a request fails or a replica is
   restarted.                                                                *)
THEOREM VerdictsHold == Spec => []VerdictsAreTrue
<1>1. VerdictsInv => VerdictsAreTrue
  BY VerdictsFromInv
<1>2. QED
  BY <1>1, VerdictsInvariant, PTL

-----------------------------------------------------------------------------
(* What a deterministic suite promises on fresh processes *)

(* The suite this promise is about, as far as it has come. *)
Promising == mode = "deterministic" /\ fresh /\ calm

(* The order in which every suite runs what it runs of the twelve scenarios. *)
Rank ==
  [names_the_work |-> 1, undivided_budget |-> 2, expansion |-> 3, in_flight |-> 4,
   rate_limit |-> 5, caller_keyed |-> 6, compressed_size |-> 7, deadline |-> 8,
   in_process |-> 9, authorized |-> 10, one_of_each |-> 11, more_capacity |-> 12]

(* The suite has come to the scenario of rank r, or is beyond it. *)
Reached(r) == Rank[Scenario] > r \/ (Rank[Scenario] = r /\ step # "begin")

(* The names of a list are ranked one after the other, from one above base. *)
Ranked(A, base) == \A p \in 1..Len(A) : A[p] \in Names /\ Rank[A[p]] = base + p

(* One list after the other, each ranked, is ranked. *)
LEMMA JoinedRanked ==
  ASSUME NEW A \in Seq(Names), NEW B \in Seq(Names), NEW base \in Nat,
         Ranked(A, base), Ranked(B, base + Len(A))
  PROVE  Ranked(A \o B, base)
<1>1. PICK E : E = A \o B
  OBVIOUS
<1>2. /\ Len(A) \in Nat /\ Len(B) \in Nat /\ Len(E) = Len(A) + Len(B)
      /\ \A p \in 1..(Len(A) + Len(B)) : E[p] = IF p <= Len(A) THEN A[p] ELSE B[p - Len(A)]
  BY <1>1, Joined
<1>3. ASSUME NEW p \in 1..(Len(A) + Len(B))
      PROVE  E[p] \in Names /\ Rank[E[p]] = base + p
  <2>1. CASE p <= Len(A)
    <3>1. p \in 1..Len(A) /\ E[p] = A[p]
      BY <1>2, <2>1
    <3>2. QED
      BY <3>1 DEF Ranked
  <2>2. CASE ~(p <= Len(A))
    <3>1. p - Len(A) \in 1..Len(B) /\ E[p] = B[p - Len(A)]
      BY <1>2, <2>2
    <3>2. Rank[B[p - Len(A)]] = base + Len(A) + (p - Len(A)) /\ B[p - Len(A)] \in Names
      BY <3>1 DEF Ranked
    <3>3. base + Len(A) + (p - Len(A)) = base + p
      BY <1>2
    <3>4. QED
      BY <3>1, <3>2, <3>3
  <2>3. QED
    BY <2>1, <2>2
<1>4. QED
  BY <1>1, <1>2, <1>3 DEF Ranked

(* A suite goes through its scenarios in that order and leaves none out. *)
LEMMA ScriptRanked ==
  ASSUME NEW s \in DOMAIN Script
  PROVE  \E base \in Nat : Ranked(Script[s], base)
<1>1. Names = {"names_the_work", "undivided_budget", "expansion", "in_flight", "rate_limit",
               "caller_keyed", "compressed_size", "deadline", "in_process", "authorized",
               "one_of_each", "more_capacity"}
  BY DEF Names, FirstStep
<1>2. Shapes \in Seq(Names) /\ Len(Shapes) = 4 /\ Ranked(Shapes, 0)
  <2>1. 1..4 = {1, 2, 3, 4}
    OBVIOUS
  <2>2. Shapes \in Seq(Names) /\ Len(Shapes) = 4
    BY <1>1 DEF Shapes
  <2>3. \A p \in {1, 2, 3, 4} : Shapes[p] \in Names /\ Rank[Shapes[p]] = 0 + p
    BY <1>1 DEF Shapes, Rank
  <2>4. QED
    BY <2>1, <2>2, <2>3 DEF Ranked
<1>3. HalfFixes \in Seq(Names) /\ Len(HalfFixes) = 5 /\ Ranked(HalfFixes, 4)
  <2>1. 1..5 = {1, 2, 3, 4, 5}
    OBVIOUS
  <2>2. HalfFixes \in Seq(Names) /\ Len(HalfFixes) = 5
    BY <1>1 DEF HalfFixes
  <2>3. \A p \in {1, 2, 3, 4, 5} : HalfFixes[p] \in Names /\ Rank[HalfFixes[p]] = 4 + p
    BY <1>1 DEF HalfFixes, Rank
  <2>4. QED
    BY <2>1, <2>2, <2>3 DEF Ranked
<1>4. Controls \in Seq(Names) /\ Len(Controls) = 3 /\ Ranked(Controls, 9)
  <2>1. 1..3 = {1, 2, 3}
    OBVIOUS
  <2>2. Controls \in Seq(Names) /\ Len(Controls) = 3
    BY <1>1 DEF Controls
  <2>3. \A p \in {1, 2, 3} : Controls[p] \in Names /\ Rank[Controls[p]] = 9 + p
    BY <1>1 DEF Controls, Rank
  <2>4. QED
    BY <2>1, <2>2, <2>3 DEF Ranked
<1>5. PICK A \in Seq(Names) : A = Shapes \o HalfFixes /\ Len(A) = 9
  <2>1. /\ Shapes \o HalfFixes \in Seq(Names)
        /\ Len(Shapes \o HalfFixes) = Len(Shapes) + Len(HalfFixes)
    BY <1>2, <1>3, Joined, Zenon
  <2>2. Len(Shapes \o HalfFixes) = 9
    BY <1>2, <1>3, <2>1
  <2>3. QED
    BY <2>1, <2>2, Zenon
<1>6. Ranked(A, 0)
  <2>1. Ranked(HalfFixes, 0 + Len(Shapes))
    BY <1>2, <1>3
  <2>2. QED
    BY <1>2, <1>3, <1>5, <2>1, JoinedRanked
<1>7. Ranked(A \o Controls, 0)
  <2>1. Ranked(Controls, 0 + Len(A))
    BY <1>4, <1>5
  <2>2. QED
    BY <1>4, <1>5, <1>6, <2>1, JoinedRanked
<1>8. \/ Script[s] = Shapes \/ Script[s] = HalfFixes \/ Script[s] = Controls
      \/ Script[s] = A \o Controls
  BY <1>5 DEF Script
<1>9. QED
  BY <1>2, <1>3, <1>4, <1>7, <1>8

(* No call has been sent with a deadline yet. *)
Early == ~Reached(8) \/ step \in {"hold", "send"}

(* Nothing a fresh process counts for a scenario is there before the scenario,
   and no call has been abandoned before one is sent with a deadline.        *)
Untouched ==
  fresh =>
    /\ ~Reached(5) => seen[Prover] = {}
    /\ ~Reached(6) => \A c \in Counters : c[2] = "caller_keyed" => spent[c] = 0
    /\ ~Reached(9) => \A c \in Counters : c[2] = "in_process" => spent[c] = 0
    /\ Early => late = {}

(* The bill is the pool's money to the cent, but for the one abandoned call. *)
Exact ==
  /\ bill.total + tasks.calling = period.charged + bill.carried
  /\ bill.carried <= Abandoned
  /\ late # {} \/ Early => bill.carried = 0
  /\ Scenario # "more_capacity" => period.cap = Cap

(* Shape 1. *)
NamesIt ==
  /\ step = "name" => period.charged = 0
  /\ step = "judge" => tally.ok /\ 2 * bill.total >= Cap

(* Shape 2: the drain leaves nothing, so nobody else is served. *)
DrainsIt ==
  /\ step \in {"drain", "rest"} => tally.refused = 0
  /\ step = "bystanders" => ~HasMoney(1) /\ n \in {1, 2} /\ tally.refused + 1 = n
  /\ step = "judge" => tally.refused = 2

(* Shape 3 and half fix 4. *)
AdmitsIt == step = "judge" => tally.ok /\ tally.first = Bundle

(* Shape 4: the held burst has every connection when the cheap read comes. *)
HoldsIt ==
  /\ step = "hold" => tally.ok
  /\ step \in {"poll", "cheap"} =>
       tally.ok /\ control = "held" /\ tasks.waiting + tasks.calling <= PoolSize
  /\ step = "cheap" => tasks.calling = PoolSize
  /\ step \in {"release", "judge"} => tally.ok /\ tally.peak >= PoolSize

(* Half fix 1: the limiter refuses the prover's last request and nobody else. *)
LimitsIt ==
  /\ step = "prove" => /\ tally.refused = 0 /\ period.charged + 1 = n
                       /\ Cardinality(seen[Prover]) < n
  /\ step = "spend" => /\ tally.refused = 1 /\ n <= MaxRequests
                       /\ period.charged = MaxRequests + tally.allowed * Batch
  /\ step = "leftover" => tally.refused = 1 /\ tally.allowed + 1 < MaxRequests
  /\ step = "judge" => tally.refused = 1 /\ tally.allowed < MaxRequests /\ bill.total >= Cap

(* Half fix 3: the steady key is held to its allowance, a new one never is. *)
KeysIt ==
  /\ step = "steady" =>
       /\ n <= SpendLimit
       /\ tally.first = (n - 1) * Batch /\ period.charged = tally.first
       /\ spent[1, "caller_keyed", <<"steady", runs>>] = tally.first
  /\ step \in {"steady", "reseed"} =>
       \A k \in 1..SpendLimit : spent[1, "caller_keyed", <<"rotated", k>>] = 0
  /\ step \in {"reseed", "rotated", "judge"} => tally.first = Allowance
  /\ step = "reseed" => tally.second = 0
  /\ step = "rotated" =>
       /\ n <= SpendLimit
       /\ tally.second = (n - 1) * Batch /\ period.charged = tally.second
       /\ \A k \in n..SpendLimit : spent[1, "caller_keyed", <<"rotated", k>>] = 0
  /\ step = "judge" => tally.second > Allowance

(* Half fix 5: the call stays with the provider that holds it. *)
AbandonsIt ==
  /\ step = "send" => control = "held"
  /\ step = "look" => runs \in late /\ runs \in held /\ tally.ok
  /\ step \in {"release", "judge"} => tally.ok /\ tally.peak >= 1

(* Half fix 2: requests in turn spend the allowance of each of two replicas. *)
SpendsIt ==
  /\ step = "single" =>
       /\ n <= SpendLimit
       /\ tally.first = (n - 1) * Batch /\ period.charged = tally.first
       /\ spent[1, "in_process", Prover] = tally.first
       /\ \A p \in Replicas : spent[p, "in_process", Third] = 0
  /\ step \in {"double", "judge"} => tally.first = Allowance
  /\ step = "double" =>
       /\ n <= SpendLimit
       /\ tally.second = (n - 1) * Batch /\ period.charged = Allowance + tally.second
       /\ \A p \in Replicas : spent[p, "in_process", Third] = ((n + 1 - p) \div 2) * Batch
  /\ step = "judge" => tally.second = 2 * Allowance

(* Two of the controls ask for little and are served all of it. *)
ServesIt ==
  /\ step = "ask" => n <= Ordinary /\ tally.allowed + 1 = n /\ period.charged < n
  /\ step = "judge" => tally.allowed = Ordinary

(* What a drain gets is what it asks for, but for less than one part in Tolerance. *)
NearOne(r) == r[1] <= r[2] /\ (r[2] - r[1]) * Tolerance < r[2]

(* The third drains a cap in batches, one of them more than it can pay for. *)
MeasuresIt ==
  /\ \A i \in 1..Len(tally.ratios) : NearOne(tally.ratios[i])
  /\ step \in {"fill", "measure"} =>
       /\ Len(tally.ratios) < 3 /\ period.cap >= Cap
       /\ period.charged = (n - 1) * BatchNow
  /\ step = "measure" => ~HasMoney(BatchNow)
  /\ step = "judge" => Len(tally.ratios) = 3

(* A scenario at work is on its way to the verdict its script expects. *)
OnCourse ==
  /\ Exact
  /\ Scenario = "names_the_work" => NamesIt
  /\ Scenario = "undivided_budget" => DrainsIt
  /\ Scenario \in {"expansion", "compressed_size"} => AdmitsIt
  /\ Scenario = "in_flight" => HoldsIt
  /\ Scenario = "rate_limit" => LimitsIt
  /\ Scenario = "caller_keyed" => KeysIt
  /\ Scenario = "deadline" => AbandonsIt
  /\ Scenario = "in_process" => SpendsIt
  /\ Scenario \in {"authorized", "one_of_each"} => ServesIt
  /\ Scenario = "more_capacity" => MeasuresIt

FreshInv ==
  /\ step # "ended" => Untouched
  /\ Promising => missed = {}
  /\ Promising /\ step \notin {"begin", "ended"} => OnCourse

(* How a suite moves through its scenarios, between two of its starts. *)
LEMMA RankMoves ==
  ASSUME VerdictsInv, Next, ~StartSuite, step' # "ended"
  PROVE  /\ step # "ended" /\ UNCHANGED <<suite, mode, runs, fresh>>
         /\ Scenario \in Names /\ Rank[Scenario] \in Nat
         /\ \/ Begin /\ Scenario' = Scenario
            \/ Judge /\ Rank[Scenario'] = Rank[Scenario] + 1 /\ step' = "begin"
            \/ ~Turn /\ Scenario' = Scenario /\ missed' = missed
               /\ (step = "begin" <=> step' = "begin")
<1>1. SuitesInv /\ CountsOK /\ OnScript
  BY DEF VerdictsInv
<1>2. step # "ended"
  BY <1>1, OnlyRestAfterEnd DEF Turn, Begin, Judge, Judging
<1>3. suite \in DOMAIN Script /\ pos \in 1..Len(Script[suite])
  BY <1>1, <1>2 DEF OnScript
<1>4. PICK base \in Nat : Ranked(Script[suite], base)
  BY <1>3, ScriptRanked
<1>5. Scenario \in Names /\ Rank[Scenario] = base + pos /\ Rank[Scenario] \in Nat
  BY <1>3, <1>4, ScriptFacts DEF Scenario, Ranked
<1>6. CASE Begin
  BY <1>1, <1>2, <1>5, <1>6, BeginGoes DEF Begin, scriptVars
<1>7. CASE Judge
  <2>1. /\ UNCHANGED <<suite, mode, runs, fresh>> /\ step' = "begin"
        /\ pos' = pos + 1 /\ pos < Len(Script[suite])
    BY <1>7 DEF Judge, Goto
  <2>2. pos + 1 \in 1..Len(Script[suite])
    BY <1>3, <2>1, ScriptFacts
  <2>3. Rank[Scenario'] = base + (pos + 1)
    BY <1>4, <2>1, <2>2 DEF Scenario, Ranked
  <2>4. Rank[Scenario'] = Rank[Scenario] + 1
    BY <1>3, <1>5, <2>3
  <2>5. QED
    BY <1>2, <1>5, <1>7, <2>1, <2>4
<1>8. CASE ~Turn
  <2>1. UNCHANGED <<suite, mode, runs, fresh, missed>> /\ Scenario' = Scenario
    BY <1>1, <1>8, ScriptRests, ScriptStep DEF scriptVars
  <2>2. step = "begin" <=> step' = "begin"
    <3>1. CASE Background \/ Rest
      BY <1>1, <3>1, BackgroundLeaves DEF SuitesInv, BillInv, Rest, vars
    <3>2. CASE Senders
      BY <3>2
      DEF Senders, NameTheWork, DrainThePool, TakeTheRest, AskForBystanders, SetUp, ProveTheLimiter,
          SpendInside, SpendSteadily, SpendRotating, SpendUntilRefused, SpendAtOne, SpendAtBoth,
          AskOrdinarily, FillTheCap, Goto, Again
    <3>3. CASE ~Background /\ ~Senders /\ ~Rest
      BY <1>8, <3>3
      DEF Next, Shape, HalfFix, Control, Elsewhere, Senders, Turn, Background, ImportTheBundle,
          Hold, Poll, AskTheCheapOne, Release, Reseed, SendWithDeadline, Look, Measure, Goto
    <3>4. QED
      BY <3>1, <3>2, <3>3
  <2>3. QED
    BY <1>2, <1>5, <1>8, <2>1, <2>2
<1>9. QED
  BY <1>6, <1>7, <1>8 DEF Turn

(* A suite never goes back to an earlier scenario. *)
LEMMA ReachedStays ==
  ASSUME VerdictsInv, Next, ~StartSuite, step' # "ended", NEW r \in Nat, Reached(r)
  PROVE  Reached(r)'
BY RankMoves DEF Reached, Begin, Turn

(* Only the scenarios of the counted half fixes move their counters. *)
LEMMA OthersLeaveSpent ==
  ASSUME SuitesInv, CountsOK, Next, ~StartSuite,
         ~SpendSteadily, ~SpendRotating, ~SpendAtOne, ~SpendAtBoth
  PROVE  spent' = spent
<1>1. ASSUME NEW a, NEW failed, Enrich(a, failed), a.fix \in {"none", "rate_limit"}
      PROVE  spent' = spent
  BY <1>1 DEF Enrich, Counted
<1>2. \A lookups : Plain(lookups).fix = "none"
  BY DEF Plain, Ask
<1>3. \A replica, tenant, lookups, fix, key : Ask(replica, tenant, lookups, fix, key).fix = fix
  BY DEF Ask
<1>4. CASE NameTheWork \/ DrainThePool \/ SetUp \/ AskOrdinarily \/ FillTheCap
  BY <1>1, <1>2, <1>4 DEF NameTheWork, DrainThePool, SetUp, AskOrdinarily, FillTheCap
<1>5. CASE AskForBystanders \/ ProveTheLimiter \/ SpendInside
  BY <1>1, <1>3, <1>5 DEF AskForBystanders, ProveTheLimiter, SpendInside
<1>6. CASE TakeTheRest
  <2> DEFINE a == [Plain(Cap - bill.total) EXCEPT !.fix =
                     IF step = "leftover" THEN "rate_limit" ELSE "none"]
  <2>1. a.fix \in {"none", "rate_limit"}
    BY DEF Plain, Ask
  <2>2. spent' = spent \/ \E failed \in BOOLEAN : Enrich(a, failed)
    BY <1>6 DEF TakeTheRest
  <2> HIDE DEF a
  <2>3. QED
    BY <1>1, <2>1, <2>2
<1>7. CASE Background \/ Turn
  BY <1>7, BackgroundLeaves DEF Turn, Begin, Judge, SuitesInv, BillInv
<1>8. CASE AskTheCheapOne
  BY <1>8, Zenon DEF AskTheCheapOne
<1>9. QED
  BY <1>4, <1>5, <1>6, <1>7, <1>8
  DEF Next, Shape, HalfFix, Control, Elsewhere, Turn, Background, ImportTheBundle, Hold, Poll,
      Release, Reseed, SendWithDeadline, Look, Measure, Rest, vars

(* A counted half fix moves counters of its own. *)
LEMMA DrainsLeaveOthers ==
  ASSUME SuitesInv, CountsOK, NEW a, NEW field, NEW then, SpendUntilRefused(a, field, then),
         a.fix \in Counted, a.lookups = Batch, NEW c \in Counters, c[2] # a.fix
  PROVE  spent'[c] = spent[c]
<1>1. Books /\ Batch \in Nat /\ a.fix # "rate_limit"
  BY DemonstrationAssumption DEF SuitesInv, BillInv, Counted
<1>2. PICK failed \in BOOLEAN : Enrich(a, failed)
  BY DEF SpendUntilRefused
<1>3. Asks(a, failed)
  BY <1>1, <1>2 DEF Asks
<1>4. c # <<a.replica, a.fix, a.key>>
  OBVIOUS
<1>5. QED
  BY <1>1, <1>3, <1>4, AskCounts

(* What has not been sent with a deadline, had not been a step earlier, and a
   call joins the abandoned ones by being sent with one.                     *)
LEMMA EarlyWas ==
  ASSUME VerdictsInv, Next, ~StartSuite, step' # "ended"
  PROVE  /\ ~SendWithDeadline => late' \subseteq late
         /\ Early' => Early /\ ~SendWithDeadline
<1>1. SuitesInv /\ CountsOK /\ OnScript
  BY DEF VerdictsInv
<1>2. /\ step # "ended" /\ ScenarioOfStep
      /\ Scenario \in Names /\ Rank[Scenario] \in Nat
  BY <1>1, RankMoves DEF OnScript
<1>3. ~Reached(8)' => ~Reached(8)
  BY ReachedStays
<1>4. Rank["deadline"] = 8 /\ Rank["in_flight"] = 4
  BY DEF Rank
<1>5. SendWithDeadline => Reached(8)
  BY <1>2, <1>4 DEF Reached, ScenarioOfStep, SendWithDeadline
<1>6. ~SendWithDeadline => late' \subseteq late
  <2>1. CASE Senders
    BY <1>1, <2>1, SendersStay DEF callVars
  <2>2. CASE Background
    BY <1>1, <2>2, BackgroundLeaves DEF SuitesInv, BillInv
  <2>3. CASE AskTheCheapOne
    <3>1. UNCHANGED callVars
      BY <2>3, Zenon DEF AskTheCheapOne
    <3>2. QED
      BY <3>1 DEF callVars
  <2>4. QED
    BY <2>1, <2>2, <2>3
    DEF Next, Shape, HalfFix, Control, Elsewhere, Senders, Background, ImportTheBundle, Hold,
        Poll, Release, Reseed, Look, Measure, Judge, Begin, Rest, vars, callVars
<1>7. step' \in {"hold", "send"} => Early /\ ~SendWithDeadline
  <2>1. CASE Background \/ Rest
    BY <1>1, <1>2, <2>1, BackgroundLeaves
    DEF SuitesInv, BillInv, Rest, SendWithDeadline, Goto, callVars, Background, LateBill, TaskCalls,
        TaskEnds, TimePasses, Early
  <2>2. CASE Turn
    <3>1. step' \in {"hold", "send"} => Begin
      BY <2>2 DEF Turn, Judge, Goto
    <3>2. Begin => Scenario \in Names /\ step' = FirstStep[Scenario] /\ step = "begin"
      BY <1>2 DEF Begin, Goto
    <3>3. step' \in {"hold", "send"} => Scenario = "deadline"
      BY <3>1, <3>2 DEF FirstStep, Names
    <3>4. Scenario = "deadline" /\ step = "begin" => ~Reached(8) /\ ~SendWithDeadline
      BY <1>4 DEF Reached, SendWithDeadline
    <3>5. QED
      BY <3>1, <3>2, <3>3, <3>4 DEF Early
  <2>3. CASE SetUp
    BY <1>2, <1>4, <2>3 DEF SetUp, Reached, ScenarioOfStep, SendWithDeadline, Early
  <2>4. CASE Hold
    BY <2>4 DEF Hold, SendWithDeadline, Early
  <2>5. CASE SendWithDeadline
    BY <2>5 DEF SendWithDeadline, Goto
  <2>6. CASE Senders /\ ~SetUp
    BY <2>6
    DEF Senders, NameTheWork, DrainThePool, TakeTheRest, AskForBystanders, ProveTheLimiter,
        SpendInside, SpendSteadily, SpendRotating, SpendUntilRefused, SpendAtOne, SpendAtBoth,
        AskOrdinarily, FillTheCap, Goto, Again
  <2>7. CASE AskTheCheapOne
    <3>1. step' = "release"
      BY <2>7, Zenon DEF AskTheCheapOne, Goto
    <3>2. QED
      BY <3>1
  <2>8. QED
    BY <2>1, <2>2, <2>3, <2>4, <2>5, <2>6, <2>7
    DEF Next, Shape, HalfFix, Control, Elsewhere, Senders, Turn, Background, ImportTheBundle,
        Poll, Release, Reseed, Look, Measure, Goto
<1>8. QED
  BY <1>3, <1>5, <1>6, <1>7 DEF Early

(* Nothing is counted, and no call abandoned, before its scenario. *)
LEMMA UntouchedStep ==
  ASSUME VerdictsInv, Next, step' # "ended", step # "ended" => Untouched
  PROVE  Untouched'
<1>1. SuitesInv /\ CountsOK /\ OnScript /\ LimiterInv
  BY DEF VerdictsInv, SuitesInv
<1>2. CASE StartSuite
  <2>1. fresh' = (late = {} /\ seen' = [t \in Keys |-> {}] /\ \A c \in DOMAIN spent : spent'[c] = 0)
    BY <1>2, Zenon DEF StartSuite
  <2>2. late' = late
    BY <1>2, Zenon DEF StartSuite, callVars
  <2>3. DOMAIN spent = Counters /\ Prover \in Keys
    BY <1>1, TenantsDiffer DEF CountsOK
  <2>4. QED
    BY <2>1, <2>2, <2>3 DEF Untouched
<1>3. ASSUME ~StartSuite, fresh'
      PROVE  /\ ~Reached(5)' => seen'[Prover] = {}
             /\ ~Reached(6)' => \A c \in Counters : c[2] = "caller_keyed" => spent'[c] = 0
             /\ ~Reached(9)' => \A c \in Counters : c[2] = "in_process" => spent'[c] = 0
             /\ Early' => late' = {}
  <2>1. /\ step # "ended" /\ fresh /\ Untouched /\ ScenarioOfStep
        /\ Scenario \in Names /\ Rank[Scenario] \in Nat
    BY <1>1, <1>3, RankMoves DEF OnScript
  <2>2. /\ ~Reached(5)' => ~Reached(5)
        /\ ~Reached(6)' => ~Reached(6)
        /\ ~Reached(9)' => ~Reached(9)
    BY <1>3, ReachedStays
  <2>3. /\ Rank["rate_limit"] = 5 /\ Rank["caller_keyed"] = 6 /\ Rank["in_process"] = 9
    BY DEF Rank
  <2>4. /\ Scenario = "rate_limit" /\ step # "begin" => Reached(5)
        /\ SpendSteadily \/ SpendRotating => Reached(6)
        /\ SpendAtOne \/ SpendAtBoth => Reached(9)
    BY <2>1, <2>3
    DEF Reached, ScenarioOfStep, SpendSteadily, SpendRotating, SpendAtOne, SpendAtBoth
  <2>5. ~Reached(5)' => seen'[Prover] = {}
    <3>1. CASE Scenario # "rate_limit"
      BY <1>1, <1>3, <2>1, <2>2, <3>1, OthersLeaveSeen DEF Untouched
    <3>2. CASE Scenario = "rate_limit" /\ step = "begin"
      <4>1. seen' = seen
        <5>1. CASE Senders
          BY <3>2, <5>1
          DEF Senders, NameTheWork, DrainThePool, TakeTheRest, AskForBystanders, SetUp,
              ProveTheLimiter, SpendInside, SpendSteadily, SpendRotating, SpendAtOne, SpendAtBoth,
              AskOrdinarily, FillTheCap
        <5>2. CASE Background
          BY <1>1, <5>2, BackgroundLeaves DEF SuitesInv, BillInv
        <5>3. CASE Begin
          BY <5>3 DEF Begin, limiterVars
        <5>4. CASE AskTheCheapOne
          BY <3>2, <5>4 DEF AskTheCheapOne
        <5>5. QED
          BY <1>3, <3>2, <5>1, <5>2, <5>3, <5>4
          DEF Next, Shape, HalfFix, Control, Elsewhere, Senders, Background, ImportTheBundle, Hold,
              Poll, Release, Reseed, SendWithDeadline, Look, Measure, Judge, Judging, Rest
      <4>2. QED
        BY <2>1, <2>2, <4>1 DEF Untouched
    <3>3. QED
      BY <2>2, <2>4, <3>1, <3>2
  <2>6. ASSUME ~Reached(6)', NEW c \in Counters, c[2] = "caller_keyed"
        PROVE  spent'[c] = 0
    <3>1. spent[c] = 0 /\ ~SpendSteadily /\ ~SpendRotating
      BY <2>1, <2>2, <2>4, <2>6 DEF Untouched
    <3>2. spent'[c] = spent[c]
      <4>1. CASE SpendAtOne
        <5> DEFINE a == Ask(1, Prover, Batch, "in_process", Prover)
        <5>1. a.fix = "in_process" /\ a.lookups = Batch /\ a.fix \in Counted
          BY DEF Ask, Counted
        <5>2. SpendUntilRefused(a, "first", "double")
          BY <4>1 DEF SpendAtOne
        <5> HIDE DEF a
        <5>3. QED
          BY <1>1, <2>6, <5>1, <5>2, DrainsLeaveOthers
      <4>2. CASE SpendAtBoth
        <5> DEFINE a == Ask(1 + ((n - 1) % 2), Third, Batch, "in_process", Third)
        <5>1. a.fix = "in_process" /\ a.lookups = Batch /\ a.fix \in Counted
          BY DEF Ask, Counted
        <5>2. SpendUntilRefused(a, "second", "judge")
          BY <4>2 DEF SpendAtBoth
        <5> HIDE DEF a
        <5>3. QED
          BY <1>1, <2>6, <5>1, <5>2, DrainsLeaveOthers
      <4>3. QED
        BY <1>1, <1>3, <3>1, <4>1, <4>2, OthersLeaveSpent
    <3>3. QED
      BY <3>1, <3>2
  <2>7. ASSUME ~Reached(9)', NEW c \in Counters, c[2] = "in_process"
        PROVE  spent'[c] = 0
    <3>1. spent[c] = 0 /\ ~SpendAtOne /\ ~SpendAtBoth
      BY <2>1, <2>2, <2>4, <2>7 DEF Untouched
    <3>2. spent'[c] = spent[c]
      <4>1. CASE SpendSteadily
        <5> DEFINE a == Ask(1, Spender, Batch, "caller_keyed", <<"steady", runs>>)
        <5>1. a.fix = "caller_keyed" /\ a.lookups = Batch /\ a.fix \in Counted
          BY DEF Ask, Counted
        <5>2. SpendUntilRefused(a, "first", "reseed")
          BY <4>1 DEF SpendSteadily
        <5> HIDE DEF a
        <5>3. QED
          BY <1>1, <2>7, <5>1, <5>2, DrainsLeaveOthers
      <4>2. CASE SpendRotating
        <5> DEFINE a == Ask(1, Spender, Batch, "caller_keyed", <<"rotated", n>>)
        <5>1. a.fix = "caller_keyed" /\ a.lookups = Batch /\ a.fix \in Counted
          BY DEF Ask, Counted
        <5>2. SpendUntilRefused(a, "second", "judge")
          BY <4>2 DEF SpendRotating
        <5> HIDE DEF a
        <5>3. QED
          BY <1>1, <2>7, <5>1, <5>2, DrainsLeaveOthers
      <4>3. QED
        BY <1>1, <1>3, <3>1, <4>1, <4>2, OthersLeaveSpent
    <3>3. QED
      BY <3>1, <3>2
  <2>8. Early' => late' = {}
    BY <1>3, <2>1, EarlyWas DEF Untouched
  <2>9. QED
    BY <2>5, <2>6, <2>7, <2>8
<1>4. CASE ~StartSuite
  BY <1>3, <1>4 DEF Untouched
<1>5. QED
  BY <1>2, <1>4

(* Once something failed or dragged on, the suite is not calm again. *)
LEMMA CalmStays ==
  ASSUME SuitesInv, CountsOK, Next, ~StartSuite, calm'
  PROVE  calm
<1>1. CASE Senders
  BY <1>1, SendersStay
<1>2. CASE Background
  BY <1>2, BackgroundLeaves DEF SuitesInv, BillInv
<1>3. CASE AskTheCheapOne
  BY <1>3, Zenon DEF AskTheCheapOne
<1>4. QED
  BY <1>1, <1>2, <1>3
  DEF Next, Shape, HalfFix, Control, Elsewhere, Senders, Background, ImportTheBundle, Hold,
      Poll, Release, Reseed, SendWithDeadline, Look, Measure, Judge, Begin, Rest, vars

(* A request of a calm suite is served unless the repair or the pool refuses it. *)
LEMMA CalmAsk ==
  ASSUME SuitesInv, CountsOK, NEW a, NEW failed \in BOOLEAN, Asks(a, failed), calm'
  PROVE  /\ ~failed
         /\ Served(a, failed) <=> Passes(a) /\ period.charged + a.lookups <= period.cap
         /\ Served(a, failed) => /\ period'.charged = period.charged + a.lookups
                                 /\ bill'.total = bill.total + a.lookups
         /\ ~Served(a, failed) => UNCHANGED <<period, bill>>
         /\ period'.cap = period.cap /\ bill'.carried = bill.carried
         /\ UNCHANGED callVars
<1>1. Books /\ a.lookups \in Nat
  BY DEF SuitesInv, BillInv, Asks
<1>2. ~failed /\ UNCHANGED callVars
  BY DEF Asks, Enrich
<1>3. Served(a, failed) <=> Passes(a) /\ period.charged + a.lookups <= period.cap
  BY <1>2 DEF Served, HasMoney
<1>4. \/ Served(a, failed) /\ Pay(a.lookups) /\ Bill(a.lookups)
      \/ ~Served(a, failed) /\ UNCHANGED moneyVars
  BY <1>2 DEF Asks, Enrich
<1>5. Served(a, failed) => /\ period'.charged = period.charged + a.lookups
                           /\ bill'.total = bill.total + a.lookups
  BY <1>1, <1>4 DEF Pay, Bill, Books
<1>6. ~Served(a, failed) => UNCHANGED <<period, bill>>
  BY <1>4 DEF moneyVars
<1>7. period'.cap = period.cap /\ bill'.carried = bill.carried
  BY <1>1, <1>4 DEF Pay, Bill, Books, moneyVars
<1>8. QED
  BY <1>2, <1>3, <1>5, <1>6, <1>7

(* A suite that keeps its promise, and a step within one of its scenarios. *)
Within ==
  /\ VerdictsInv /\ VerdictsInv' /\ Next /\ Promising' /\ step' \notin {"begin", "ended"}
  /\ step # "ended" => Untouched
  /\ Promising /\ step \notin {"begin", "ended"} => OnCourse

(* The scenario begins, with nothing spent and nothing counted. *)
Begun ==
  /\ Begin /\ Scenario' = Scenario /\ step' = FirstStep[Scenario]
  /\ tally' = Blank /\ n' = 1 /\ tasks' = Idle
  /\ period' = [charged |-> 0, cap |-> Cap] /\ bill' = [total |-> 0, carried |-> 0]
  /\ UNCHANGED <<late, seen, spent, runs>>

(* The scenario goes on. *)
GoneOn ==
  /\ ~Turn /\ Scenario' = Scenario /\ ScenarioOfStep
  /\ Promising /\ step \notin {"begin", "ended"} /\ OnCourse
  /\ UNCHANGED <<runs, mode, fresh>>

(* A step within a scenario begins it or goes on with it. *)
LEMMA WithinScenario ==
  ASSUME Within
  PROVE  /\ Untouched /\ step # "ended" /\ Scenario \in Names /\ SuitesInv /\ CountsOK /\ OnScript
         /\ Books /\ Books' /\ tally \in Tallies /\ n \in Nat \ {0}
         /\ spent \in [Counters -> 0..Allowance]
         /\ Begun \/ GoneOn
<1>1. /\ VerdictsInv /\ SuitesInv /\ CountsOK /\ OnScript /\ Next /\ Books /\ Books'
      /\ tally \in Tallies /\ n \in Nat \ {0} /\ spent \in [Counters -> 0..Allowance]
  BY DEF Within, VerdictsInv, SuitesInv, BillInv, CountsOK
<1>2. step' \notin {"begin", "ended"} /\ ~StartSuite /\ Promising'
  BY DEF Within, StartSuite, Goto
<1>3. /\ step # "ended" /\ UNCHANGED <<mode, runs, fresh>> /\ Scenario \in Names
      /\ \/ Begin /\ Scenario' = Scenario
         \/ ~Turn /\ Scenario' = Scenario /\ step # "begin"
  BY <1>1, <1>2, RankMoves
<1>4. CASE Begin /\ Scenario' = Scenario
  <2>1. tally = Blank /\ tasks = Idle
    BY <1>1, <1>4 DEF Begin, OnScript, SuitesInv, BillInv, BurstSteps
  <2>2. Begun
    BY <1>4, <2>1 DEF Begun, Begin, Goto, Seed, limiterVars, scriptVars
  <2>3. QED
    BY <1>1, <1>3, <2>2 DEF Within
<1>5. CASE ~Turn /\ Scenario' = Scenario /\ step # "begin"
  <2>1. calm
    BY <1>1, <1>2, CalmStays DEF Promising
  <2>2. Promising
    BY <1>2, <1>3, <2>1 DEF Promising
  <2>3. ScenarioOfStep
    BY <1>1, <1>3 DEF OnScript
  <2>4. GoneOn
    BY <1>3, <1>5, <2>2, <2>3 DEF GoneOn, Within
  <2>5. QED
    BY <1>1, <1>3, <2>4 DEF Within
<1>6. QED
  BY <1>3, <1>4, <1>5

(* Every step keeps the bill to the money that the pool charged. *)
LEMMA ExactStep ==
  ASSUME Within
  PROVE  Exact'
<1>1. /\ Untouched /\ SuitesInv /\ CountsOK /\ OnScript /\ Books /\ Books' /\ BillInv /\ Next
      /\ Cap \in Nat /\ Abandoned \in Nat /\ (Begun \/ GoneOn) /\ VerdictsInv
      /\ step # "ended" /\ step' # "ended" /\ ~StartSuite
  BY WithinScenario, DemonstrationAssumption DEF Within, SuitesInv, StartSuite, Goto
<1>2. CASE Begun
  BY <1>1, <1>2 DEF Begun, Exact, Idle
<1>3. CASE GoneOn
  <2>1. /\ Exact /\ Scenario' = Scenario /\ ~Turn /\ ScenarioOfStep /\ fresh
    BY <1>3 DEF GoneOn, OnCourse, Promising
  <2>2. /\ Early' => Early /\ ~SendWithDeadline
        /\ ~SendWithDeadline => late' \subseteq late
        /\ Early => late = {} /\ bill.carried = 0
        /\ late \subseteq {runs}
    <3>1. AbandonedTruly
      BY <1>1 DEF VerdictsInv, Truths
    <3>2. QED
      BY <1>1, <2>1, <3>1, EarlyWas DEF Untouched, Exact, AbandonedTruly
  <2>3. Exact => /\ bill.total + tasks.calling = period.charged + bill.carried
                 /\ bill.carried <= Abandoned
                 /\ late # {} => bill.carried = 0
                 /\ Scenario # "more_capacity" => period.cap = Cap
    BY DEF Exact
  <2>4. SUFFICES /\ bill'.total + tasks'.calling = period'.charged + bill'.carried
                 /\ bill'.carried <= Abandoned
                 /\ late' # {} \/ Early' => bill'.carried = 0
                 /\ Scenario # "more_capacity" => period'.cap = Cap
    BY <2>1 DEF Exact
  <2>5. ASSUME UNCHANGED <<period, bill, tasks>>, ~SendWithDeadline
        PROVE  /\ bill'.total + tasks'.calling = period'.charged + bill'.carried
               /\ bill'.carried <= Abandoned
               /\ late' # {} \/ Early' => bill'.carried = 0
               /\ Scenario # "more_capacity" => period'.cap = Cap
    BY <2>1, <2>2, <2>3, <2>5
  <2>6. CASE Senders
    <3>1. CASE \E a : \E failed \in BOOLEAN : Asks(a, failed)
      <4>1. PICK a : \E failed \in BOOLEAN : Asks(a, failed)
        BY <3>1
      <4>2. PICK failed \in BOOLEAN : Asks(a, failed)
        BY <4>1
      <4>3. calm' /\ a.lookups \in Nat
        BY <4>2 DEF Within, Promising, Asks
      <4>4. /\ Served(a, failed) => /\ period'.charged = period.charged + a.lookups
                                    /\ bill'.total = bill.total + a.lookups
            /\ ~Served(a, failed) => UNCHANGED <<period, bill>>
            /\ period'.cap = period.cap /\ bill'.carried = bill.carried
            /\ UNCHANGED callVars
        BY <1>1, <4>2, <4>3, CalmAsk
      <4>5. late' = late /\ tasks' = tasks /\ tasks.calling \in Nat
        BY <1>1, <4>4 DEF callVars, Books
      <4>6. QED
        BY <1>1, <2>1, <2>2, <2>3, <4>3, <4>4, <4>5 DEF Books
    <3>2. CASE NothingAsked
      BY <2>5, <3>2, EarlyWas, <1>1, <2>1, <2>2, <2>3 DEF NothingAsked, moneyVars, callVars
    <3>3. QED
      BY <1>1, <2>6, <3>1, <3>2, SendersAsk
  <2>7. CASE ImportTheBundle
    <3>1. PICK chunks \in 0..(Bundle \div Chunk) : Pay(chunks * Chunk) /\ Bill(chunks * Chunk)
      BY <2>7 DEF ImportTheBundle
    <3>2. PICK c \in Nat : c = chunks * Chunk
      BY <3>1, DemonstrationAssumption
    <3>3. /\ period'.charged = period.charged + c /\ bill'.total = bill.total + c
          /\ period'.cap = period.cap /\ bill'.carried = bill.carried
      BY <1>1, <3>1, <3>2 DEF Pay, Bill, Books
    <3>4. tasks' = tasks /\ late' = late
      BY <2>7 DEF ImportTheBundle, callVars
    <3>5. QED
      BY <1>1, <2>1, <2>2, <2>3, <3>2, <3>3, <3>4 DEF Books
  <2>8. CASE LateBill
    <3>1. late # {} /\ late' = {} /\ UNCHANGED <<period, tasks>>
          /\ bill'.total = bill.total + Abandoned /\ bill'.carried = bill.carried + Abandoned
      BY <2>2, <2>8 DEF LateBill
    <3>2. QED
      BY <1>1, <2>1, <2>2, <2>3, <3>1 DEF Books
  <2>9. CASE TaskCalls
    BY <1>1, <2>1, <2>2, <2>3, <2>9 DEF TaskCalls, Pay, Books
  <2>10. CASE TaskEnds
    BY <1>1, <2>1, <2>2, <2>3, <2>10 DEF TaskEnds, Bill, Books
  <2>11. CASE Reseed \/ Measure
    <3>1. tasks = Idle /\ tasks' = tasks
      BY <1>1, <2>11 DEF Reseed, Measure, BillInv, BurstSteps
    <3>2. CASE UNCHANGED moneyVars
      BY <2>1, <2>2, <2>3, <2>11, <3>1, <3>2 DEF moneyVars, Measure, Reseed, ScenarioOfStep
    <3>3. CASE ~UNCHANGED moneyVars
      <4>1. /\ bill' = [total |-> 0, carried |-> 0] /\ period'.charged = 0
            /\ Scenario # "more_capacity" => period'.cap = Cap
        BY <2>1, <2>11, <3>3 DEF Reseed, Measure, Seed, ScenarioOfStep
      <4>2. QED
        BY <1>1, <3>1, <4>1 DEF Idle
    <3>4. QED
      BY <3>2, <3>3
  <2>12. CASE SendWithDeadline
    <3>1. Early /\ UNCHANGED tasks /\ step = "send" /\ bill.carried = 0 /\ late = {}
      BY <2>2, <2>12 DEF SendWithDeadline, Early
    <3>2. \/ UNCHANGED moneyVars
          \/ Pay(Abandoned) /\ Bill(Abandoned) /\ late' = late
          \/ /\ UNCHANGED period /\ late' = late
             /\ bill' = [total |-> bill.total + Abandoned, carried |-> bill.carried + Abandoned]
      BY <2>12 DEF SendWithDeadline
    <3>3. ~Early'
      BY <2>2, <2>12
    <3>4. QED
      BY <1>1, <2>1, <2>2, <2>3, <3>1, <3>2, <3>3 DEF Pay, Bill, Books, moneyVars
  <2>13. CASE AskTheCheapOne
    <3>1. UNCHANGED <<moneyVars, callVars>> /\ ~SendWithDeadline
      BY <2>13, Zenon DEF AskTheCheapOne, SendWithDeadline
    <3>2. QED
      BY <2>5, <3>1 DEF moneyVars, callVars
  <2>14. CASE Hold
    <3>1. step = "hold" /\ tasks = Idle
      BY <1>1, <2>14 DEF Hold, BillInv, BurstSteps
    <3>2. UNCHANGED <<period, bill>> /\ tasks'.calling = 0 /\ tasks.calling = 0 /\ late' = late
      BY <2>14, <3>1 DEF Hold, Idle, moneyVars
    <3>3. QED
      BY <2>1, <2>2, <2>3, <3>2
  <2>15. CASE Poll \/ Look \/ Release \/ TimePasses \/ Rest
    <3>1. UNCHANGED <<period, bill, tasks>> /\ late' = late
      BY <2>15 DEF Poll, Look, Release, TimePasses, Rest, vars, moneyVars, callVars
    <3>2. QED
      BY <2>1, <2>2, <2>3, <3>1
  <2>16. QED
    BY <1>1, <2>1, <2>6, <2>7, <2>8, <2>9, <2>10, <2>11, <2>12, <2>13, <2>14, <2>15
    DEF Next, Shape, HalfFix, Control, Elsewhere, Senders, Turn
<1>4. QED
  BY <1>1, <1>2, <1>3

(* The numbers of the fixtures and what follows from how they fit. *)
LEMMA FixtureNumbers ==
  /\ Cap \in Nat /\ Cap >= 3 /\ 10 * Cap <= Bundle /\ Bundle \in Nat
  /\ Allowance \in Nat \ {0} /\ 3 * Allowance <= Cap /\ Batch \in Nat \ {0}
  /\ SpendLimit \in Nat /\ PoolSize \in Nat /\ PoolSize > 0
  /\ MaxRequests \in Nat /\ MaxRequests <= Cap
  /\ Cap < MaxRequests + (MaxRequests - 1) * Batch
  /\ Tolerance \in Nat \ {0} /\ Tolerance * Batch <= Cap
  /\ Abandoned \in Nat /\ 2 * Abandoned <= Batch
BY FixturesAssumption, DemonstrationAssumption, LimiterAssumption

(* What goes on beside the client takes no money, unless the burst is out. *)
LEMMA BackgroundWithin ==
  ASSUME Within, GoneOn, Background
  PROVE  /\ UNCHANGED <<step, n, tally, spent, seen, limited>>
         /\ bill'.total >= bill.total
         /\ step \notin BurstSteps => UNCHANGED <<period, tasks>>
<1>1. Books /\ Books' /\ BillInv /\ Abandoned \in Nat
  BY WithinScenario, DemonstrationAssumption DEF SuitesInv
<1>2. UNCHANGED <<step, n, tally, spent, seen, limited>>
  BY <1>1, BackgroundLeaves
<1>3. bill'.total >= bill.total
  BY <1>1 DEF Books, Background, LateBill, TaskCalls, TaskEnds, TimePasses, Bill, moneyVars
<1>4. step \notin BurstSteps => UNCHANGED <<period, tasks>>
  BY <1>1
  DEF BillInv, Idle, Background, LateBill, TaskCalls, TaskEnds, TimePasses, moneyVars, callVars
<1>5. QED
  BY <1>2, <1>3, <1>4

(* Shape 1: four fifths of the budget are there to be spent in one request. *)
LEMMA NamesStep ==
  ASSUME Within, Scenario' = "names_the_work"
  PROVE  NamesIt'
<1>1. /\ SuitesInv /\ CountsOK /\ Books /\ Books' /\ tally \in Tallies /\ (Begun \/ GoneOn)
      /\ OnScript /\ Next
  BY WithinScenario DEF Within
<1>2. CASE Begun
  BY <1>2 DEF Begun, NamesIt, FirstStep
<1>3. CASE GoneOn
  <2>1. NamesIt /\ Exact /\ Scenario = "names_the_work" /\ ~Turn /\ step # "ended"
    BY <1>3 DEF GoneOn, OnCourse
  <2>2. CASE NameTheWork
    <3> DEFINE k == (Cap * 4) \div 5
    <3>1. PICK failed \in BOOLEAN : Enrich(Plain(k), failed) /\ Note("ok", Served(Plain(k), failed))
      BY <2>2 DEF NameTheWork
    <3>2. k \in Nat /\ k <= Cap /\ 2 * k >= Cap
      BY FixtureNumbers
    <3> HIDE DEF k
    <3>3. Asks(Plain(k), failed) /\ Plain(k).lookups = k /\ Passes(Plain(k))
      BY <3>1, <3>2 DEF Asks, Plain, Ask, Passes, Counted
    <3>4. calm' /\ period.charged = 0 /\ period.cap = Cap
      BY <2>1, <2>2 DEF Within, Promising, NamesIt, Exact, NameTheWork
    <3>5. Served(Plain(k), failed) /\ bill'.total = bill.total + k
      BY <1>1, <3>2, <3>3, <3>4, CalmAsk
    <3>6. tally'.ok
      BY <1>1, <3>1, <3>5, NoteLeaves
    <3>7. step' = "judge"
      BY <2>2 DEF NameTheWork, Goto
    <3>8. QED
      BY <1>1, <3>2, <3>5, <3>6, <3>7, FixtureNumbers DEF NamesIt, Books
  <2>3. CASE Background
    <3>1. step # "name" => bill'.total >= bill.total /\ UNCHANGED <<step, tally>>
      BY <1>3, <2>3, BackgroundWithin
    <3>2. step = "name" => UNCHANGED <<step, period>>
      BY <1>3, <2>3, BackgroundWithin DEF BurstSteps
    <3>3. QED
      BY <1>1, <2>1, <3>1, <3>2, FixtureNumbers DEF NamesIt, Books
  <2>4. QED
    BY <1>1, <2>1, <2>2, <2>3, ScenarioMoves
<1>4. QED
  BY <1>1, <1>2, <1>3

(* Shape 3 and half fix 4: the import admits the whole bundle. *)
LEMMA AdmitsStep ==
  ASSUME Within, Scenario' \in {"expansion", "compressed_size"}
  PROVE  AdmitsIt'
<1>1. /\ SuitesInv /\ CountsOK /\ tally \in Tallies /\ (Begun \/ GoneOn) /\ OnScript /\ Next
  BY WithinScenario DEF Within
<1>2. CASE Begun
  BY <1>2 DEF Begun, AdmitsIt, FirstStep
<1>3. CASE GoneOn
  <2>1. /\ AdmitsIt /\ Scenario \in {"expansion", "compressed_size"} /\ ~Turn /\ step # "ended"
    BY <1>3 DEF GoneOn, OnCourse
  <2>2. CASE ImportTheBundle
    <3>1. PICK failed \in BOOLEAN, admitted \in {0, Bundle} :
            /\ ~failed => admitted = Bundle
            /\ tally' = [tally EXCEPT !.ok = ~failed, !.first = admitted]
            /\ calm' = (calm /\ ~failed)
      BY <2>2 DEF ImportTheBundle
    <3>2. ~failed
      BY <3>1 DEF Within, Promising
    <3>3. tally'.ok /\ tally'.first = Bundle
      BY <1>1, <3>1, <3>2 DEF Tallies
    <3>4. QED
      BY <3>3 DEF AdmitsIt
  <2>3. CASE Background
    BY <1>3, <2>1, <2>3, BackgroundWithin DEF AdmitsIt
  <2>4. QED
    BY <1>1, <2>1, <2>2, <2>3, ScenarioMoves
<1>4. QED
  BY <1>1, <1>2, <1>3

(* Two controls: what is ordinary is served. *)
LEMMA ServesStep ==
  ASSUME Within, Scenario' \in {"authorized", "one_of_each"}
  PROVE  ServesIt'
<1>1. /\ SuitesInv /\ CountsOK /\ Books /\ Books' /\ tally \in Tallies /\ (Begun \/ GoneOn)
      /\ OnScript /\ Next /\ n \in Nat \ {0} /\ tally.allowed \in Nat /\ Ordinary \in {3, 4}
  BY WithinScenario DEF Within, Tallies, Ordinary
<1>2. CASE Begun
  BY <1>1, <1>2, BlankIs DEF Begun, ServesIt, FirstStep, Ordinary
<1>3. CASE GoneOn
  <2>1. /\ ServesIt /\ Exact /\ Scenario \in {"authorized", "one_of_each"} /\ ~Turn
        /\ step # "ended" /\ Ordinary' = Ordinary
    BY <1>3 DEF GoneOn, OnCourse, Ordinary
  <2>2. CASE AskOrdinarily
    <3> DEFINE k == IF n = 1 \/ (n = 3 /\ Ordinary = 4) THEN 1 ELSE 0
    <3>1. PICK failed \in BOOLEAN :
            /\ Enrich(Plain(k), failed)
            /\ IF Served(Plain(k), failed) THEN Note("allowed", tally.allowed + 1)
               ELSE UNCHANGED tally
      BY <2>2 DEF AskOrdinarily
    <3>2. k \in {0, 1} /\ (n = 4 => k = 0)
      OBVIOUS
    <3> HIDE DEF k
    <3>3. Asks(Plain(k), failed) /\ Plain(k).lookups = k /\ Passes(Plain(k))
      BY <3>1, <3>2 DEF Asks, Plain, Ask, Passes, Counted
    <3>4. /\ calm' /\ period.charged < n /\ period.cap = Cap /\ n <= Ordinary
          /\ tally.allowed + 1 = n /\ step = "ask"
      BY <2>1, <2>2 DEF Within, Promising, ServesIt, Exact, AskOrdinarily
    <3>5. period.charged + k <= period.cap
      BY <1>1, <3>2, <3>4, FixtureNumbers DEF Books
    <3>6. Served(Plain(k), failed) /\ period'.charged = period.charged + k
      BY <1>1, <3>3, <3>4, <3>5, CalmAsk
    <3>7. tally'.allowed = tally.allowed + 1
      BY <1>1, <3>1, <3>6, NoteLeaves
    <3>8. \/ n < Ordinary /\ n' = n + 1 /\ step' = step
          \/ n = Ordinary /\ step' = "judge"
      BY <1>1, <2>2, <3>4 DEF AskOrdinarily, Goto, Again
    <3>9. QED
      BY <1>1, <2>1, <3>2, <3>4, <3>6, <3>7, <3>8 DEF ServesIt, Books
  <2>3. CASE Background
    BY <1>3, <2>1, <2>3, BackgroundWithin DEF ServesIt, BurstSteps
  <2>4. QED
    BY <1>1, <2>1, <2>2, <2>3, ScenarioMoves
<1>4. QED
  BY <1>1, <1>2, <1>3

(* Shape 2: the last request of the drain takes the pool to its cap. *)
LEMMA DrainsStep ==
  ASSUME Within, Scenario' = "undivided_budget"
  PROVE  DrainsIt'
<1>1. /\ SuitesInv /\ CountsOK /\ Books /\ Books' /\ tally \in Tallies /\ (Begun \/ GoneOn)
      /\ OnScript /\ Next /\ n \in Nat \ {0} /\ tally.refused \in Nat /\ Cap \in Nat
  BY WithinScenario, DemonstrationAssumption DEF Within, Tallies
<1>2. CASE Begun
  BY <1>1, <1>2, BlankIs DEF Begun, DrainsIt, FirstStep
<1>3. CASE GoneOn
  <2>1. /\ DrainsIt /\ Exact /\ Scenario = "undivided_budget" /\ ~Turn /\ step # "ended"
        /\ calm' /\ period.cap = Cap
    BY <1>3 DEF GoneOn, OnCourse, Within, Promising, Exact
  <2>2. CASE DrainThePool
    BY <2>1, <2>2 DEF DrainThePool, DrainsIt, Goto, Again
  <2>3. CASE TakeTheRest
    <3>1. step = "rest" /\ step' = "bystanders" /\ n' = 1 /\ tally.refused = 0
      BY <1>1, <2>1, <2>3 DEF TakeTheRest, Goto, OnScript, ScenarioOfStep, DrainsIt
    <3>2. tally'.refused = 0
      <4>1. UNCHANGED tally \/ Note("allowed", tally.allowed + 1)
        BY <2>3 DEF TakeTheRest
      <4>2. QED
        BY <1>1, <3>1, <4>1, NoteLeaves
    <3>3. bill.total = period.charged
      <4>1. Early /\ tasks = Idle
        BY <1>1, <2>1, <3>1 DEF Early, Reached, Rank, SuitesInv, BillInv, BurstSteps
      <4>2. QED
        BY <1>1, <2>1, <4>1 DEF Exact, Idle, Books
    <3> DEFINE a == [Plain(Cap - bill.total) EXCEPT !.fix =
                       IF step = "leftover" THEN "rate_limit" ELSE "none"]
    <3>4. CASE bill.total < Cap
      <4>1. PICK failed \in BOOLEAN : Enrich(a, failed)
        BY <2>3, <3>1, <3>4 DEF TakeTheRest
      <4>2. a.lookups = Cap - bill.total /\ a.fix = "none"
        BY <3>1 DEF Plain, Ask
      <4>3. Cap - bill.total \in Nat
        BY <1>1, <3>4 DEF Books
      <4> HIDE DEF a
      <4>4. Asks(a, failed) /\ Passes(a)
        BY <4>1, <4>2, <4>3 DEF Asks, Passes, Counted
      <4>5. period.charged + a.lookups = Cap
        BY <1>1, <3>3, <4>2 DEF Books
      <4>6. period'.charged = Cap /\ period'.cap = Cap
        BY <1>1, <2>1, <4>4, <4>5, CalmAsk
      <4>7. QED
        BY <1>1, <3>1, <3>2, <4>6 DEF DrainsIt, HasMoney
    <3>5. CASE ~(bill.total < Cap)
      <4>1. UNCHANGED moneyVars
        BY <2>3, <3>1, <3>5 DEF TakeTheRest
      <4>2. period' = period /\ period.charged >= Cap
        BY <1>1, <3>3, <3>5, <4>1 DEF moneyVars, Books
      <4>3. QED
        BY <1>1, <2>1, <3>1, <3>2, <4>2 DEF DrainsIt, HasMoney, Books
    <3>6. QED
      BY <3>4, <3>5
  <2>4. CASE AskForBystanders
    <3> DEFINE a == Ask(1, <<Prover, Third>>[n], 1, "none", Spender)
    <3>1. PICK failed \in BOOLEAN :
            /\ Enrich(a, failed)
            /\ IF Served(a, failed) THEN UNCHANGED tally ELSE Note("refused", tally.refused + 1)
      BY <2>4 DEF AskForBystanders
    <3>2. a.fix = "none" /\ a.lookups = 1
      BY DEF Ask
    <3> HIDE DEF a
    <3>3. Asks(a, failed)
      BY <3>1, <3>2 DEF Asks
    <3>4. step = "bystanders" /\ ~HasMoney(1) /\ n \in {1, 2} /\ tally.refused + 1 = n
      BY <2>1, <2>4 DEF DrainsIt, AskForBystanders
    <3>5. ~Served(a, failed)
      BY <3>2, <3>4 DEF Served
    <3>6. tally'.refused = tally.refused + 1
      BY <1>1, <3>1, <3>5, NoteLeaves
    <3>7. period' = period
      BY <1>1, <2>1, <3>3, <3>5, CalmAsk
    <3>8. \/ n = 1 /\ n' = 2 /\ step' = "bystanders"
          \/ n = 2 /\ step' = "judge"
      BY <2>4, <3>4 DEF AskForBystanders, Goto, Again
    <3>9. QED
      BY <1>1, <3>4, <3>6, <3>7, <3>8 DEF DrainsIt, HasMoney
  <2>5. CASE Background
    BY <1>1, <1>3, <2>1, <2>5, BackgroundWithin, BackgroundLeaves DEF DrainsIt
  <2>6. QED
    BY <1>1, <2>1, <2>2, <2>3, <2>4, <2>5, ScenarioMoves
<1>4. QED
  BY <1>1, <1>2, <1>3

(* Shape 4: a held provider keeps the whole burst in flight. *)
LEMMA HoldsStep ==
  ASSUME Within, Scenario' = "in_flight"
  PROVE  HoldsIt'
<1>1. /\ SuitesInv /\ CountsOK /\ Books /\ Books' /\ tally \in Tallies /\ (Begun \/ GoneOn)
      /\ OnScript /\ Next /\ PoolSize \in Nat /\ VerdictsInv
  BY WithinScenario, FixtureNumbers DEF Within
<1>2. CASE Begun
  BY <1>1, <1>2 DEF Begun, HoldsIt, FirstStep
<1>3. CASE GoneOn
  <2>1. /\ HoldsIt /\ Exact /\ Scenario = "in_flight" /\ ~Turn /\ step # "ended"
        /\ calm' /\ mode = "deterministic" /\ fresh
    BY <1>3 DEF GoneOn, OnCourse, Within, Promising
  <2>2. late = {} /\ InFlight = tasks.calling
    <3>1. Early
      BY <2>1 DEF Early, Reached, Rank
    <3>2. late = {}
      BY <2>1, <3>1, WithinScenario DEF Untouched
    <3>3. QED
      BY <1>1, <3>2, FS_EmptySet DEF InFlight, Books
  <2>3. CASE SetUp
    <3>1. PICK failed \in BOOLEAN : Enrich(Plain(1), failed) /\ Note("ok", Served(Plain(1), failed))
      BY <2>3 DEF SetUp
    <3>2. Asks(Plain(1), failed) /\ Plain(1).lookups = 1 /\ Passes(Plain(1))
      BY <3>1 DEF Asks, Plain, Ask, Passes, Counted
    <3>3. period = [charged |-> 0, cap |-> Cap] /\ step' = "hold"
      BY <1>1, <2>1, <2>3 DEF SetUp, VerdictsInv, Truths, HeldTruly, Goto
    <3>4. Served(Plain(1), failed)
      BY <1>1, <2>1, <3>2, <3>3, CalmAsk, FixtureNumbers
    <3>5. tally'.ok
      BY <1>1, <3>1, <3>4, NoteLeaves
    <3>6. QED
      BY <3>3, <3>5 DEF HoldsIt
  <2>4. CASE Hold
    <3>1. /\ step' = "poll" /\ control' = "held" /\ tasks' = [waiting |-> PoolSize, calling |-> 0]
          /\ tally' = tally /\ tally.ok
      BY <2>1, <2>4 DEF Hold, Goto, HoldsIt
    <3>2. QED
      BY <1>1, <3>1 DEF HoldsIt
  <2>5. CASE Poll
    <3>1. /\ tally.ok /\ control = "held" /\ tasks.waiting + tasks.calling <= PoolSize
          /\ step = "poll" /\ control' = control /\ tasks' = tasks
      BY <2>1, <2>5 DEF Poll, HoldsIt, callVars
    <3>2. tally'.ok = tally.ok
      <4>1. Note("peak", Highest)
        BY <2>5 DEF Poll
      <4>2. QED
        BY <1>1, <4>1, NoteLeaves
    <3>3. step' = "poll" \/ (step' = "cheap" /\ tasks.calling >= PoolSize)
      BY <2>1, <2>2, <2>5, <3>1 DEF Poll, Goto
    <3>4. QED
      BY <1>1, <3>1, <3>2, <3>3 DEF HoldsIt, Books
  <2>6. CASE AskTheCheapOne
    <3>1. PICK answered \in BOOLEAN :
            /\ answered => tally.ok /\ (tasks.calling < PoolSize \/ mode = "natural")
            /\ tally' = [tally EXCEPT !.peak = Highest, !.ok = ~answered,
                                      !.truly = tasks.calling = PoolSize]
      BY <2>6 DEF AskTheCheapOne
    <3>2. step = "cheap" /\ step' = "release"
      BY <2>6 DEF AskTheCheapOne, Goto
    <3>3. tasks.calling = PoolSize
      BY <2>1, <3>2 DEF HoldsIt
    <3>4. ~answered
      BY <1>1, <2>1, <3>1, <3>3
    <3>5. Highest >= PoolSize
      BY <1>1, <2>2, <3>3 DEF Highest, Tallies
    <3>6. tally'.ok /\ tally'.peak = Highest
      BY <1>1, <3>1, <3>4 DEF Tallies
    <3>7. QED
      BY <3>2, <3>5, <3>6 DEF HoldsIt
  <2>7. CASE Release
    BY <2>1, <2>7 DEF Release, HoldsIt, Goto
  <2>8. CASE Background
    <3>1. UNCHANGED <<step, tally>>
      BY <1>3, <2>8, BackgroundWithin
    <3>2. CASE LateBill \/ TimePasses
      <4>1. UNCHANGED <<control, tasks>>
        BY <3>2 DEF LateBill, TimePasses, callVars
      <4>2. QED
        BY <2>1, <3>1, <4>1 DEF HoldsIt
    <3>3. CASE TaskCalls
      <4>1. /\ control' = control /\ tasks.waiting > 0 /\ tasks'.waiting = tasks.waiting - 1
            /\ tasks'.calling = tasks.calling + 1 \/ tasks'.calling = tasks.calling
        BY <1>1, <3>3 DEF TaskCalls, Books
      <4>2. QED
        BY <1>1, <2>1, <3>1, <4>1 DEF HoldsIt, Books
    <3>4. CASE TaskEnds
      <4>1. control # "held"
        BY <3>4 DEF TaskEnds
      <4>2. step \notin {"poll", "cheap"}
        BY <2>1, <4>1 DEF HoldsIt
      <4>3. QED
        BY <2>1, <3>1, <4>2 DEF HoldsIt
    <3>5. QED
      BY <2>8, <3>2, <3>3, <3>4 DEF Background
  <2>9. QED
    BY <1>1, <2>1, <2>3, <2>4, <2>5, <2>6, <2>7, <2>8, ScenarioMoves
<1>4. QED
  BY <1>1, <1>2, <1>3

(* Half fix 5: a held call is still under way when the client looks. *)
LEMMA AbandonsStep ==
  ASSUME Within, Scenario' = "deadline"
  PROVE  AbandonsIt'
<1>1. /\ SuitesInv /\ CountsOK /\ Books /\ tally \in Tallies /\ (Begun \/ GoneOn)
      /\ OnScript /\ Next
  BY WithinScenario DEF Within
<1>2. CASE Begun
  BY <1>1, <1>2 DEF Begun, AbandonsIt, FirstStep
<1>3. CASE GoneOn
  <2>1. /\ AbandonsIt /\ Scenario = "deadline" /\ ~Turn /\ step # "ended"
        /\ mode = "deterministic" /\ runs' = runs
    BY <1>3 DEF GoneOn, OnCourse, Promising
  <2>2. CASE Hold
    BY <2>1, <2>2 DEF Hold, AbandonsIt, Goto
  <2>3. CASE SendWithDeadline
    <3>1. control = "held" /\ step' = "look"
      BY <2>1, <2>3 DEF SendWithDeadline, AbandonsIt, Goto
    <3>2. runs \in late' /\ runs \in held' /\ Note("ok", TRUE)
      BY <2>3, <3>1 DEF SendWithDeadline
    <3>3. tally'.ok
      BY <1>1, <3>2, NoteLeaves
    <3>4. QED
      BY <2>1, <3>1, <3>2, <3>3 DEF AbandonsIt
  <2>4. CASE Look
    <3>1. /\ runs \in late /\ tally.ok /\ step' = "release"
          /\ tally' = [tally EXCEPT !.peak = InFlight, !.truly = runs \in late]
      BY <2>1, <2>4 DEF Look, AbandonsIt, Goto
    <3>2. tally'.ok /\ tally'.peak = InFlight
      BY <1>1, <3>1 DEF Tallies
    <3>3. Cardinality(late) \in Nat /\ Cardinality(late) # 0
      BY <1>1, <3>1, FS_EmptySet, FS_CardinalityType DEF CountsOK
    <3>4. InFlight >= 1
      BY <1>1, <3>3 DEF InFlight, Books
    <3>5. QED
      BY <3>1, <3>2, <3>4 DEF AbandonsIt
  <2>5. CASE Release
    BY <2>1, <2>5 DEF Release, AbandonsIt, Goto
  <2>6. CASE Background
    <3>1. UNCHANGED <<step, tally>>
      BY <1>3, <2>6, BackgroundWithin
    <3>2. UNCHANGED <<control, held>> /\ (runs \in late /\ runs \in held => runs \in late')
      BY <2>6 DEF Background, LateBill, TaskCalls, TaskEnds, TimePasses, callVars
    <3>3. QED
      BY <2>1, <3>1, <3>2 DEF AbandonsIt
  <2>7. QED
    BY <1>1, <2>1, <2>2, <2>3, <2>4, <2>5, <2>6, ScenarioMoves
<1>4. QED
  BY <1>1, <1>2, <1>3

(* Multiples of one number are in the order of what it is multiplied by. *)
LEMMA TimesGrow ==
  ASSUME NEW i \in Nat, NEW j \in Nat, NEW b \in Nat \ {0}
  PROVE  /\ i * b \in Nat /\ (i + 1) * b = i * b + b
         /\ i < j => i * b + b <= j * b
         /\ i <= j <=> i * b <= j * b
<1>1. i * b \in Nat /\ (i + 1) * b = i * b + b
  OBVIOUS
<1>2. ASSUME NEW k \in Nat, NEW l \in Nat, k < l
      PROVE  k * b + b <= l * b
  <2>1. PICK d \in Nat : l = k + 1 + d
    <3>1. l - (k + 1) \in Nat /\ l = k + 1 + (l - (k + 1))
      BY <1>2
    <3>2. QED
      BY <3>1
  <2>2. l * b = k * b + b + d * b /\ d * b \in Nat /\ k * b \in Nat
    BY <2>1
  <2>3. QED
    BY <2>2
<1>3. i * b + b <= j * b \/ ~(i < j)
  BY <1>2
<1>4. j * b + b <= i * b \/ ~(j < i)
  BY <1>2
<1>5. i * b \in Nat /\ j * b \in Nat /\ (i = j => i * b = j * b)
  OBVIOUS
<1>6. QED
  BY <1>1, <1>3, <1>4, <1>5

(* Half fix 1: the limiter refuses the one request too many, and nothing else. *)
LEMMA LimitsStep ==
  ASSUME Within, Scenario' = "rate_limit"
  PROVE  LimitsIt'
<1>1. /\ SuitesInv /\ CountsOK /\ LimiterInv /\ Books /\ Books' /\ tally \in Tallies
      /\ (Begun \/ GoneOn) /\ OnScript /\ Next /\ VerdictsInv /\ Untouched
      /\ n \in Nat \ {0} /\ tally.refused \in Nat /\ tally.allowed \in Nat
      /\ Prover \in Keys /\ Spender \in Keys
  BY WithinScenario, TenantsDiffer DEF Within, Tallies, SuitesInv
<1>2. /\ MaxRequests \in Nat /\ Cap \in Nat /\ Batch \in Nat \ {0} /\ MaxRequests <= Cap
      /\ Cap < MaxRequests + (MaxRequests - 1) * Batch
      /\ MaxRequests - 1 \in Nat
  <2>1. /\ MaxRequests \in Nat /\ Cap \in Nat /\ Batch \in Nat \ {0} /\ MaxRequests <= Cap
        /\ Cap < MaxRequests + (MaxRequests - 1) * Batch
    BY FixtureNumbers
  <2>2. MaxRequests # 0
    <3>1. MaxRequests = 0 => (MaxRequests - 1) * Batch = -Batch
      BY <2>1
    <3>2. QED
      BY <2>1, <3>1
  <2>3. QED
    BY <2>1, <2>2
<1>3. CASE Begun
  <2>1. fresh /\ ~Reached(5)
    <3>1. Scenario = "rate_limit" /\ step = "begin" /\ fresh' = fresh
      BY <1>3 DEF Begun, Begin, scriptVars
    <3>2. QED
      BY <3>1 DEF Reached, Rank, Within, Promising
  <2>2. seen'[Prover] = {}
    BY <1>1, <1>3, <2>1 DEF Untouched, Begun
  <2>3. Cardinality(seen'[Prover]) = 0
    BY <2>2, FS_EmptySet
  <2>4. step' = "prove" /\ tally' = Blank /\ n' = 1 /\ period'.charged = 0
    BY <1>3 DEF Begun, FirstStep
  <2>5. QED
    BY <2>3, <2>4, BlankIs DEF LimitsIt
<1>4. CASE GoneOn
  <2>1. /\ LimitsIt /\ Exact /\ Scenario = "rate_limit" /\ ~Turn /\ step # "ended"
        /\ calm /\ calm' /\ fresh /\ period.cap = Cap
    BY <1>4 DEF GoneOn, OnCourse, Within, Promising, Exact
  <2>2. LimitedTruly /\ SpentTruly /\ limited[Prover] \in Nat
    BY <1>1, <2>1 DEF VerdictsInv, Truths, CountsOK
  <2>3. CASE ProveTheLimiter
    <3> DEFINE a == Ask(1, Prover, 1, "rate_limit", Prover)
    <3>1. PICK failed \in BOOLEAN :
            /\ Enrich(a, failed)
            /\ IF Served(a, failed) THEN UNCHANGED tally ELSE Note("refused", tally.refused + 1)
      BY <2>3 DEF ProveTheLimiter
    <3>2. a.fix = "rate_limit" /\ a.tenant = Prover /\ a.lookups = 1 /\ step = "prove"
      BY <2>3 DEF Ask, ProveTheLimiter
    <3> HIDE DEF a
    <3>3. Asks(a, failed)
      BY <1>1, <3>1, <3>2 DEF Asks
    <3>4. /\ tally.refused = 0 /\ period.charged + 1 = n /\ Cardinality(seen[Prover]) < n
          /\ Proving /\ tally.allowed = 0 /\ limited[Prover] = 0 /\ n <= MaxRequests + 1
      BY <1>1, <2>1, <2>2, <3>2 DEF LimitsIt, LimitedTruly, SpentTruly, Proving
    <3>5. CASE n <= MaxRequests
      <4>1. /\ Passes(a) /\ Cardinality(seen'[Prover]) \in Nat
            /\ Cardinality(seen'[Prover]) < n + 1
        BY <1>1, <1>2, <3>2, <3>3, <3>4, <3>5, AskedSeen
      <4>2. period.charged + a.lookups <= period.cap
        BY <1>1, <1>2, <2>1, <3>2, <3>4, <3>5 DEF Books
      <4>3. Served(a, failed) /\ period'.charged = period.charged + 1
        BY <1>1, <2>1, <3>2, <3>3, <4>1, <4>2, CalmAsk
      <4>4. tally' = tally /\ n' = n + 1 /\ step' = step
        BY <2>3, <3>1, <3>5, <4>3 DEF ProveTheLimiter, Again
      <4>5. QED
        BY <1>1, <3>2, <3>4, <4>1, <4>3, <4>4 DEF LimitsIt, Books
    <3>6. CASE ~(n <= MaxRequests)
      <4>1. limited'[Prover] # 0
        BY <1>1, <2>1, <2>3, <3>4, <3>6, ProvingStep
      <4>2. ~Passes(a)
        BY <1>1, <3>2, <3>3, <3>4, <4>1, AskCounts
      <4>3. ~Served(a, failed)
        BY <4>2 DEF Served
      <4>4. period' = period
        BY <1>1, <2>1, <3>3, <4>3, CalmAsk
      <4>5. tally'.refused = 1 /\ tally'.allowed = 0
        BY <1>1, <3>1, <3>4, <4>3, NoteLeaves
      <4>6. step' = "spend" /\ n' = 1
        BY <2>3, <3>6 DEF ProveTheLimiter, Goto
      <4>7. period.charged = MaxRequests /\ 0 * Batch = 0
        BY <1>1, <1>2, <3>4, <3>6 DEF Books
      <4>8. QED
        BY <1>2, <4>4, <4>5, <4>6, <4>7 DEF LimitsIt
    <3>7. QED
      BY <3>5, <3>6
  <2>4. CASE SpendInside
    <3> DEFINE a == Ask(1, Spender, Batch, "rate_limit", Spender)
    <3>1. PICK failed \in BOOLEAN :
            /\ Enrich(a, failed)
            /\ IF Served(a, failed) THEN Note("allowed", tally.allowed + 1) ELSE UNCHANGED tally
            /\ IF Served(a, failed) /\ n < MaxRequests THEN Again ELSE Goto("leftover")
      BY <2>4 DEF SpendInside
    <3>2. a.fix = "rate_limit" /\ a.tenant = Spender /\ a.lookups = Batch /\ step = "spend"
      BY <2>4 DEF Ask, SpendInside
    <3> HIDE DEF a
    <3>3. Asks(a, failed)
      BY <1>1, <1>2, <3>1, <3>2 DEF Asks
    <3>4. /\ tally.refused = 1 /\ n <= MaxRequests /\ tally.allowed + 1 = n
          /\ period.charged = MaxRequests + tally.allowed * Batch
      BY <2>1, <2>2, <3>2 DEF LimitsIt, SpentTruly
    <3>5. PICK spentNow \in Nat, spentNext \in Nat :
            /\ spentNow = tally.allowed * Batch /\ spentNext = (tally.allowed + 1) * Batch
            /\ spentNext = spentNow + Batch
      BY <1>1, <1>2, TimesGrow
    <3>6. /\ tally.allowed < MaxRequests - 1 <=> spentNow < (MaxRequests - 1) * Batch
          /\ tally.allowed + 1 < MaxRequests - 1 <=> spentNext < (MaxRequests - 1) * Batch
      <4>1. /\ MaxRequests - 1 <= tally.allowed <=> (MaxRequests - 1) * Batch <= spentNow
            /\ MaxRequests - 1 <= tally.allowed + 1 <=> (MaxRequests - 1) * Batch <= spentNext
        BY <1>1, <1>2, <3>5, TimesGrow
      <4>2. (MaxRequests - 1) * Batch \in Nat
        BY <1>2, TimesGrow
      <4>3. QED
        BY <1>1, <1>2, <3>5, <4>1, <4>2
    <3>7. spentNow < (MaxRequests - 1) * Batch
      BY <1>1, <1>2, <2>1, <3>4, <3>5 DEF Books
    <3>8. CASE Served(a, failed)
      <4>1. period'.charged = period.charged + Batch /\ period'.cap = period.cap
        BY <1>1, <2>1, <3>2, <3>3, <3>8, CalmAsk
      <4>2. period'.charged = MaxRequests + spentNext
        BY <1>2, <3>4, <3>5, <4>1
      <4>3. spentNext < (MaxRequests - 1) * Batch
        <5>1. period'.charged <= Cap
          BY <1>1, <2>1, <4>1 DEF Books
        <5>2. (MaxRequests - 1) * Batch \in Nat
          BY <1>2, TimesGrow
        <5>3. QED
          BY <1>2, <3>5, <4>2, <5>1, <5>2
      <4>4. n + 1 <= MaxRequests
        BY <1>1, <1>2, <3>4, <3>6, <4>3
      <4>5. n' = n + 1 /\ step' = step
        BY <1>1, <1>2, <3>1, <3>8, <4>4 DEF Again
      <4>6. tally'.allowed = tally.allowed + 1 /\ tally'.refused = tally.refused
        BY <1>1, <3>1, <3>8, NoteLeaves
      <4>7. QED
        BY <3>2, <3>4, <3>5, <4>2, <4>4, <4>5, <4>6 DEF LimitsIt
    <3>9. CASE ~Served(a, failed)
      <4>1. tally' = tally /\ step' = "leftover"
        BY <3>1, <3>9 DEF Goto
      <4>2. QED
        BY <1>1, <1>2, <3>4, <3>6, <3>7, <4>1 DEF LimitsIt
    <3>10. QED
      BY <3>8, <3>9
  <2>5. CASE TakeTheRest
    <3>1. step = "leftover" /\ step' = "judge"
      BY <1>1, <2>1, <2>5 DEF TakeTheRest, Goto, OnScript, ScenarioOfStep
    <3>2. /\ tally.refused = 1 /\ tally.allowed + 1 < MaxRequests
          /\ Cardinality(seen[Spender]) <= tally.allowed + 1
      BY <1>1, <1>2, <2>1, <2>2, <3>1 DEF LimitsIt, SpentTruly
    <3>3. bill.total = period.charged
      <4>1. Early /\ tasks = Idle
        BY <1>1, <2>1, <3>1 DEF Early, Reached, Rank, SuitesInv, BillInv, BurstSteps
      <4>2. QED
        BY <1>1, <2>1, <4>1 DEF Exact, Idle, Books
    <3> DEFINE a == [Plain(Cap - bill.total) EXCEPT !.fix =
                       IF step = "leftover" THEN "rate_limit" ELSE "none"]
    <3>4. CASE bill.total < Cap
      <4>1. (\E failed \in BOOLEAN : Enrich(a, failed)) /\ Note("allowed", tally.allowed + 1)
        BY <1>1, <1>2, <2>5, <3>1, <3>2, <3>4 DEF TakeTheRest
      <4>2. PICK failed \in BOOLEAN : Enrich(a, failed)
        BY <4>1
      <4>3. a.lookups = Cap - bill.total /\ a.fix = "rate_limit" /\ a.tenant = Spender
        BY <3>1 DEF Plain, Ask
      <4>4. Cap - bill.total \in Nat
        BY <1>1, <1>2, <3>4 DEF Books
      <4> HIDE DEF a
      <4>5. Asks(a, failed)
        BY <1>1, <3>1, <4>2, <4>3, <4>4 DEF Asks
      <4>6. Passes(a)
        <5>1. Cardinality(seen[Spender]) \in Nat
          BY <1>1, SeenIsFinite
        <5>2. Cardinality(seen[Spender]) < MaxRequests
          BY <1>1, <1>2, <3>2, <5>1
        <5>3. QED
          BY <1>1, <4>3, <4>5, <5>2, AskedSeen
      <4>7. period.charged + a.lookups = Cap /\ bill.total + a.lookups = Cap
        BY <1>1, <1>2, <3>3, <4>3 DEF Books
      <4>8. bill'.total = Cap
        BY <1>1, <1>2, <2>1, <4>5, <4>6, <4>7, CalmAsk
      <4>9. tally'.allowed = tally.allowed + 1 /\ tally'.refused = tally.refused
        BY <1>1, <4>1, NoteLeaves
      <4>10. QED
        BY <1>1, <1>2, <3>1, <3>2, <4>8, <4>9 DEF LimitsIt
    <3>5. CASE ~(bill.total < Cap)
      <4>1. tally' = tally /\ UNCHANGED moneyVars
        BY <2>5, <3>1, <3>5 DEF TakeTheRest
      <4>2. bill' = bill
        BY <4>1 DEF moneyVars
      <4>3. QED
        BY <1>1, <1>2, <3>1, <3>2, <3>5, <4>1, <4>2 DEF LimitsIt, Books
    <3>6. QED
      BY <3>4, <3>5
  <2>6. CASE Background
    <3>1. UNCHANGED <<step, n, tally, seen>> /\ bill'.total >= bill.total
      BY <1>4, <2>6, BackgroundWithin
    <3>2. step # "judge" => period' = period
      BY <1>1, <1>4, <2>1, <2>6, BackgroundWithin
      DEF BurstSteps, OnScript, ScenarioOfStep
    <3>3. QED
      BY <1>1, <1>2, <2>1, <3>1, <3>2 DEF LimitsIt, Books
  <2>7. QED
    BY <1>1, <2>1, <2>3, <2>4, <2>5, <2>6, ScenarioMoves
<1>5. QED
  BY <1>1, <1>3, <1>4

(* A drain in batches goes on while its key has allowance and the pool money. *)
LEMMA DrainGoes ==
  ASSUME SuitesInv, CountsOK, calm', NEW a, NEW field \in {"first", "second"}, NEW then,
         SpendUntilRefused(a, field, then), a.fix \in Counted, a.lookups = Batch,
         NEW c \in Counters, c = <<a.replica, a.fix, a.key>>
  PROVE  /\ \A f \in {"first", "second"} : f # field => tally'[f] = tally[f]
         /\ \A d \in Counters : d # c => spent'[d] = spent[d]
         /\ spent[c] + Batch <= Allowance /\ period.charged + Batch <= period.cap =>
              /\ spent'[c] = spent[c] + Batch
              /\ period'.charged = period.charged + Batch
              /\ tally'[field] = tally[field] + Batch
              /\ IF n < SpendLimit THEN n' = n + 1 /\ step' = step ELSE n' = 1 /\ step' = then
         /\ ~(spent[c] + Batch <= Allowance /\ period.charged + Batch <= period.cap) =>
              period' = period /\ tally' = tally /\ n' = 1 /\ step' = then
<1>1. Books /\ tally \in Tallies /\ Batch \in Nat /\ a.fix # "rate_limit"
  BY DemonstrationAssumption DEF SuitesInv, BillInv, CountsOK, Counted
<1>2. PICK failed \in BOOLEAN :
        /\ Enrich(a, failed)
        /\ IF Served(a, failed) THEN Note(field, tally[field] + a.lookups) ELSE UNCHANGED tally
        /\ IF Served(a, failed) /\ n < SpendLimit THEN Again ELSE Goto(then)
  BY DEF SpendUntilRefused
<1>3. Asks(a, failed)
  BY <1>1, <1>2 DEF Asks
<1>4. Passes(a) <=> spent[c] + Batch <= Allowance
  BY <1>1 DEF Passes
<1>5. \A d \in Counters :
        spent'[d] = IF Passes(a) /\ d = c THEN spent[d] + Batch ELSE spent[d]
  <2>1. \A d \in Counters :
          spent'[d] = IF /\ a.fix \in Counted /\ Passes(a)
                         /\ d = <<a.replica, a.fix, a.key>>
                      THEN spent[d] + a.lookups ELSE spent[d]
    BY <1>1, <1>3, AskCounts
  <2> HIDE DEF Counters
  <2>2. QED
    BY <2>1
<1>6. /\ Served(a, failed) <=> Passes(a) /\ period.charged + Batch <= period.cap
      /\ Served(a, failed) => period'.charged = period.charged + Batch
      /\ ~Served(a, failed) => period' = period
  BY <1>3, CalmAsk
<1>7. CASE Served(a, failed)
  <2>1. Note(field, tally[field] + Batch)
    BY <1>2, <1>7
  <2>2. /\ tally'[field] = tally[field] + Batch
        /\ \A f \in {"first", "second"} : f # field => tally'[f] = tally[f]
    BY <1>1, <2>1, NoteLeaves
  <2>3. IF n < SpendLimit THEN n' = n + 1 /\ step' = step ELSE n' = 1 /\ step' = then
    BY <1>2, <1>7 DEF Again, Goto
  <2> HIDE DEF Counters
  <2>4. QED
    BY <1>4, <1>5, <1>6, <1>7, <2>2, <2>3
<1>8. CASE ~Served(a, failed)
  <2>1. tally' = tally /\ n' = 1 /\ step' = then
    BY <1>2, <1>8 DEF Goto
  <2> HIDE DEF Counters
  <2>2. QED
    BY <1>4, <1>5, <1>6, <1>8, <2>1
<1>9. QED
  BY <1>7, <1>8

(* A key of its own for every request of the drain that rotates them. *)
LEMMA RotatedCounters ==
  ASSUME NEW k \in 1..SpendLimit
  PROVE  <<1, "caller_keyed", <<"rotated", k>>>> \in Counters
BY DEF Counters, Replicas, Counted, LocalKeys

(* Half fix 3: one key gets its allowance, a new one each time gets past it. *)
LEMMA KeysStep ==
  ASSUME Within, Scenario' = "caller_keyed"
  PROVE  KeysIt'
<1>1. /\ SuitesInv /\ CountsOK /\ Books /\ tally \in Tallies
      /\ (Begun \/ GoneOn) /\ OnScript /\ Next /\ VerdictsInv /\ Untouched /\ step # "ended"
      /\ n \in Nat \ {0} /\ tally.first \in Nat /\ tally.second \in Nat
      /\ \A d \in Counters : spent[d] \in Nat /\ spent[d] <= Allowance
  <2>1. spent \in [Counters -> 0..Allowance] /\ Allowance \in Nat
    BY WithinScenario, FixtureNumbers
  <2>2. \A d \in Counters : spent[d] \in Nat /\ spent[d] <= Allowance
    BY <2>1
  <2>3. QED
    BY <2>2, WithinScenario DEF Within, Tallies
<1>2. /\ Cap \in Nat /\ Allowance \in Nat \ {0} /\ 3 * Allowance <= Cap /\ Batch \in Nat \ {0}
      /\ SpendLimit \in Nat
  BY FixtureNumbers
<1>3. PICK m \in 1..SpendLimit : Allowance = m * Batch /\ 2 * m <= SpendLimit
  BY FixturesAssumption
<1>4. PICK c \in Counters : c = <<1, "caller_keyed", <<"steady", runs>>>>
  BY <1>1, OwnCounters
<1>5. Batch <= Allowance
  <2>1. 1 <= m <=> 1 * Batch <= m * Batch
    BY <1>2, TimesGrow
  <2>2. QED
    BY <1>2, <1>3, <2>1
<1>6. CASE Begun
  <2>1. Scenario = "caller_keyed" /\ step = "begin" /\ fresh
    BY <1>6 DEF Begun, Begin, scriptVars, Within, Promising
  <2>2. ~Reached(6)
    BY <2>1 DEF Reached, Rank
  <2>3. \A d \in Counters : d[2] = "caller_keyed" => spent[d] = 0
    BY <1>1, <2>1, <2>2 DEF Untouched
  <2>4. spent[c] = 0
    BY <1>4, <2>3
  <2>5. ASSUME NEW k \in 1..SpendLimit
        PROVE  spent[1, "caller_keyed", <<"rotated", k>>] = 0
    <3>1. PICK d \in Counters : d = <<1, "caller_keyed", <<"rotated", k>>>>
      BY RotatedCounters
    <3>2. spent[d] = 0
      BY <2>3, <3>1
    <3>3. QED
      BY <3>1, <3>2
  <2>6. /\ step' = "steady" /\ tally' = Blank /\ n' = 1 /\ period'.charged = 0
        /\ spent' = spent /\ runs' = runs
    BY <1>6, <2>1 DEF Begun, FirstStep
  <2>7. n' <= SpendLimit /\ (n' - 1) * Batch = 0
    BY <1>2, <1>3, <2>6
  <2>8. QED
    BY <1>4, <2>4, <2>5, <2>6, <2>7, BlankIs DEF KeysIt
<1>7. CASE GoneOn
  <2>1. /\ KeysIt /\ Exact /\ Scenario = "caller_keyed" /\ ~Turn
        /\ calm' /\ period.cap = Cap /\ runs' = runs
    BY <1>7 DEF GoneOn, OnCourse, Within, Promising, Exact
  <2>2. PICK now \in Nat, next \in Nat :
          /\ now = (n - 1) * Batch /\ next = n * Batch /\ next = now + Batch
          /\ now <= Allowance <=> n - 1 <= m
          /\ next <= Allowance <=> n <= m
    <3>1. n - 1 \in Nat /\ n = (n - 1) + 1
      BY <1>1
    <3>2. /\ (n - 1) * Batch \in Nat /\ n * Batch \in Nat
          /\ ((n - 1) + 1) * Batch = (n - 1) * Batch + Batch
          /\ n - 1 <= m <=> (n - 1) * Batch <= m * Batch
          /\ n <= m <=> n * Batch <= m * Batch
      BY <1>1, <1>2, <3>1, TimesGrow
    <3>3. QED
      BY <1>1, <1>3, <3>1, <3>2
  <2>3. CASE SpendSteadily
    <3> DEFINE a == Ask(1, Spender, Batch, "caller_keyed", <<"steady", runs>>)
    <3>1. /\ step = "steady" /\ SpendUntilRefused(a, "first", "reseed")
          /\ a.fix \in Counted /\ a.lookups = Batch /\ c = <<a.replica, a.fix, a.key>>
      BY <1>4, <2>3 DEF SpendSteadily, Ask, Counted
    <3>2. /\ n <= SpendLimit /\ tally.first = now /\ period.charged = now /\ spent[c] = now
          /\ \A k \in 1..SpendLimit : spent[1, "caller_keyed", <<"rotated", k>>] = 0
      BY <1>4, <2>1, <2>2, <3>1 DEF KeysIt
    <3>3. tally.second = 0
      BY <1>1, <2>1, <3>1 DEF VerdictsInv, Truths, CountedTruly
    <3> HIDE DEF a
    <3>4. /\ tally'.second = tally.second
          /\ \A d \in Counters : d # c => spent'[d] = spent[d]
          /\ spent[c] + Batch <= Allowance /\ period.charged + Batch <= period.cap =>
               /\ spent'[c] = spent[c] + Batch
               /\ period'.charged = period.charged + Batch
               /\ tally'.first = tally.first + Batch
               /\ IF n < SpendLimit THEN n' = n + 1 /\ step' = step
                  ELSE n' = 1 /\ step' = "reseed"
          /\ ~(spent[c] + Batch <= Allowance /\ period.charged + Batch <= period.cap) =>
               period' = period /\ tally' = tally /\ n' = 1 /\ step' = "reseed"
      BY <1>1, <2>1, <3>1, DrainGoes
    <3>5. \A k \in 1..SpendLimit : spent'[1, "caller_keyed", <<"rotated", k>>] = 0
      <4>1. ASSUME NEW k \in 1..SpendLimit
            PROVE  spent'[1, "caller_keyed", <<"rotated", k>>] = 0
        <5>1. PICK d \in Counters : d = <<1, "caller_keyed", <<"rotated", k>>>>
          BY RotatedCounters
        <5>2. d # c
          BY <1>4, <5>1
        <5>3. QED
          BY <3>2, <3>4, <5>1, <5>2
      <4>2. QED
        BY <4>1
    <3>6. CASE n <= m
      <4>1. next <= Allowance /\ next <= Cap /\ n < SpendLimit
        BY <1>1, <1>2, <1>3, <2>2, <3>6
      <4>2. /\ spent'[c] = next /\ period'.charged = next /\ tally'.first = next
            /\ n' = n + 1 /\ step' = "steady"
        BY <2>1, <2>2, <3>1, <3>2, <3>4, <4>1
      <4>3. (n' - 1) * Batch = next /\ n' <= SpendLimit
        BY <1>1, <1>2, <2>2, <4>1, <4>2
      <4>4. QED
        BY <1>4, <2>1, <3>5, <4>2, <4>3 DEF KeysIt
    <3>7. CASE ~(n <= m)
      <4>1. ~(next <= Allowance) /\ now <= Allowance
        <5>1. spent[c] <= Allowance /\ spent[c] = now
          BY <1>1, <3>2
        <5>2. QED
          BY <2>2, <3>7, <5>1
      <4>2. n - 1 = m /\ now = Allowance
        BY <1>1, <1>3, <2>2, <3>7, <4>1
      <4>3. tally' = tally /\ step' = "reseed"
        BY <2>2, <3>2, <3>4, <4>1
      <4>4. QED
        BY <3>2, <3>3, <3>5, <4>2, <4>3 DEF KeysIt
    <3>8. QED
      BY <3>6, <3>7
  <2>4. CASE Reseed
    <3>1. /\ step = "reseed" /\ step' = "rotated" /\ n' = 1 /\ period'.charged = 0
          /\ tally' = tally /\ spent' = spent
      BY <2>4 DEF Reseed, Goto, Seed
    <3>2. /\ tally.first = Allowance /\ tally.second = 0
          /\ \A k \in 1..SpendLimit : spent[1, "caller_keyed", <<"rotated", k>>] = 0
      BY <2>1, <3>1 DEF KeysIt
    <3>3. (n' - 1) * Batch = 0 /\ n' <= SpendLimit
      BY <1>2, <1>3, <3>1
    <3>4. QED
      BY <3>1, <3>2, <3>3 DEF KeysIt
  <2>5. CASE SpendRotating
    <3> DEFINE a == Ask(1, Spender, Batch, "caller_keyed", <<"rotated", n>>)
    <3>1. /\ step = "rotated" /\ SpendUntilRefused(a, "second", "judge")
          /\ a.fix \in Counted /\ a.lookups = Batch
          /\ <<a.replica, a.fix, a.key>> = <<1, "caller_keyed", <<"rotated", n>>>>
      BY <2>5 DEF SpendRotating, Ask, Counted
    <3>2. /\ n <= SpendLimit /\ tally.second = now /\ period.charged = now
          /\ tally.first = Allowance
          /\ \A k \in n..SpendLimit : spent[1, "caller_keyed", <<"rotated", k>>] = 0
      BY <2>1, <2>2, <3>1 DEF KeysIt
    <3>3. PICK d \in Counters : d = <<1, "caller_keyed", <<"rotated", n>>>>
      <4>1. n <= SpendLimit
        BY <3>2
      <4>2. n \in 1..SpendLimit
        BY <1>1, <1>2, <4>1
      <4>3. QED
        BY <4>2, RotatedCounters
    <3>4. spent[d] = 0 /\ spent[d] + Batch <= Allowance
      <4>1. n <= SpendLimit
        BY <3>2
      <4>2. n \in n..SpendLimit
        BY <1>1, <1>2, <4>1
      <4>3. spent[d] = 0
        BY <3>2, <3>3, <4>2
      <4>4. QED
        BY <1>2, <1>5, <4>3
    <3> HIDE DEF a
    <3>5. /\ tally'.first = tally.first
          /\ \A e \in Counters : e # d => spent'[e] = spent[e]
          /\ period.charged + Batch <= period.cap =>
               /\ period'.charged = period.charged + Batch
               /\ tally'.second = tally.second + Batch
               /\ IF n < SpendLimit THEN n' = n + 1 /\ step' = step
                  ELSE n' = 1 /\ step' = "judge"
          /\ ~(period.charged + Batch <= period.cap) =>
               period' = period /\ tally' = tally /\ n' = 1 /\ step' = "judge"
      BY <1>1, <2>1, <3>1, <3>3, <3>4, DrainGoes
    <3>6. CASE next <= Cap /\ n < SpendLimit
      <4>1. /\ period'.charged = next /\ tally'.second = next /\ n' = n + 1 /\ step' = "rotated"
        BY <2>1, <2>2, <3>1, <3>2, <3>5, <3>6
      <4>2. (n' - 1) * Batch = next /\ n' <= SpendLimit
        BY <1>1, <1>2, <2>2, <3>6, <4>1
      <4>3. \A k \in n'..SpendLimit : spent'[1, "caller_keyed", <<"rotated", k>>] = 0
        <5>1. ASSUME NEW k \in (n + 1)..SpendLimit
              PROVE  spent'[1, "caller_keyed", <<"rotated", k>>] = 0
          <6>1. k \in 1..SpendLimit /\ k \in n..SpendLimit /\ k # n
            BY <1>1
          <6>2. PICK e \in Counters : e = <<1, "caller_keyed", <<"rotated", k>>>>
            BY <6>1, RotatedCounters
          <6>3. e # d
            BY <3>3, <6>1, <6>2
          <6>4. QED
            BY <3>2, <3>5, <6>1, <6>2, <6>3
        <5>2. QED
          BY <4>1, <5>1
      <4>4. QED
        BY <3>2, <3>5, <4>1, <4>2, <4>3 DEF KeysIt
    <3>7. CASE next <= Cap /\ ~(n < SpendLimit)
      <4>1. tally'.second = next /\ step' = "judge"
        BY <2>1, <2>2, <3>2, <3>5, <3>7
      <4>2. ~(n <= m)
        BY <1>1, <1>2, <1>3, <3>7
      <4>3. next > Allowance
        BY <1>2, <2>2, <4>2
      <4>4. QED
        BY <3>2, <3>5, <4>1, <4>3 DEF KeysIt
    <3>8. CASE ~(next <= Cap)
      <4>1. tally' = tally /\ step' = "judge"
        BY <2>1, <2>2, <3>2, <3>5, <3>8
      <4>2. now > Allowance
        BY <1>2, <1>5, <2>2, <3>8
      <4>3. QED
        BY <3>2, <4>1, <4>2 DEF KeysIt
    <3>9. QED
      BY <3>6, <3>7, <3>8
  <2>6. CASE Background
    <3>1. UNCHANGED <<step, n, tally, spent, runs>>
      BY <1>7, <2>1, <2>6, BackgroundWithin
    <3>2. step # "judge" => period' = period
      BY <1>1, <1>7, <2>1, <2>6, BackgroundWithin DEF BurstSteps, OnScript, ScenarioOfStep
    <3>3. QED
      BY <2>1, <3>1, <3>2 DEF KeysIt
  <2>7. QED
    BY <1>1, <2>1, <2>3, <2>4, <2>5, <2>6, ScenarioMoves
<1>8. QED
  BY <1>1, <1>6, <1>7

(* Half fix 2: the batches of a drain that takes turns divide evenly. *)
LEMMA SpendsStep ==
  ASSUME Within, Scenario' = "in_process"
  PROVE  SpendsIt'
<1>1. /\ SuitesInv /\ CountsOK /\ Books /\ tally \in Tallies
      /\ (Begun \/ GoneOn) /\ OnScript /\ Next /\ VerdictsInv /\ Untouched /\ step # "ended"
      /\ n \in Nat \ {0} /\ tally.first \in Nat /\ tally.second \in Nat
      /\ \A d \in Counters : spent[d] \in Nat /\ spent[d] <= Allowance
  <2>1. spent \in [Counters -> 0..Allowance] /\ Allowance \in Nat
    BY WithinScenario, FixtureNumbers
  <2>2. \A d \in Counters : spent[d] \in Nat /\ spent[d] <= Allowance
    BY <2>1
  <2>3. QED
    BY <2>2, WithinScenario DEF Within, Tallies
<1>2. /\ Cap \in Nat /\ Allowance \in Nat \ {0} /\ 3 * Allowance <= Cap /\ Batch \in Nat \ {0}
      /\ SpendLimit \in Nat
  BY FixtureNumbers
<1>3. PICK m \in 1..SpendLimit : Allowance = m * Batch /\ 2 * m <= SpendLimit
  BY FixturesAssumption
<1>4. PICK c \in Counters : c = <<1, "in_process", Prover>>
  BY <1>1, OwnCounters
<1>5. PICK c1 \in Counters : c1 = <<1, "in_process", Third>>
  BY <1>1, OwnCounters DEF Replicas
<1>6. PICK c2 \in Counters : c2 = <<2, "in_process", Third>>
  BY <1>1, OwnCounters DEF Replicas
<1>7. c # c1 /\ c # c2 /\ c1 # c2
  BY <1>4, <1>5, <1>6, TenantsDiffer
<1>8. SpendsIt <=>
        /\ step = "single" =>
             /\ n <= SpendLimit
             /\ tally.first = (n - 1) * Batch /\ period.charged = tally.first
             /\ spent[c] = tally.first /\ spent[c1] = 0 /\ spent[c2] = 0
        /\ step \in {"double", "judge"} => tally.first = Allowance
        /\ step = "double" =>
             /\ n <= SpendLimit
             /\ tally.second = (n - 1) * Batch /\ period.charged = Allowance + tally.second
             /\ spent[c1] = (n \div 2) * Batch /\ spent[c2] = ((n - 1) \div 2) * Batch
        /\ step = "judge" => tally.second = 2 * Allowance
  <2>1. (\A p \in Replicas : spent[p, "in_process", Third] = 0) <=> spent[c1] = 0 /\ spent[c2] = 0
    BY <1>5, <1>6 DEF Replicas
  <2>2. n + 1 - 1 = n /\ n + 1 - 2 = n - 1
    BY <1>1
  <2>3. (\A p \in Replicas : spent[p, "in_process", Third] = ((n + 1 - p) \div 2) * Batch)
          <=> /\ spent[c1] = ((n + 1 - 1) \div 2) * Batch
              /\ spent[c2] = ((n + 1 - 2) \div 2) * Batch
    BY <1>5, <1>6 DEF Replicas
  <2>4. QED
    BY <1>4, <2>1, <2>2, <2>3 DEF SpendsIt
<1>9. n' + 1 - 1 = n' /\ n' + 1 - 2 = n' - 1
  <2>1. n' \in Nat
    BY DEF Within, VerdictsInv, CountsOK
  <2>2. \A k \in Nat : k + 1 - 1 = k /\ k + 1 - 2 = k - 1
    OBVIOUS
  <2>3. QED
    BY <2>1, <2>2
<1>10. SUFFICES
         /\ step' = "single" =>
              /\ n' <= SpendLimit
              /\ tally'.first = (n' - 1) * Batch /\ period'.charged = tally'.first
              /\ spent'[c] = tally'.first /\ spent'[c1] = 0 /\ spent'[c2] = 0
         /\ step' \in {"double", "judge"} => tally'.first = Allowance
         /\ step' = "double" =>
              /\ n' <= SpendLimit
              /\ tally'.second = (n' - 1) * Batch /\ period'.charged = Allowance + tally'.second
              /\ spent'[c1] = (n' \div 2) * Batch /\ spent'[c2] = ((n' - 1) \div 2) * Batch
         /\ step' = "judge" => tally'.second = 2 * Allowance
  <2>1. (\A p \in Replicas : spent'[p, "in_process", Third] = 0)
          <=> spent'[c1] = 0 /\ spent'[c2] = 0
    BY <1>5, <1>6 DEF Replicas
  <2>2. (\A p \in Replicas : spent'[p, "in_process", Third] = ((n' + 1 - p) \div 2) * Batch)
          <=> /\ spent'[c1] = ((n' + 1 - 1) \div 2) * Batch
              /\ spent'[c2] = ((n' + 1 - 2) \div 2) * Batch
    BY <1>5, <1>6 DEF Replicas
  <2>3. QED
    BY <1>4, <1>9, <2>1, <2>2 DEF SpendsIt
<1>11. CASE Begun
  <2>1. Scenario = "in_process" /\ step = "begin" /\ fresh
    BY <1>11 DEF Begun, Begin, scriptVars, Within, Promising
  <2>2. ~Reached(9)
    BY <2>1 DEF Reached, Rank
  <2>3. \A d \in Counters : d[2] = "in_process" => spent[d] = 0
    BY <1>1, <2>1, <2>2 DEF Untouched
  <2>4. spent[c] = 0 /\ spent[c1] = 0 /\ spent[c2] = 0
    BY <1>4, <1>5, <1>6, <2>3
  <2>5. step' = "single" /\ tally' = Blank /\ n' = 1 /\ period'.charged = 0 /\ spent' = spent
    BY <1>11, <2>1 DEF Begun, FirstStep
  <2>6. n' <= SpendLimit /\ (n' - 1) * Batch = 0
    BY <1>2, <1>3, <2>5
  <2>7. QED
    BY <2>4, <2>5, <2>6, BlankIs
<1>12. CASE GoneOn
  <2>1. /\ SpendsIt /\ Exact /\ Scenario = "in_process" /\ ~Turn
        /\ calm' /\ period.cap = Cap
    BY <1>12 DEF GoneOn, OnCourse, Within, Promising, Exact
  <2>2. PICK now \in Nat, next \in Nat :
          /\ now = (n - 1) * Batch /\ next = n * Batch /\ next = now + Batch
          /\ now <= Allowance <=> n - 1 <= m
          /\ next <= Allowance <=> n <= m
          /\ now <= 2 * Allowance <=> n - 1 <= 2 * m
          /\ next <= 2 * Allowance <=> n <= 2 * m
          /\ n - 1 = 2 * m => now = 2 * Allowance
    <3>1. n - 1 \in Nat /\ n = (n - 1) + 1 /\ 2 * m \in Nat /\ (2 * m) * Batch = 2 * Allowance
      BY <1>1, <1>2, <1>3
    <3>2. /\ (n - 1) * Batch \in Nat /\ n * Batch \in Nat
          /\ ((n - 1) + 1) * Batch = (n - 1) * Batch + Batch
          /\ n - 1 <= m <=> (n - 1) * Batch <= m * Batch
          /\ n <= m <=> n * Batch <= m * Batch
          /\ n - 1 <= 2 * m <=> (n - 1) * Batch <= (2 * m) * Batch
          /\ n <= 2 * m <=> n * Batch <= (2 * m) * Batch
      BY <1>1, <1>2, <1>3, <3>1, TimesGrow
    <3>3. QED
      BY <1>1, <1>3, <3>1, <3>2
  <2>3. CASE SpendAtOne
    <3> DEFINE a == Ask(1, Prover, Batch, "in_process", Prover)
    <3>1. /\ step = "single" /\ SpendUntilRefused(a, "first", "double")
          /\ a.fix \in Counted /\ a.lookups = Batch /\ c = <<a.replica, a.fix, a.key>>
      BY <1>4, <2>3 DEF SpendAtOne, Ask, Counted
    <3>2. /\ n <= SpendLimit /\ tally.first = now /\ period.charged = now /\ spent[c] = now
          /\ spent[c1] = 0 /\ spent[c2] = 0
      BY <1>8, <2>1, <2>2, <3>1
    <3>3. tally.second = 0
      BY <1>1, <2>1, <3>1 DEF VerdictsInv, Truths, CountedTruly
    <3> HIDE DEF a
    <3>4. /\ tally'.second = tally.second
          /\ \A d \in Counters : d # c => spent'[d] = spent[d]
          /\ spent[c] + Batch <= Allowance /\ period.charged + Batch <= period.cap =>
               /\ spent'[c] = spent[c] + Batch
               /\ period'.charged = period.charged + Batch
               /\ tally'.first = tally.first + Batch
               /\ IF n < SpendLimit THEN n' = n + 1 /\ step' = step
                  ELSE n' = 1 /\ step' = "double"
          /\ ~(spent[c] + Batch <= Allowance /\ period.charged + Batch <= period.cap) =>
               period' = period /\ tally' = tally /\ n' = 1 /\ step' = "double"
      BY <1>1, <2>1, <3>1, DrainGoes
    <3>5. spent'[c1] = 0 /\ spent'[c2] = 0
      BY <1>7, <3>2, <3>4
    <3>6. CASE n <= m
      <4>1. next <= Allowance /\ next <= Cap /\ n < SpendLimit
        BY <1>1, <1>2, <1>3, <2>2, <3>6
      <4>2. /\ spent'[c] = next /\ period'.charged = next /\ tally'.first = next
            /\ n' = n + 1 /\ step' = "single"
        BY <2>1, <2>2, <3>1, <3>2, <3>4, <4>1
      <4>3. (n' - 1) * Batch = next /\ n' <= SpendLimit
        BY <1>1, <1>2, <2>2, <4>1, <4>2
      <4>4. QED
        BY <3>5, <4>2, <4>3
    <3>7. CASE ~(n <= m)
      <4>1. ~(next <= Allowance) /\ now <= Allowance
        <5>1. spent[c] <= Allowance /\ spent[c] = now
          BY <1>1, <3>2
        <5>2. QED
          BY <2>2, <3>7, <5>1
      <4>2. n - 1 = m /\ now = Allowance
        BY <1>1, <1>3, <2>2, <3>7, <4>1
      <4>3. tally' = tally /\ step' = "double" /\ n' = 1 /\ period' = period
        BY <2>2, <3>2, <3>4, <4>1
      <4>4. /\ (n' - 1) * Batch = 0 /\ (n' \div 2) * Batch = 0 /\ ((n' - 1) \div 2) * Batch = 0
            /\ n' <= SpendLimit /\ period'.charged = Allowance + 0
        BY <1>2, <1>3, <3>2, <4>2, <4>3
      <4>5. QED
        BY <3>2, <3>3, <3>5, <4>2, <4>3, <4>4
    <3>8. QED
      BY <3>6, <3>7
  <2>4. CASE SpendAtBoth
    <3> DEFINE r == 1 + ((n - 1) % 2)
               a == Ask(r, Third, Batch, "in_process", Third)
    <3>1. PICK q \in Nat :
            \/ /\ n = 2 * q + 1 /\ r = 1
               /\ n \div 2 = q /\ (n - 1) \div 2 = q
               /\ (n + 1) \div 2 = q + 1
            \/ /\ n = 2 * q + 2 /\ r = 2
               /\ n \div 2 = q + 1 /\ (n - 1) \div 2 = q
               /\ (n + 1) \div 2 = q + 1
      <4>1. (n - 1) \div 2 \in Nat
        BY <1>1
      <4>2. PICK q \in Nat : q = (n - 1) \div 2
        BY <4>1
      <4>3. QED
        BY <1>1, <4>2
    <3>2. PICK d \in {c1, c2} : d = <<r, "in_process", Third>> /\ (d = c1 <=> r = 1)
      BY <1>5, <1>6, <1>7, <3>1
    <3>3. /\ step = "double" /\ SpendUntilRefused(a, "second", "judge")
          /\ a.fix \in Counted /\ a.lookups = Batch /\ d = <<a.replica, a.fix, a.key>>
      BY <2>4, <3>2 DEF SpendAtBoth, Ask, Counted
    <3> HIDE DEF a, r
    <3>4. PICK had \in Nat, gets \in Nat :
            /\ had = q * Batch /\ gets = (q + 1) * Batch /\ gets = had + Batch
            /\ had <= Allowance <=> q <= m
            /\ gets <= Allowance <=> q + 1 <= m
      <4>1. q + 1 \in Nat
        OBVIOUS
      <4>2. /\ q * Batch \in Nat /\ (q + 1) * Batch \in Nat /\ (q + 1) * Batch = q * Batch + Batch
            /\ q <= m <=> q * Batch <= m * Batch
            /\ q + 1 <= m <=> (q + 1) * Batch <= m * Batch
        BY <1>2, <1>3, <4>1, TimesGrow
      <4>3. QED
        BY <1>3, <4>2
    <3>5. /\ n <= SpendLimit /\ tally.second = now /\ period.charged = Allowance + now
          /\ tally.first = Allowance
          /\ spent[c1] = (n \div 2) * Batch /\ spent[c2] = ((n - 1) \div 2) * Batch
      BY <1>8, <2>1, <2>2, <3>3
    <3>6. /\ spent[d] = had /\ d \in Counters
          /\ r = 1 => spent[c1] = had /\ spent[c2] = had
          /\ r = 2 => spent[c1] = gets /\ spent[c2] = had
      BY <3>1, <3>2, <3>4, <3>5
    <3>7. /\ tally'.first = tally.first
          /\ \A e \in Counters : e # d => spent'[e] = spent[e]
          /\ spent[d] + Batch <= Allowance /\ period.charged + Batch <= period.cap =>
               /\ spent'[d] = spent[d] + Batch
               /\ period'.charged = period.charged + Batch
               /\ tally'.second = tally.second + Batch
               /\ IF n < SpendLimit THEN n' = n + 1 /\ step' = step
                  ELSE n' = 1 /\ step' = "judge"
          /\ ~(spent[d] + Batch <= Allowance /\ period.charged + Batch <= period.cap) =>
               period' = period /\ tally' = tally /\ n' = 1 /\ step' = "judge"
      BY <1>1, <2>1, <3>3, <3>6, DrainGoes
    <3>8. spent[c1] <= Allowance /\ spent[c2] <= Allowance
      BY <1>1
    <3>9. CASE n <= 2 * m
      <4>1. q + 1 <= m
        BY <1>1, <3>1, <3>9
      <4>2. gets <= Allowance /\ next <= 2 * Allowance
        BY <2>2, <3>4, <3>9, <4>1
      <4>3. /\ spent[d] + Batch <= Allowance /\ period.charged + Batch <= period.cap
        BY <1>2, <2>1, <2>2, <3>4, <3>5, <3>6, <4>2
      <4>4. /\ spent'[d] = gets /\ period'.charged = Allowance + next /\ tally'.second = next
            /\ IF n < SpendLimit THEN n' = n + 1 /\ step' = "double" ELSE step' = "judge"
        BY <1>2, <2>2, <3>3, <3>4, <3>5, <3>6, <3>7, <4>3
      <4>5. CASE n < SpendLimit
        <5>1. n' = n + 1 /\ step' = "double"
          BY <4>4, <4>5
        <5>2. (n' - 1) * Batch = next /\ n' <= SpendLimit
          BY <1>1, <1>2, <2>2, <4>5, <5>1
        <5>3. n' \div 2 = q + 1 /\ (n' - 1) \div 2 = n \div 2
          <6>1. n' = n + 1 /\ n' - 1 = n
            BY <1>1, <5>1
          <6>2. QED
            BY <3>1, <6>1
        <5>4. spent'[c1] = gets
          BY <1>7, <3>1, <3>2, <3>6, <3>7, <4>4
        <5>5. spent'[c2] = (n \div 2) * Batch
          BY <1>7, <3>1, <3>2, <3>4, <3>6, <3>7, <4>4
        <5>6. QED
          BY <3>4, <3>5, <3>7, <4>4, <5>1, <5>2, <5>3, <5>4, <5>5
      <4>6. CASE ~(n < SpendLimit)
        <5>1. n = 2 * m
          BY <1>1, <1>2, <1>3, <3>9, <4>6
        <5>2. next = 2 * Allowance
          BY <1>2, <1>3, <2>2, <5>1
        <5>3. QED
          BY <3>5, <3>7, <4>4, <4>6, <5>2
      <4>7. QED
        BY <4>5, <4>6
    <3>10. CASE ~(n <= 2 * m)
      <4>1. q <= m
        BY <3>4, <3>6, <3>8
      <4>2. q = m /\ n = 2 * m + 1
        <5>1. CASE r = 1
          BY <1>1, <3>1, <3>10, <4>1, <5>1
        <5>2. CASE r = 2
          <6>1. q + 1 <= m
            BY <3>4, <3>6, <3>8, <5>2
          <6>2. QED
            BY <1>1, <3>1, <3>10, <5>2, <6>1
        <5>3. QED
          BY <3>1, <5>1, <5>2
      <4>3. ~(gets <= Allowance)
        BY <1>3, <3>4, <4>2
      <4>4. tally' = tally /\ step' = "judge"
        BY <3>4, <3>6, <3>7, <4>3
      <4>5. now = 2 * Allowance
        BY <1>1, <1>3, <2>2, <4>2
      <4>6. QED
        BY <3>5, <4>4, <4>5
    <3>11. QED
      BY <3>9, <3>10
  <2>5. CASE Background
    <3>1. UNCHANGED <<step, n, tally, spent>>
      BY <1>12, <2>1, <2>5, BackgroundWithin
    <3>2. step # "judge" => period' = period
      BY <1>1, <1>12, <2>1, <2>5, BackgroundWithin DEF BurstSteps, OnScript, ScenarioOfStep
    <3>3. QED
      BY <1>8, <2>1, <3>1, <3>2
  <2>6. QED
    BY <1>1, <2>1, <2>3, <2>4, <2>5, ScenarioMoves
<1>13. QED
  BY <1>1, <1>11, <1>12

(* A drain that stops where the next batch is too much is near what it asked. *)
LEMMA DrainIsNear ==
  ASSUME NEW b \in Nat, NEW k \in Nat \ {0}, NEW total \in Nat, NEW cap \in Nat,
         NEW carried \in Nat, b <= Batch, carried <= b, total = (k - 1) * b + carried,
         (k - 1) * b + b > cap, cap >= Cap
  PROVE  NearOne(<<total, k * b>>)
<1>1. Batch \in Nat /\ Cap \in Nat /\ Tolerance \in Nat \ {0} /\ Tolerance * Batch <= Cap
  BY FixtureNumbers
<1>2. PICK x \in Nat, y \in Nat : x = (k - 1) * b /\ y = k * b /\ y = x + b
  OBVIOUS
<1>3. PICK d \in Nat : d = y - total /\ d <= Batch
  <2>1. y - total \in Nat /\ y - total <= Batch
    BY <1>1, <1>2
  <2>2. QED
    BY <2>1
<1>4. d * Tolerance <= Tolerance * Batch
  <2>1. d <= Batch <=> d * Tolerance <= Batch * Tolerance
    BY <1>1, TimesGrow
  <2>2. Batch * Tolerance = Tolerance * Batch
    BY <1>1
  <2>3. QED
    BY <1>3, <2>1, <2>2
<1>5. d * Tolerance < y
  <2>1. d * Tolerance \in Nat /\ Tolerance * Batch \in Nat
    BY <1>1, <1>3
  <2>2. QED
    BY <1>1, <1>2, <1>4, <2>1
<1>6. total <= y
  BY <1>2
<1>7. QED
  BY <1>2, <1>3, <1>5, <1>6 DEF NearOne

(* The third control: each drain ends less than a batch short of its cap. *)
LEMMA MeasuresStep ==
  ASSUME Within, Scenario' = "more_capacity"
  PROVE  MeasuresIt'
<1>1. /\ SuitesInv /\ CountsOK /\ BillInv /\ Books /\ Books' /\ tally \in Tallies
      /\ (Begun \/ GoneOn) /\ OnScript /\ Next /\ step # "ended"
      /\ n \in Nat \ {0} /\ tally.ratios \in Seq(Nat \X Nat)
  BY WithinScenario DEF Within, Tallies, SuitesInv
<1>2. /\ Cap \in Nat /\ Cap >= 3 /\ Batch \in Nat \ {0} /\ Abandoned \in Nat
      /\ 2 * Abandoned <= Batch
  BY FixtureNumbers
<1>3. /\ BatchNow \in Nat /\ BatchNow <= Batch /\ Abandoned <= BatchNow
      /\ Len(tally.ratios) \in Nat
  BY <1>1, <1>2 DEF BatchNow
<1>4. CASE Begun
  <2>1. step' = "fill" /\ tally'.ratios = <<>> /\ n' = 1 /\ period' = [charged |-> 0, cap |-> Cap]
    BY <1>4 DEF Begun, FirstStep, Blank
  <2>2. (n' - 1) * BatchNow' = 0 /\ Len(tally'.ratios) = 0
    <3>1. BatchNow' \in Nat
      BY <1>2 DEF BatchNow
    <3>2. \A b \in Nat : (1 - 1) * b = 0
      OBVIOUS
    <3>3. QED
      BY <2>1, <3>1, <3>2
  <2>3. QED
    BY <1>2, <2>1, <2>2 DEF MeasuresIt
<1>5. CASE GoneOn
  <2>1. /\ MeasuresIt /\ Exact /\ Scenario = "more_capacity" /\ ~Turn /\ calm'
    BY <1>5 DEF GoneOn, OnCourse, Within, Promising
  <2>2. \A i \in 1..Len(tally.ratios) : NearOne(tally.ratios[i])
    BY <2>1 DEF MeasuresIt
  <2>3. tally' = tally => BatchNow' = BatchNow
    BY DEF BatchNow, Setting
  <2>4. PICK x \in Nat : x = (n - 1) * BatchNow /\ n * BatchNow = x + BatchNow
    <3>1. n - 1 \in Nat /\ n = (n - 1) + 1
      BY <1>1
    <3>2. PICK k \in Nat : k = n - 1 /\ n = k + 1
      BY <3>1
    <3>3. PICK b \in Nat : b = BatchNow
      BY <1>3
    <3>4. k * b \in Nat /\ (k + 1) * b = k * b + b
      OBVIOUS
    <3>5. QED
      BY <3>2, <3>3, <3>4
  <2>5. CASE FillTheCap
    <3>1. PICK failed \in BOOLEAN :
            /\ Enrich(Plain(BatchNow), failed)
            /\ IF Served(Plain(BatchNow), failed) THEN Again ELSE step' = "measure" /\ UNCHANGED n
      BY <2>5 DEF FillTheCap
    <3>2. /\ Asks(Plain(BatchNow), failed) /\ Plain(BatchNow).lookups = BatchNow
          /\ Passes(Plain(BatchNow))
      BY <1>3, <3>1 DEF Asks, Plain, Ask, Passes, Counted
    <3>3. step = "fill" /\ tally' = tally /\ BatchNow' = BatchNow
      BY <2>3, <2>5 DEF FillTheCap
    <3>4. Len(tally.ratios) < 3 /\ period.cap >= Cap /\ period.charged = x
      BY <2>1, <2>4, <3>3 DEF MeasuresIt
    <3>5. CASE Served(Plain(BatchNow), failed)
      <4>1. period'.charged = x + BatchNow /\ period'.cap = period.cap
        BY <1>1, <2>1, <3>2, <3>4, <3>5, CalmAsk
      <4>2. n' = n + 1 /\ step' = "fill"
        BY <3>1, <3>3, <3>5 DEF Again
      <4>3. (n' - 1) * BatchNow' = x + BatchNow
        <5>1. n' - 1 = n
          BY <1>1, <4>2
        <5>2. QED
          BY <2>4, <3>3, <5>1
      <4>4. QED
        BY <2>2, <3>3, <3>4, <4>1, <4>2, <4>3 DEF MeasuresIt
    <3>6. CASE ~Served(Plain(BatchNow), failed)
      <4>1. /\ period' = period /\ step' = "measure" /\ n' = n
            /\ ~(period.charged + BatchNow <= period.cap)
        BY <1>1, <2>1, <3>1, <3>2, <3>6, CalmAsk
      <4>2. ~HasMoney(BatchNow)'
        BY <3>3, <4>1 DEF HasMoney
      <4>3. QED
        BY <2>2, <2>4, <3>3, <3>4, <4>1, <4>2 DEF MeasuresIt
    <3>7. QED
      BY <3>5, <3>6
  <2>6. CASE Measure
    <3> DEFINE r == <<bill.total, n * BatchNow>>
    <3>1. /\ step = "measure" /\ Len(tally.ratios) < 3 /\ period.cap >= Cap
          /\ period.charged = x /\ ~HasMoney(BatchNow)
      BY <2>1, <2>4, <2>6 DEF MeasuresIt, Measure
    <3>2. tasks = Idle
      BY <1>1, <3>1 DEF BillInv, BurstSteps
    <3>3. bill.total = x + bill.carried /\ bill.carried <= BatchNow
      BY <1>1, <1>2, <1>3, <2>1, <3>1, <3>2 DEF Exact, Idle, Books
    <3>4. x + BatchNow > period.cap
      BY <1>1, <1>3, <3>1 DEF HasMoney, Books
    <3>5. NearOne(r)
      <4>1. PICK b \in Nat, cap \in Nat, carried \in Nat, total \in Nat :
              b = BatchNow /\ cap = period.cap /\ carried = bill.carried /\ total = bill.total
        BY <1>1, <1>3 DEF Books
      <4>2. NearOne(<<total, n * b>>)
        BY <1>1, <1>3, <2>4, <3>1, <3>3, <3>4, <4>1, DrainIsNear
      <4>3. QED
        BY <4>1, <4>2
    <3>6. r \in Nat \X Nat
      <4>1. bill.total \in Nat
        BY <1>1 DEF Books
      <4>2. n * BatchNow \in Nat
        BY <1>3, <2>4
      <4>3. QED
        BY <4>1, <4>2
    <3>7. tally'.ratios = Append(tally.ratios, r)
      <4>1. tally' = [tally EXCEPT !["ratios"] = Append(tally.ratios, r)]
        BY <2>6 DEF Measure, Note
      <4>2. QED
        BY <1>1, <4>1 DEF Tallies
    <3> HIDE DEF r
    <3>8. /\ Len(tally'.ratios) = Len(tally.ratios) + 1
          /\ \A i \in 1..Len(tally.ratios) : tally'.ratios[i] = tally.ratios[i]
          /\ tally'.ratios[Len(tally.ratios) + 1] = r
      BY <1>1, <3>6, <3>7
    <3>9. \A i \in 1..Len(tally'.ratios) : NearOne(tally'.ratios[i])
      <4>1. ASSUME NEW i \in 1..Len(tally'.ratios)
            PROVE  NearOne(tally'.ratios[i])
        <5>1. i \in 1..Len(tally.ratios) \/ i = Len(tally.ratios) + 1
          BY <1>3, <3>8
        <5>2. QED
          BY <2>2, <3>5, <3>8, <5>1
      <4>2. QED
        BY <4>1
    <3>10. CASE Setting = 3
      <4>1. step' = "judge" /\ Len(tally'.ratios) = 3
        BY <1>3, <2>6, <3>8, <3>10 DEF Measure, Goto, Setting
      <4>2. QED
        BY <3>9, <4>1 DEF MeasuresIt
    <3>11. CASE Setting # 3
      <4>1. /\ step' = "fill" /\ n' = 1 /\ period'.charged = 0
            /\ period'.cap = IF Setting = 1 THEN 2 * Cap ELSE Cap
        BY <2>6, <3>11 DEF Measure, Goto, Seed
      <4>2. period'.cap >= Cap /\ Len(tally'.ratios) < 3
        BY <1>2, <1>3, <3>1, <3>8, <3>11, <4>1 DEF Setting
      <4>3. (n' - 1) * BatchNow' = 0
        <5>1. BatchNow' \in Nat
          BY <1>2 DEF BatchNow
        <5>2. \A b \in Nat : (1 - 1) * b = 0
          OBVIOUS
        <5>3. QED
          BY <4>1, <5>1, <5>2
      <4>4. QED
        BY <3>9, <4>1, <4>2, <4>3 DEF MeasuresIt
    <3>12. QED
      BY <3>10, <3>11
  <2>7. CASE Background
    <3>1. UNCHANGED <<step, n, tally>> /\ BatchNow' = BatchNow
      BY <1>5, <2>3, <2>7, BackgroundWithin
    <3>2. step # "judge" => period' = period
      BY <1>1, <1>5, <2>1, <2>7, BackgroundWithin DEF BurstSteps, OnScript, ScenarioOfStep
    <3>3. QED
      BY <2>1, <3>1, <3>2 DEF MeasuresIt, HasMoney
  <2>8. QED
    BY <1>1, <2>1, <2>5, <2>6, <2>7, ScenarioMoves
<1>6. QED
  BY <1>1, <1>4, <1>5

(* Within a scenario a suite stays on course. *)
LEMMA OnCourseStep ==
  ASSUME Within
  PROVE  OnCourse'
<1>1. Exact' /\ (Scenario' = "names_the_work" => NamesIt')
  BY ExactStep, NamesStep
<1>2. /\ Scenario' = "undivided_budget" => DrainsIt'
      /\ Scenario' \in {"expansion", "compressed_size"} => AdmitsIt'
      /\ Scenario' = "in_flight" => HoldsIt'
  BY DrainsStep, AdmitsStep, HoldsStep
<1>3. /\ Scenario' = "rate_limit" => LimitsIt'
      /\ Scenario' = "caller_keyed" => KeysIt'
      /\ Scenario' = "deadline" => AbandonsIt'
  BY LimitsStep, KeysStep, AbandonsStep
<1>4. /\ Scenario' = "in_process" => SpendsIt'
      /\ Scenario' \in {"authorized", "one_of_each"} => ServesIt'
      /\ Scenario' = "more_capacity" => MeasuresIt'
  BY SpendsStep, ServesStep, MeasuresStep
<1>5. QED
  BY <1>1, <1>2, <1>3, <1>4 DEF OnCourse

(* Two drains that get nearly all they ask for are steady beside each other. *)
LEMMA NearAreSteady ==
  ASSUME NEW p \in Nat \X Nat, NEW q \in Nat \X Nat, NearOne(p), NearOne(q)
  PROVE  Steady(p, q)
<1>1. PICK p1 \in Nat, p2 \in Nat, q1 \in Nat, q2 \in Nat, t \in Nat \ {0} :
        p1 = p[1] /\ p2 = p[2] /\ q1 = q[1] /\ q2 = q[2] /\ t = Tolerance
  BY FixtureNumbers
<1>2. p1 <= p2 /\ q1 <= q2 /\ (p2 - p1) * t < p2 /\ (q2 - q1) * t < q2
  BY <1>1 DEF NearOne
<1>3. PICK d \in Nat : d = q2 - q1 /\ q2 = q1 + d /\ d * t < q2
  <2>1. q2 - q1 \in Nat
    BY <1>2
  <2>2. QED
    BY <1>2, <2>1
<1>4. p2 \in Nat \ {0} /\ q2 \in Nat \ {0}
  <2>1. p2 - p1 \in Nat /\ (p2 - p1) * t \in Nat /\ d * t \in Nat
    BY <1>2
  <2>2. QED
    BY <1>2, <1>3, <2>1
<1>5. PICK f \in Nat, e \in Int : f = d * p2 /\ e = p1 * q2 - q1 * p2 /\ e <= f
  <2>1. p1 <= p2 <=> p1 * q2 <= p2 * q2
    BY <1>4, TimesGrow
  <2>2. p2 * q2 = q1 * p2 + d * p2
    <3>1. p2 * (q1 + d) = q1 * p2 + d * p2
      OBVIOUS
    <3>2. QED
      BY <1>3, <3>1
  <2>3. d * p2 \in Nat /\ p1 * q2 \in Nat /\ q1 * p2 \in Nat
    OBVIOUS
  <2>4. QED
    BY <1>2, <2>1, <2>2, <2>3
<1>6. e * t <= f * t
  <2>1. PICK g \in Nat : g = f - e
    <3>1. f - e \in Nat
      BY <1>5
    <3>2. QED
      BY <3>1
  <2>2. g * t \in Nat /\ (e + g) * t = e * t + g * t /\ e + g = f /\ e * t \in Int
    BY <2>1
  <2>3. f * t = e * t + g * t
    BY <2>2
  <2>4. QED
    BY <2>2, <2>3
<1>7. f * t < q2 * p2
  <2>1. PICK x \in Nat : x = d * t
    OBVIOUS
  <2>2. x < q2 => x * p2 + p2 <= q2 * p2
    BY <1>4, TimesGrow
  <2>3. f * t = x * p2
    <3>1. (d * p2) * t = (d * t) * p2
      OBVIOUS
    <3>2. QED
      BY <1>5, <2>1, <3>1
  <2>4. x * p2 \in Nat /\ q2 * p2 \in Nat
    OBVIOUS
  <2>5. QED
    BY <1>3, <1>4, <2>1, <2>2, <2>3, <2>4
<1>8. e * t < p2 * q2
  <2>1. e * t \in Int /\ f * t \in Nat /\ q2 * p2 \in Nat /\ q2 * p2 = p2 * q2
    OBVIOUS
  <2>2. QED
    BY <1>6, <1>7, <2>1
<1>9. QED
  BY <1>1, <1>5, <1>8 DEF Steady

(* A scenario that kept its course reproduces. *)
LEMMA CourseReproduces ==
  ASSUME VerdictsInv, OnCourse, step = "judge"
  PROVE  Reproduced
<1>1. tally \in Tallies /\ 10 * Cap <= Bundle /\ Cap \in Nat /\ Bundle \in Nat
  BY FixtureNumbers DEF VerdictsInv, CountsOK
<1>2. Scenario = "names_the_work" => tally.ok /\ 2 * bill.total >= Cap
  BY DEF OnCourse, NamesIt
<1>3. Scenario = "undivided_budget" => tally.refused = 2
  BY DEF OnCourse, DrainsIt
<1>4. Scenario \in {"expansion", "compressed_size"} => tally.ok /\ tally.first >= 10 * Cap
  BY <1>1 DEF OnCourse, AdmitsIt
<1>5. Scenario = "in_flight" => tally.ok /\ tally.peak >= PoolSize
  BY DEF OnCourse, HoldsIt
<1>6. Scenario = "rate_limit" =>
        tally.refused = 1 /\ tally.allowed < MaxRequests /\ bill.total >= Cap
  BY DEF OnCourse, LimitsIt
<1>7. Scenario = "caller_keyed" => tally.first = Allowance /\ tally.second > Allowance
  BY DEF OnCourse, KeysIt
<1>8. Scenario = "deadline" => tally.ok /\ tally.peak >= 1
  BY DEF OnCourse, AbandonsIt
<1>9. Scenario = "in_process" => tally.first = Allowance /\ tally.second = 2 * Allowance
  BY DEF OnCourse, SpendsIt
<1>10. Scenario \in {"authorized", "one_of_each"} => tally.allowed = Ordinary
  BY DEF OnCourse, ServesIt
<1>11. Scenario = "more_capacity" =>
         \A i, j \in 1..3 : Steady(tally.ratios[i], tally.ratios[j])
  <2>1. SUFFICES ASSUME Scenario = "more_capacity", NEW i \in 1..3, NEW j \in 1..3
                 PROVE  Steady(tally.ratios[i], tally.ratios[j])
    OBVIOUS
  <2>2. /\ Len(tally.ratios) = 3
        /\ \A k \in 1..Len(tally.ratios) : NearOne(tally.ratios[k])
    BY <2>1 DEF OnCourse, MeasuresIt
  <2>3. tally.ratios \in Seq(Nat \X Nat)
    BY <1>1 DEF Tallies
  <2>4. \A k \in 1..3 : tally.ratios[k] \in Nat \X Nat
    BY <2>2, <2>3
  <2>5. QED
    BY <2>2, <2>4, NearAreSteady
<1>12. Scenario \in Names
  <2>1. suite \in DOMAIN Script /\ pos \in 1..Len(Script[suite])
    BY DEF VerdictsInv, OnScript
  <2>2. QED
    BY <2>1, ScriptFacts DEF Scenario
<1>13. QED
  BY <1>2, <1>3, <1>4, <1>5, <1>6, <1>7, <1>8, <1>9, <1>10, <1>11, <1>12
  DEF Reproduced, Names, FirstStep

(* A suite on fresh processes keeps its promise at every step. *)
LEMMA FreshInvStep ==
  ASSUME VerdictsInv, VerdictsInv', FreshInv, [Next]_vars
  PROVE  FreshInv'
<1>1. SuitesInv /\ CountsOK
  BY DEF VerdictsInv
<1>2. CASE Next
  <2>1. step' # "ended" => Untouched'
    BY <1>2, UntouchedStep DEF FreshInv
  <2>2. Promising' => missed' = {}
    <3>1. CASE StartSuite
      BY <3>1 DEF StartSuite
    <3>2. CASE Judge
      <4>1. /\ UNCHANGED <<mode, fresh, calm>> /\ step = "judge"
            /\ missed' = IF Reproduced THEN missed ELSE missed \cup {Scenario}
        BY <3>2 DEF Judge, Judging
      <4>2. Promising' => Promising
        BY <4>1 DEF Promising
      <4>3. Promising => missed = {} /\ OnCourse
        BY <4>1 DEF FreshInv
      <4>4. QED
        BY <4>1, <4>2, <4>3, CourseReproduces
    <3>3. CASE ~StartSuite /\ ~Judge
      <4>1. UNCHANGED scriptVars
        BY <1>1, <1>2, <3>3, ScriptRests DEF Turn, Begin
      <4>2. Promising' => Promising
        BY <1>1, <1>2, <3>3, <4>1, CalmStays DEF Promising, scriptVars
      <4>3. QED
        BY <4>1, <4>2 DEF scriptVars, FreshInv
    <3>4. QED
      BY <3>1, <3>2, <3>3
  <2>3. ASSUME Promising', step' \notin {"begin", "ended"}
        PROVE  OnCourse'
    <3>1. Within
      BY <1>2, <2>3 DEF Within, FreshInv
    <3>2. QED
      BY <3>1, OnCourseStep
  <2>4. QED
    BY <2>1, <2>2, <2>3 DEF FreshInv
<1>3. CASE UNCHANGED vars
  <2>1. /\ UNCHANGED <<suite, mode, pos, runs, missed, fresh>>
        /\ UNCHANGED <<step, n, tally, period, bill, late, held, control, tasks, spent, calm>>
        /\ UNCHANGED seen
    BY <1>3 DEF vars, limiterVars, scriptVars, moneyVars, callVars
  <2>2. Scenario' = Scenario /\ Ordinary' = Ordinary /\ BatchNow' = BatchNow
    BY <2>1 DEF Scenario, Ordinary, BatchNow, Setting
  <2>3. Untouched => Untouched'
    BY <2>1, <2>2 DEF Untouched, Early, Reached
  <2>4. Exact => Exact'
    BY <2>1, <2>2 DEF Exact, Early, Reached
  <2>5. /\ NamesIt => NamesIt'
        /\ DrainsIt => DrainsIt'
        /\ AdmitsIt => AdmitsIt'
        /\ HoldsIt => HoldsIt'
        /\ AbandonsIt => AbandonsIt'
    BY <2>1 DEF NamesIt, DrainsIt, AdmitsIt, HoldsIt, AbandonsIt, HasMoney
  <2>6. LimitsIt => LimitsIt'
    BY <2>1 DEF LimitsIt
  <2>7. KeysIt => KeysIt'
    BY <2>1 DEF KeysIt
  <2>8. SpendsIt => SpendsIt'
    BY <2>1 DEF SpendsIt
  <2>9. ServesIt => ServesIt'
    BY <2>1, <2>2 DEF ServesIt
  <2>10. MeasuresIt => MeasuresIt'
    BY <2>1, <2>2 DEF MeasuresIt, NearOne, HasMoney
  <2>11. OnCourse => OnCourse'
    BY <2>2, <2>4, <2>5, <2>6, <2>7, <2>8, <2>9, <2>10 DEF OnCourse
  <2>12. QED
    BY <2>1, <2>3, <2>11 DEF FreshInv, Promising
<1>4. QED
  BY <1>2, <1>3

(* A suite that finds untouched processes, holds its provider, meets no failure
   and keeps up with the prover's window reproduces every scenario of its
   script, in its order, on the same processes: whatever the cap, the allowance
   and the batch, as long as they fit one another as the fixtures' do.       *)
THEOREM FreshSuitesReproduce == Spec => []FreshSuiteReproduces
<1>1. Init => FreshInv
  BY DEF Init, FreshInv
<1>2. VerdictsInv /\ VerdictsInv' /\ FreshInv /\ [Next]_vars => FreshInv'
  BY FreshInvStep
<1>3. FreshInv => FreshSuiteReproduces
  BY DEF FreshInv, FreshSuiteReproduces, Promising
<1>4. QED
  BY <1>1, <1>2, <1>3, VerdictsInvariant, PTL DEF Spec
=============================================================================
