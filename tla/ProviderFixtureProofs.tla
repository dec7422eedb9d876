----------------------- MODULE ProviderFixtureProofs -----------------------
(***************************************************************************)
(* For any number of calls, tenants, items and seeded runs: the provider's *)
(* bill and its high-water mark are true, whatever holds, delays and       *)
(* resets fall between the steps of its calls. The one thing they rest on  *)
(* beyond themselves is that a call that has been counted has left.        *)
(***************************************************************************)
EXTENDS ProviderFixture, Counting

Books ==
  /\ TypeOK
  /\ counted \subseteq {c \in Calls : place[c] = "answered"}
  /\ seeding = "emptied" => run < Runs
  /\ BillIsWhatWasCharged /\ PeakIsHighWater

LEMMA CallFacts ==
  ASSUME what \in [Calls -> Workload], NEW c \in Calls
  PROVE  what[c].tenant \in Tenants /\ what[c].items \in Nat /\ what[c].items <= MaxItems
BY ProviderAssumption DEF Descriptor

(* One more call, its items more. *)
LEMMA ItemsAdd ==
  ASSUME what \in [Calls -> Workload], NEW S \in SUBSET Calls, NEW c \in Calls, c \notin S
  PROVE  ItemsOf(S) \in Nat /\ ItemsOf(S \cup {c}) = ItemsOf(S) + what[c].items
<1> DEFINE items == [d \in Calls |-> what[d].items]
<1>1. items[c] \in Nat /\ items[c] <= MaxItems /\ MaxItems \in Nat
  BY CallFacts, ProviderAssumption
<1>2. ASSUME NEW A \in SUBSET Calls
      PROVE  ItemsOf(A) = Tally(A, MaxItems, items)
  <2>1. {u \in A \X (1..MaxItems) : u[2] <= what[u[1]].items} = Cells(A, MaxItems, items)
    BY DEF Cells
  <2>2. QED
    BY <2>1 DEF ItemsOf, Tally
<1>3. IsFiniteSet(S)
  BY ProviderAssumption, FS_Subset
<1>4. S \cup {c} \in SUBSET Calls /\ items[c] = what[c].items
  OBVIOUS
<1> HIDE DEF items
<1>5. QED
  BY <1>1, <1>2, <1>3, <1>4, TallyAdds

LEMMA BusyFacts ==
  /\ IsFiniteSet(Busy) /\ Cardinality(Busy) \in Nat
  /\ \A c \in Calls : c \notin Busy => Cardinality(Busy \cup {c}) = Cardinality(Busy) + 1
  /\ \A c \in Busy : Cardinality(Busy \ {c}) = Cardinality(Busy) - 1
<1>1. Busy \in SUBSET Calls
  BY DEF Busy
<1>2. IsFiniteSet(Busy)
  BY <1>1, ProviderAssumption, FS_Subset
<1>3. QED
  BY <1>2, FS_CardinalityType, FS_AddElement, FS_RemoveElement

(* The same calls, the same bill. *)
LEMMA SameBill ==
  ASSUME Books, UNCHANGED bookVars,
         \A c \in counted : what'[c] = what[c]
  PROVE  BillIsWhatWasCharged'
<1>1. \A t \in Tenants : {c \in counted : what[c].tenant = t}' = {c \in counted : what[c].tenant = t}
  BY DEF bookVars
<1>2. ASSUME NEW S \in SUBSET counted
      PROVE  ItemsOf(S)' = ItemsOf(S)
  <2>1. {u \in S \X (1..MaxItems) : u[2] <= what'[u[1]].items}
          = {u \in S \X (1..MaxItems) : u[2] <= what[u[1]].items}
    OBVIOUS
  <2>2. QED
    BY <2>1 DEF ItemsOf
<1>3. \A t \in Tenants : ItemsOf({c \in counted : what[c].tenant = t})'
                           = ItemsOf({c \in counted : what[c].tenant = t})
  <2>1. ASSUME NEW t \in Tenants
        PROVE  ItemsOf({c \in counted : what[c].tenant = t})'
                 = ItemsOf({c \in counted : what[c].tenant = t})
    <3>1. PICK S \in SUBSET counted : S = {c \in counted : what[c].tenant = t}
      OBVIOUS
    <3>2. {c \in counted : what[c].tenant = t}' = S
      BY <1>1, <3>1
    <3>3. ItemsOf({c \in counted : what[c].tenant = t})' = ItemsOf(S)'
      BY <3>2 DEF ItemsOf
    <3>4. QED
      BY <1>2, <3>1, <3>3
  <2>2. QED
    BY <2>1
<1>4. QED
  BY <1>3 DEF Books, BillIsWhatWasCharged, bookVars

LEMMA ArriveKeepsBooks ==
  ASSUME Books, NEW c \in Calls, Arrive(c)
  PROVE  Books'
<1>1. TypeOK /\ inFlight = Cardinality(Busy) /\ peak = busiest
  BY DEF Books, PeakIsHighWater
<1>2. PICK w \in Workload : what' = [what EXCEPT ![c] = w]
  BY DEF Arrive
<1>3. /\ place[c] = "absent" /\ place' = [place EXCEPT ![c] = "yielding"]
      /\ inFlight' = inFlight + 1 /\ peak' = Max2(peak, inFlight + 1)
      /\ busiest' = Max2(busiest, Cardinality(Busy \cup {c}))
      /\ UNCHANGED <<held, slow, ledger, counted, run, seeding>>
  BY DEF Arrive, Occupy, Goto, controlVars, bookVars
<1>4. c \notin Busy /\ Busy' = Busy \cup {c}
  BY <1>1, <1>3 DEF Busy, TypeOK, Inside
<1>5. PeakIsHighWater'
  BY <1>1, <1>3, <1>4, BusyFacts DEF PeakIsHighWater
<1>6. TypeOK'
  BY <1>1, <1>2, <1>3, <1>4, BusyFacts DEF TypeOK, Max2, Places, Inside
<1>7. counted' \subseteq {d \in Calls : place'[d] = "answered"}
  BY <1>1, <1>3 DEF Books, TypeOK
<1>8. BillIsWhatWasCharged'
  <2>1. \A d \in counted : what'[d] = what[d]
    BY <1>1, <1>2, <1>3 DEF Books, TypeOK
  <2>2. QED
    BY <1>3, <2>1, SameBill DEF bookVars
<1>9. QED
  BY <1>3, <1>5, <1>6, <1>7, <1>8 DEF Books

(* A step that charges nobody and lets nobody in or out. *)
LEMMA QuietKeepsBooks ==
  ASSUME Books, TypeOK', UNCHANGED <<what, bookVars, loadVars>>,
         \A c \in Calls : /\ place'[c] \in Inside <=> place[c] \in Inside
                          /\ place'[c] = "answered" <=> place[c] = "answered",
         seeding' = "emptied" => run' < Runs
  PROVE  Books'
<1>1. Busy' = Busy
  BY DEF Busy
<1>2. PeakIsHighWater'
  BY <1>1 DEF Books, PeakIsHighWater, loadVars
<1>3. BillIsWhatWasCharged'
  BY SameBill
<1>4. counted' \subseteq {d \in Calls : place'[d] = "answered"}
  BY DEF Books, bookVars
<1>5. QED
  BY <1>2, <1>3, <1>4 DEF Books

LEMMA ChargeKeepsBooks ==
  ASSUME Books, NEW c \in Calls, ChargeAndAnswer(c), place[c] \in Inside,
         UNCHANGED <<what, controlVars, run, seeding>>
  PROVE  Books'
<1>1. TypeOK /\ inFlight = Cardinality(Busy) /\ peak = busiest
  BY DEF Books, PeakIsHighWater
<1>2. PICK t \in Tenants, k \in Nat : t = what[c].tenant /\ k = what[c].items
  BY <1>1, CallFacts DEF TypeOK
<1>3. /\ ledger' = [ledger EXCEPT ![t] = @ + k] /\ counted' = counted \cup {c}
      /\ inFlight' = inFlight - 1 /\ place' = [place EXCEPT ![c] = "answered"]
      /\ UNCHANGED <<what, peak, busiest, held, slow, run, seeding>>
  BY <1>2 DEF ChargeAndAnswer, Goto, controlVars
<1>4. c \in Busy /\ Busy' = Busy \ {c}
  BY <1>1, <1>3 DEF Busy, TypeOK, Inside
<1>5. PeakIsHighWater' /\ inFlight' \in Nat
  <2>1. Cardinality(Busy \ {c}) = Cardinality(Busy) - 1 /\ Cardinality(Busy \ {c}) \in Nat
    <3>1. Busy \ {c} \in SUBSET Busy
      OBVIOUS
    <3>2. IsFiniteSet(Busy \ {c})
      BY <3>1, BusyFacts, FS_Subset
    <3>3. QED
      BY <1>4, <3>2, BusyFacts, FS_CardinalityType
  <2>2. QED
    BY <1>1, <1>3, <1>4, <2>1 DEF PeakIsHighWater
<1>6. TypeOK'
  BY <1>1, <1>2, <1>3, <1>5 DEF TypeOK, Places
<1>7. counted' \subseteq {d \in Calls : place'[d] = "answered"}
  BY <1>1, <1>3 DEF Books, TypeOK
<1>8. c \notin counted /\ counted \subseteq Calls
  BY DEF Books, Inside
<1>9. BillIsWhatWasCharged'
  <2>1. PICK S \in SUBSET Calls : S = {d \in counted : what[d].tenant = t} /\ c \notin S
    BY <1>8
  <2>2. ledger[t] = ItemsOf(S)
    BY <2>1 DEF Books, BillIsWhatWasCharged
  <2>3. ItemsOf(S \cup {c}) = ItemsOf(S) + k
    BY <1>1, <1>2, <2>1, ItemsAdd DEF TypeOK
  <2>4. {d \in counted : what[d].tenant = t}' = S \cup {c}
    BY <1>2, <1>3, <2>1
  <2>5. ItemsOf({d \in counted : what[d].tenant = t})' = ItemsOf(S \cup {c})
    BY <1>3, <2>4 DEF ItemsOf
  <2>6. ledger'[t] = ItemsOf({d \in counted : what[d].tenant = t})'
    BY <1>1, <1>3, <2>2, <2>3, <2>5 DEF TypeOK
  <2>7. ASSUME NEW u \in Tenants, u # t
        PROVE  ledger'[u] = ItemsOf({d \in counted : what[d].tenant = u})'
    <3>1. {d \in counted : what[d].tenant = u}' = {d \in counted : what[d].tenant = u}
      BY <1>2, <1>3, <2>7
    <3>2. ItemsOf({d \in counted : what[d].tenant = u})' = ItemsOf({d \in counted : what[d].tenant = u})
      BY <1>3, <3>1 DEF ItemsOf
    <3>3. ledger'[u] = ledger[u]
      BY <1>1, <1>3, <2>7 DEF TypeOK
    <3>4. QED
      BY <3>2, <3>3 DEF Books, BillIsWhatWasCharged
  <2>8. QED
    BY <2>6, <2>7 DEF BillIsWhatWasCharged
<1>10. QED
  BY <1>3, <1>5, <1>6, <1>7, <1>9 DEF Books

LEMMA HandlerKeepsBooks ==
  ASSUME Books, NEW c \in Calls, Handler(c)
  PROVE  Books'
<1>1. TypeOK
  BY DEF Books
<1>2. CASE Wait(c)
  <2>1. TypeOK'
    BY <1>1, <1>2 DEF TypeOK, Wait, Goto, loadVars, controlVars, bookVars, Places, Inside
  <2>2. QED
    BY <1>1, <1>2, <2>1, QuietKeepsBooks DEF Books, TypeOK, Wait, Goto, Inside
<1>3. ASSUME Delay(c), place[c] \in {"woken", "yielding"}, UNCHANGED <<what, controlVars, run, seeding>>
      PROVE  Books'
  <2>1. TypeOK'
    BY <1>1, <1>3 DEF TypeOK, Delay, Goto, loadVars, controlVars, bookVars, Places, Inside
  <2>2. QED
    BY <1>1, <1>3, <2>1, QuietKeepsBooks DEF Books, TypeOK, Delay, Goto, Inside
<1>4. CASE Proceed(c)
  BY <1>3, <1>4, ChargeKeepsBooks DEF Proceed, Inside
<1>5. CASE DelayEnds(c)
  BY <1>5, ChargeKeepsBooks DEF DelayEnds, Inside
<1>6. QED
  BY <1>2, <1>4, <1>5 DEF Handler

LEMMA ControlKeepsBooks ==
  ASSUME Books, NEW hold \in BOOLEAN, NEW slowly \in BOOLEAN, SetControl(hold, slowly),
         UNCHANGED <<what, loadVars, bookVars>>, run' \in 0..Runs, seeding' \in {"idle", "emptied"},
         seeding' = "emptied" => run' < Runs
  PROVE  Books'
<1>1. TypeOK
  BY DEF Books
<1>2. /\ place' \in [Calls -> Places]
      /\ \A c \in Calls : /\ place'[c] \in Inside <=> place[c] \in Inside
                          /\ place'[c] = "answered" <=> place[c] = "answered"
  BY <1>1 DEF SetControl, Woken, TypeOK, Places, Inside
<1>3. TypeOK'
  BY <1>1, <1>2 DEF TypeOK, SetControl, loadVars, bookVars
<1>4. QED
  BY <1>2, <1>3, QuietKeepsBooks

LEMMA ItemsOfNobody == ItemsOf({}) = 0
<1>1. {u \in {} \X (1..MaxItems) : u[2] <= what[u[1]].items} = {}
  OBVIOUS
<1>2. QED
  BY <1>1, FS_EmptySet DEF ItemsOf

LEMMA ResetKeepsBooks ==
  ASSUME Books, ResetLedger
  PROVE  Books'
<1>1. TypeOK /\ inFlight = Cardinality(Busy)
  BY DEF Books, PeakIsHighWater
<1>2. /\ ledger' = [t \in Tenants |-> 0] /\ counted' = {}
      /\ peak' = inFlight /\ busiest' = Cardinality(Busy) /\ seeding' = "emptied"
      /\ UNCHANGED <<what, place, inFlight, held, slow, run>>
  BY DEF ResetLedger, controlVars
<1>3. TypeOK'
  BY <1>1, <1>2, BusyFacts DEF TypeOK
<1>4. PeakIsHighWater'
  <2>1. Busy' = Busy
    BY <1>2 DEF Busy
  <2>2. QED
    BY <1>1, <1>2, <2>1 DEF PeakIsHighWater
<1>5. BillIsWhatWasCharged'
  <2>1. ASSUME NEW t \in Tenants
        PROVE  ItemsOf({c \in counted : what[c].tenant = t})' = 0
    <3>1. {c \in counted : what[c].tenant = t}' = {}
      BY <1>2
    <3>2. ItemsOf({c \in counted : what[c].tenant = t})' = ItemsOf({})
      BY <1>2, <3>1 DEF ItemsOf
    <3>3. QED
      BY <3>2, ItemsOfNobody
  <2>2. QED
    BY <1>2, <2>1 DEF BillIsWhatWasCharged
<1>6. QED
  BY <1>2, <1>3, <1>4, <1>5 DEF Books, ResetLedger

LEMMA BooksHold == Spec => []Books
<1>1. Init => Books
  <2>1. SUFFICES ASSUME Init
                 PROVE  Books
    OBVIOUS
  <2>2. TypeOK
    <3>1. (CHOOSE w \in Workload : TRUE) \in Workload /\ Runs \in Nat
      BY ProviderAssumption
    <3>2. what \in [Calls -> Workload]
      <4>1. what = [c \in Calls |-> CHOOSE w \in Workload : TRUE]
        BY <2>1 DEF Init
      <4>2. QED
        BY <3>1, <4>1, Zenon
    <3>3. /\ place \in [Calls -> Places] /\ ledger \in [Tenants -> Nat]
          /\ held \in BOOLEAN /\ slow \in BOOLEAN
      BY <2>1 DEF Init, Places
    <3>4. QED
      BY <2>1, <3>1, <3>2, <3>3 DEF Init, TypeOK
  <2>3. Busy = {} /\ Cardinality(Busy) = 0
    <3>1. Busy = {}
      BY <2>1 DEF Init, Busy, Inside
    <3>2. QED
      BY <3>1, FS_EmptySet
  <2>4. BillIsWhatWasCharged
    <3>1. \A t \in Tenants : {c \in counted : what[c].tenant = t} = {}
      BY <2>1 DEF Init
    <3>2. QED
      BY <2>1, <3>1, ItemsOfNobody DEF Init, BillIsWhatWasCharged
  <2>5. QED
    BY <2>1, <2>2, <2>3, <2>4 DEF Init, Books, PeakIsHighWater
<1>2. Books /\ [Next]_vars => Books'
  <2>1. SUFFICES ASSUME Books, [Next]_vars
                 PROVE  Books'
    OBVIOUS
  <2>2. TypeOK /\ Runs \in Nat
    BY <2>1, ProviderAssumption DEF Books
  <2>3. CASE \E c \in Calls : Arrive(c) \/ Handler(c)
    BY <2>1, <2>3, ArriveKeepsBooks, HandlerKeepsBooks
  <2>4. CASE Control
    BY <2>1, <2>2, <2>4, ControlKeepsBooks DEF Control, TypeOK, Books
  <2>5. CASE ResetLedger
    BY <2>1, <2>5, ResetKeepsBooks
  <2>6. CASE BeginRun
    <3>1. FALSE \in BOOLEAN /\ SetControl(FALSE, FALSE) /\ UNCHANGED <<what, loadVars, bookVars>>
      BY <2>6 DEF BeginRun
    <3>2. run' \in 0..Runs /\ seeding' = "idle"
      BY <2>1, <2>2, <2>6 DEF BeginRun, Books, TypeOK
    <3>3. QED
      BY <2>1, <3>1, <3>2, ControlKeepsBooks
  <2>7. CASE UNCHANGED vars
    <3>1. TypeOK'
      BY <2>2, <2>7 DEF TypeOK, vars, controlVars, bookVars, loadVars
    <3>2. QED
      BY <2>1, <2>7, <3>1, QuietKeepsBooks DEF vars, loadVars, bookVars, Books
  <2>8. QED
    BY <2>1, <2>3, <2>4, <2>5, <2>6, <2>7 DEF Next, Seeding
<1>3. QED
  BY <1>1, <1>2, PTL DEF Spec

(* The bill is what was charged since it was last emptied, each call once and to
   its own tenant, for any number of calls, holds, delays and resets.          *)
THEOREM BillIsTrue == Spec => []BillIsWhatWasCharged
<1>1. Books => BillIsWhatWasCharged
  BY DEF Books
<1>2. QED
  BY <1>1, BooksHold, PTL

(* The peak the application's in-flight bound is judged by is the true one. *)
THEOREM PeakIsTrue == Spec => []PeakIsHighWater
<1>1. Books => PeakIsHighWater
  BY DEF Books
<1>2. QED
  BY <1>1, BooksHold, PTL

(* The fixture's variables keep their types; the occupancy never drops below zero. *)
THEOREM TypeCorrect == Spec => []TypeOK
<1>1. Books => TypeOK
  BY DEF Books
<1>2. QED
  BY <1>1, BooksHold, PTL
=============================================================================
