------------------------ MODULE HarnessRoundsProofs ------------------------
(***************************************************************************)
(* What is proved of HarnessRounds: its type invariant, and the three      *)
(* claims about the harness's verdicts, for every load, every number of    *)
(* rounds and every budget of deadlines and lapses. Base says where the    *)
(* requests of a round are and that what is reserved is what they hold;    *)
(* the claims then weigh the provider's bill against the store.            *)
(***************************************************************************)
EXTENDS HarnessRounds, Counting

-----------------------------------------------------------------------------
(* What the requests of a round are worth *)

Costs(s)           == [i \in DOMAIN Load[s] |-> Load[s][i].cents]
Of(s, t, p, P)     == {i \in DOMAIN Load[s] : Load[s][i].tenant = t /\ p[i] \in P}
Amount(s, t, p, P) == Over(Of(s, t, p, P), Costs(s))

(* The cents of t's requests that are at one of the places of P. *)
In(t, P) == Amount(scenario, t, place, P)

LEMMA Numbers ==
  /\ MinRounds \in Nat /\ MaxRounds \in Nat /\ 1 <= MinRounds /\ MinRounds <= MaxRounds
  /\ Setup \in Nat /\ Allowance \in Nat /\ Setup <= Allowance
  /\ Cap \in Nat /\ Capacity \in Nat /\ MaxDeadlines \in Nat /\ MaxLapses \in Nat
  /\ Spender \in Tenants /\ IsFiniteSet(Tenants) /\ Cardinality(Tenants) \in Nat
<1>1. /\ MaxRounds \in Nat /\ Setup \in Nat /\ Allowance \in Nat /\ Cap \in Nat /\ Capacity \in Nat
      /\ MaxDeadlines \in Nat /\ MaxLapses \in Nat
  BY HarnessAssumption
<1>2. Cardinality(Tenants) \in Nat
  BY HarnessAssumption, FS_CardinalityType
<1>3. QED
  BY <1>1, <1>2, HarnessAssumption

LEMMA LoadType ==
  ASSUME NEW s \in Scenarios
  PROVE  /\ DOMAIN Load[s] = 1..Len(Load[s]) /\ Len(Load[s]) \in Nat
         /\ IsFiniteSet(DOMAIN Load[s]) /\ Cardinality(DOMAIN Load[s]) <= Capacity
         /\ Cardinality(DOMAIN Load[s]) \in Nat
         /\ \A i \in DOMAIN Load[s] :
              /\ Load[s][i] \in WorkSlot
              /\ Load[s][i].tenant \in Tenants
              /\ Load[s][i].cents \in Nat /\ 0 < Load[s][i].cents
              /\ Costs(s)[i] = Load[s][i].cents
<1>1. Load[s] \in Seq(WorkSlot) /\ Len(Load[s]) <= Capacity
  BY HarnessAssumption
<1>2. DOMAIN Load[s] = 1..Len(Load[s]) /\ Len(Load[s]) \in Nat
  BY <1>1
<1>3. \A i \in DOMAIN Load[s] : Load[s][i] \in WorkSlot
  BY <1>1
<1>4. IsFiniteSet(1..Len(Load[s])) /\ Cardinality(1..Len(Load[s])) = Len(Load[s])
  <2>1. IsFiniteSet(1..Len(Load[s]))
        /\ Cardinality(1..Len(Load[s])) = IF 1 > Len(Load[s]) THEN 0 ELSE Len(Load[s]) - 1 + 1
    BY <1>2, FS_Interval
  <2>2. QED
    BY <1>2, <2>1
<1>5. QED
  BY <1>1, <1>2, <1>3, <1>4 DEF WorkSlot, Costs

LEMMA AmountType ==
  ASSUME NEW s \in Scenarios, NEW t, NEW p, NEW P
  PROVE  /\ IsFiniteSet(Of(s, t, p, P)) /\ Amount(s, t, p, P) \in Nat
         /\ Named(s, t) \in Nat /\ Amount(s, t, p, P) <= Named(s, t)
<1> DEFINE All == {j \in DOMAIN Load[s] : Load[s][j].tenant = t}
<1>1. All \in SUBSET (DOMAIN Load[s]) /\ Of(s, t, p, P) \in SUBSET All
  BY DEF Of
<1>2. IsFiniteSet(All) /\ \A x \in All : Costs(s)[x] \in Nat
  BY <1>1, LoadType, FS_Subset
<1>3. IsFiniteSet(Of(s, t, p, P)) /\ \A x \in Of(s, t, p, P) : Costs(s)[x] \in Nat
  BY <1>1, <1>2, FS_Subset
<1>4. Named(s, t) = Over(All, Costs(s))
  BY LoadType DEF Named, Over
<1> HIDE DEF All
<1>5. Over(All, Costs(s)) \in Nat /\ Over(Of(s, t, p, P), Costs(s)) \in Nat
  BY <1>2, <1>3, OverType
<1>6. Over(Of(s, t, p, P), Costs(s)) <= Over(All, Costs(s))
  BY <1>1, <1>2, OverWithin
<1>7. QED
  BY <1>3, <1>4, <1>5, <1>6 DEF Amount

LEMMA AmountNone ==
  ASSUME NEW s \in Scenarios, NEW t, NEW p, NEW P, \A i \in DOMAIN Load[s] : p[i] \notin P
  PROVE  Amount(s, t, p, P) = 0
<1>1. Of(s, t, p, P) = {}
  BY DEF Of
<1>2. QED
  BY <1>1, OverEmpty DEF Amount

(* A request that is not there, and the others, are no more than all of them. *)
LEMMA AmountBeside ==
  ASSUME NEW s \in Scenarios, NEW p, NEW P, NEW i \in DOMAIN Load[s], p[i] \notin P
  PROVE  Amount(s, Load[s][i].tenant, p, P) + Load[s][i].cents <= Named(s, Load[s][i].tenant)
<1> DEFINE t == Load[s][i].tenant
           A == Of(s, t, p, P)
           All == {j \in DOMAIN Load[s] : Load[s][j].tenant = t}
<1>1. A \cup {i} \in SUBSET All /\ i \notin A /\ All \in SUBSET (DOMAIN Load[s])
  BY DEF Of
<1>2. IsFiniteSet(All) /\ \A x \in All : Costs(s)[x] \in Nat
  BY <1>1, LoadType, FS_Subset
<1>3. IsFiniteSet(A) /\ \A x \in A \cup {i} : Costs(s)[x] \in Nat
  BY <1>1, <1>2, AmountType
<1>4. Named(s, t) = Over(All, Costs(s))
  BY LoadType DEF Named, Over
<1> HIDE DEF A, All
<1>5. Over(A \cup {i}, Costs(s)) = Over(A, Costs(s)) + Costs(s)[i]
  BY <1>1, <1>3, OverAdds
<1>6. Over(A \cup {i}, Costs(s)) <= Over(All, Costs(s))
  BY <1>1, <1>2, OverWithin
<1>7. Costs(s)[i] = Load[s][i].cents
  BY LoadType
<1>8. QED
  BY <1>4, <1>5, <1>6, <1>7 DEF Amount, A

Worth(s, t, i, there, P) ==
  IF Load[s][i].tenant = t /\ there \in P THEN Load[s][i].cents ELSE 0

(* One request moves: what it is worth goes from the one place to the other. *)
LEMMA Moves ==
  ASSUME NEW s \in Scenarios, NEW t, NEW P, NEW i \in DOMAIN Load[s],
         NEW p, NEW q,
         \A j \in DOMAIN Load[s] : j # i => q[j] = p[j]
  PROVE  Amount(s, t, q, P) + Worth(s, t, i, p[i], P) = Amount(s, t, p, P) + Worth(s, t, i, q[i], P)
<1> DEFINE A == Of(s, t, p, P)
           B == Of(s, t, q, P)
           f == Costs(s)
<1>1. A \ {i} = B \ {i}
  BY DEF Of
<1>2. (i \in A <=> Load[s][i].tenant = t /\ p[i] \in P) /\ (i \in B <=> Load[s][i].tenant = t /\ q[i] \in P)
  BY DEF Of
<1>3. IsFiniteSet(A) /\ IsFiniteSet(B)
  BY AmountType
<1>4. \A x \in DOMAIN Load[s] : f[x] \in Nat
  BY LoadType
<1>5. A \subseteq DOMAIN Load[s] /\ B \subseteq DOMAIN Load[s]
  BY DEF Of
<1>6. f[i] = Load[s][i].cents /\ Load[s][i].cents \in Nat
  BY LoadType
<1> HIDE DEF A, B, f
<1>7. Over(A \ {i}, f) \in Nat /\ Over(A, f) = Over(A \ {i}, f) + (IF i \in A THEN f[i] ELSE 0)
  BY <1>3, <1>4, <1>5, OverTakes
<1>8. Over(B \ {i}, f) \in Nat /\ Over(B, f) = Over(B \ {i}, f) + (IF i \in B THEN f[i] ELSE 0)
  BY <1>3, <1>4, <1>5, OverTakes
<1>9. Amount(s, t, p, P) = Over(A, f) /\ Amount(s, t, q, P) = Over(B, f)
  BY DEF Amount, A, B, f
<1>10. Over(B \ {i}, f) = Over(A \ {i}, f)
  BY <1>1
<1>11. /\ Worth(s, t, i, p[i], P) = (IF i \in A THEN f[i] ELSE 0)
       /\ Worth(s, t, i, q[i], P) = (IF i \in B THEN f[i] ELSE 0)
  BY <1>2, <1>6 DEF Worth
<1>12. QED
  BY <1>6, <1>7, <1>8, <1>9, <1>10, <1>11

-----------------------------------------------------------------------------
(* What abandoned calls are worth *)

AllLate == [scenario: Scenarios, round: Nat, slot: Nat, tenant: Tenants, cents: Nat]
LateCents == [x \in AllLate |-> x.cents]
Owing(s, t, l) == {x \in l : x.scenario = s /\ x.tenant = t}

(* The cents of t's calls that this scenario abandoned and that are not billed. *)
Owed(t) == Over(Owing(scenario, t, late), LateCents)

LEMMA OwedType ==
  ASSUME NEW l, IsFiniteSet(l), l \subseteq AllLate, NEW s, NEW t
  PROVE  /\ IsFiniteSet(Owing(s, t, l)) /\ Over(Owing(s, t, l), LateCents) \in Nat
         /\ \A x \in l : LateCents[x] = x.cents /\ x.cents \in Nat
<1>1. \A x \in l : LateCents[x] = x.cents /\ x.cents \in Nat
  BY DEF LateCents, AllLate
<1>2. Owing(s, t, l) \in SUBSET l
  BY DEF Owing
<1>3. IsFiniteSet(Owing(s, t, l))
  BY <1>2, FS_Subset
<1>4. \A x \in Owing(s, t, l) : LateCents[x] \in Nat
  BY <1>1, <1>2
<1>5. QED
  BY <1>1, <1>3, <1>4, OverType

(* One call less: its cents less, where it counted. *)
LEMMA OwedDrops ==
  ASSUME NEW l, IsFiniteSet(l), l \subseteq AllLate, NEW s, NEW t, NEW x \in l
  PROVE  Over(Owing(s, t, l), LateCents)
           = Over(Owing(s, t, l \ {x}), LateCents)
               + (IF x.scenario = s /\ x.tenant = t THEN x.cents ELSE 0)
<1> DEFINE A == Owing(s, t, l)
<1>1. Owing(s, t, l \ {x}) = A \ {x}
  BY DEF Owing
<1>2. x \in A <=> x.scenario = s /\ x.tenant = t
  BY DEF Owing
<1>3. IsFiniteSet(A) /\ \A y \in l : LateCents[y] = y.cents /\ y.cents \in Nat
  BY OwedType
<1>4. A \subseteq l
  BY DEF Owing
<1> HIDE DEF A
<1>5. Over(A, LateCents) = Over(A \ {x}, LateCents) + (IF x \in A THEN LateCents[x] ELSE 0)
  BY <1>3, <1>4, OverTakes
<1>6. QED
  BY <1>1, <1>2, <1>3, <1>5 DEF A

(* One call more: at most its cents more. *)
LEMMA OwedAdds ==
  ASSUME NEW l, IsFiniteSet(l), l \subseteq AllLate, NEW s, NEW t, NEW x \in AllLate
  PROVE  Over(Owing(s, t, l \cup {x}), LateCents)
           <= Over(Owing(s, t, l), LateCents)
               + (IF x.scenario = s /\ x.tenant = t THEN x.cents ELSE 0)
<1>1. IsFiniteSet(l \cup {x}) /\ l \cup {x} \subseteq AllLate
  BY FS_AddElement
<1>2. Over(Owing(s, t, l \cup {x}), LateCents)
        = Over(Owing(s, t, (l \cup {x}) \ {x}), LateCents)
            + (IF x.scenario = s /\ x.tenant = t THEN x.cents ELSE 0)
  <2> DEFINE m == l \cup {x}
  <2>1. IsFiniteSet(m) /\ m \subseteq AllLate /\ x \in m
    BY <1>1
  <2> HIDE DEF m
  <2>2. Over(Owing(s, t, m), LateCents)
        = Over(Owing(s, t, m \ {x}), LateCents)
            + (IF x.scenario = s /\ x.tenant = t THEN x.cents ELSE 0)
    BY <2>1, OwedDrops
  <2>3. QED
    BY <2>2 DEF m
<1>3. Over(Owing(s, t, (l \cup {x}) \ {x}), LateCents) <= Over(Owing(s, t, l), LateCents)
  <2>1. Owing(s, t, (l \cup {x}) \ {x}) \in SUBSET Owing(s, t, l)
    BY DEF Owing
  <2>2. Owing(s, t, l) \subseteq l
    BY DEF Owing
  <2>3. IsFiniteSet(Owing(s, t, l)) /\ \A y \in Owing(s, t, l) : LateCents[y] \in Nat
    BY <2>2, OwedType
  <2>4. QED
    BY <2>1, <2>3, OverWithin
<1>4. /\ Over(Owing(s, t, l), LateCents) \in Nat
      /\ Over(Owing(s, t, (l \cup {x}) \ {x}), LateCents) \in Nat
      /\ x.cents \in Nat
  <2>1. IsFiniteSet((l \cup {x}) \ {x}) /\ (l \cup {x}) \ {x} \subseteq AllLate
    BY <1>1, FS_RemoveElement
  <2>2. x.cents \in Nat
    BY DEF AllLate
  <2>3. QED
    BY <2>1, <2>2, OwedType
<1>5. QED
  BY <1>2, <1>3, <1>4

-----------------------------------------------------------------------------
(* The spender's load in the second scenario, and how many rounds there are *)

LEMMA SpenderLoad ==
  ASSUME scenario = "isolation"
  PROVE  /\ OneRequest \in Nat /\ 0 < OneRequest
         /\ \A i \in SpenderSlots : Cents(i) = OneRequest
         /\ RoundCents \in Nat /\ 0 < RoundCents
         /\ Named(scenario, Spender) = RoundCents
<1>1. scenario \in Scenarios /\ Slots = DOMAIN Load["isolation"]
  BY DEF Scenarios, Slots
<1>2. PICK i \in Slots :
        /\ Tenant(i) = Spender
        /\ \A j \in Slots : Tenant(j) = Spender => Load[scenario][j] = Load[scenario][i]
  BY <1>1, HarnessAssumption DEF Tenant
<1>3. i \in SpenderSlots
  BY <1>2 DEF SpenderSlots
<1>4. (CHOOSE j \in SpenderSlots : TRUE) \in SpenderSlots
  BY <1>3
<1>5. \A j \in SpenderSlots : j \in Slots /\ Cents(j) = Cents(i)
  BY <1>2 DEF SpenderSlots, Cents
<1>6. OneRequest = Cents(i)
  BY <1>4, <1>5 DEF OneRequest
<1>7. Cents(i) \in Nat /\ 0 < Cents(i)
  BY <1>1, <1>2, LoadType DEF Cents
<1>8. SpenderSlots \in SUBSET Slots /\ IsFiniteSet(Slots)
  BY <1>1, LoadType DEF SpenderSlots
<1>9. IsFiniteSet(SpenderSlots) /\ Cardinality(SpenderSlots) \in Nat /\ Cardinality(SpenderSlots) # 0
  BY <1>3, <1>8, FS_Subset, FS_CardinalityType, FS_EmptySet
<1>10. RoundCents \in Nat /\ 0 < RoundCents
  <2> DEFINE k == Cardinality(SpenderSlots)
             c == OneRequest
  <2>1. k \in Nat \ {0} /\ c \in Nat \ {0}
    BY <1>6, <1>7, <1>9
  <2> HIDE DEF k, c
  <2>2. k * c \in Nat /\ k * c # 0
    BY <2>1
  <2>3. QED
    BY <2>2 DEF RoundCents, k, c
<1>11. Named(scenario, Spender) = RoundCents
  <2>1. \A j \in SpenderSlots : Costs(scenario)[j] = OneRequest
    BY <1>5, <1>6 DEF Costs, Cents, Slots
  <2>2. Over(SpenderSlots, Costs(scenario)) = Cardinality(SpenderSlots) * OneRequest
    BY <1>6, <1>7, <1>9, <2>1, OverConstant
  <2>3. Named(scenario, Spender) = Over(SpenderSlots, Costs(scenario))
    BY <1>8 DEF Named, Over, SpenderSlots, Slots, Tenant, Costs
  <2>4. QED
    BY <2>2, <2>3 DEF RoundCents
<1>12. QED
  BY <1>5, <1>6, <1>7, <1>10, <1>11

LEMMA RoundsType ==
  ASSUME scenario \in Scenarios
  PROVE  /\ Rounds \in 1..MaxRounds
         /\ scenario = "legitimate" => Rounds = MinRounds
<1>1. MinRounds \in Nat /\ 1 <= MinRounds /\ MinRounds <= MaxRounds /\ MaxRounds \in Nat /\ Allowance \in Nat
  BY HarnessAssumption
<1>2. CASE scenario = "legitimate"
  BY <1>1, <1>2 DEF Rounds
<1>3. CASE scenario # "legitimate"
  <2> DEFINE r == RoundCents
             x == (Allowance + r - 1) \div r + 1
  <2>1. r \in Nat /\ 0 < r
    BY <1>3, SpenderLoad DEF Scenarios
  <2> HIDE DEF r
  <2>2. x \in Int
    BY <1>1, <2>1
  <2>3. Rounds = Least(MaxRounds, Greatest(MinRounds, x))
    BY <1>3 DEF Rounds, x, r
  <2> HIDE DEF x
  <2>4. QED
    BY <1>1, <1>3, <2>2, <2>3 DEF Least, Greatest
<1>4. QED
  BY <1>2, <1>3

-----------------------------------------------------------------------------
(* Where the requests of a round are *)

Holding == {"held", "calling", "billed"}
Unheld  == {"freed", "free"}
Served  == Holding \cup {"ok"}
After   == {"ledger", "stats", "usage", "judging"}
Looking == {"stats", "usage", "judging"}

(* A round is judged when all of it is answered, and seeded before any of it is
   sent; abandoned calls belong to this scenario or to the one before.       *)
Structure ==
  /\ stage \in After => Gathered
  /\ stage \in {"preparing", "done"} => \A i \in Slots : place[i] = "starting"
  /\ stage = "judging" => reading.left = {}
  /\ stage # "preparing" => round \in 1..Rounds
  /\ IsFiniteSet(late) /\ late \subseteq AllLate
  /\ \A x \in late : /\ scenario = "legitimate" => x.scenario = "legitimate"
                     /\ stage = "preparing" => x.scenario # scenario

(* What the store holds is what the requests with a hold are worth. *)
Reserved == \A t \in Tenants : account[t].reserved = In(t, Holding)

(* What is committed does not move while it is read. *)
Seen == \A t \in Tenants :
  stage \in Looking /\ t \notin reading.left => reading.usage[t] = account[t].committed

Base == TypeOK /\ Structure /\ Reserved /\ Seen

Due(i, t) == IF Tenant(i) = t THEN Cents(i) ELSE 0

LEMMA SlotType ==
  ASSUME TypeOK
  PROVE  /\ scenario \in Scenarios /\ Slots = DOMAIN Load[scenario] /\ IsFiniteSet(Slots)
         /\ \A i \in Slots : /\ Tenant(i) \in Tenants /\ Cents(i) \in Nat /\ 0 < Cents(i)
                             /\ \A t : Due(i, t) \in Nat
BY LoadType DEF TypeOK, Slots, Tenant, Cents, Due

LEMMA InType ==
  ASSUME TypeOK, NEW t, NEW P
  PROVE  /\ In(t, P) \in Nat /\ In(t, P) <= Named(scenario, t) /\ Named(scenario, t) \in Nat
         /\ (\A i \in Slots : place[i] \notin P) => In(t, P) = 0
BY SlotType, AmountType, AmountNone DEF In

LEMMA MovesIn ==
  ASSUME TypeOK, NEW i \in Slots, NEW there \in Places, Goto(i, there), UNCHANGED scenario,
         NEW t \in Tenants, NEW P
  PROVE  /\ In(t, P) \in Nat /\ In(t, P)' \in Nat
         /\ In(t, P)' + (IF place[i] \in P THEN Due(i, t) ELSE 0)
              = In(t, P) + (IF there \in P THEN Due(i, t) ELSE 0)
<1>1. scenario \in Scenarios /\ i \in DOMAIN Load[scenario] /\ place \in [DOMAIN Load[scenario] -> Places]
  BY SlotType DEF TypeOK
<1>2. place' = [place EXCEPT ![i] = there]
  BY DEF Goto
<1>3. PICK s \in Scenarios : s = scenario
  BY <1>1
<1>4. PICK p \in [DOMAIN Load[s] -> Places] : p = place
  BY <1>1, <1>3
<1>5. PICK q \in [DOMAIN Load[s] -> Places] : q = place' /\ q = [p EXCEPT ![i] = there]
  BY <1>2, <1>3, <1>4
<1>6. i \in DOMAIN Load[s]
  BY <1>1, <1>3
<1> DEFINE d == IF Load[s][i].tenant = t THEN Load[s][i].cents ELSE 0
<1>7. /\ Amount(s, t, p, P) \in Nat /\ Amount(s, t, q, P) \in Nat
      /\ Amount(s, t, q, P) + (IF p[i] \in P THEN d ELSE 0)
           = Amount(s, t, p, P) + (IF there \in P THEN d ELSE 0)
  <2>1. \A j \in DOMAIN Load[s] : j # i => q[j] = p[j]
    BY <1>5
  <2>2. q[i] = there
    BY <1>5, <1>6
  <2>3. /\ Amount(s, t, p, P) \in Nat /\ Amount(s, t, q, P) \in Nat
        /\ Amount(s, t, q, P) + (IF p[i] \in P THEN d ELSE 0)
             = Amount(s, t, p, P) + (IF q[i] \in P THEN d ELSE 0)
    <3>1. Amount(s, t, p, P) \in Nat /\ Amount(s, t, q, P) \in Nat
      BY <1>3, AmountType
    <3>2. Amount(s, t, q, P) + Worth(s, t, i, p[i], P) = Amount(s, t, p, P) + Worth(s, t, i, q[i], P)
      BY <1>3, <1>6, <2>1, Moves
    <3>3. QED
      BY <3>1, <3>2 DEF Worth
  <2>4. QED
    BY <2>2, <2>3
<1>8. In(t, P) = Amount(s, t, p, P) /\ In(t, P)' = Amount(s, t, q, P)
  BY <1>3, <1>4, <1>5 DEF In
<1>9. Due(i, t) = d
  BY <1>3 DEF Due, Tenant, Cents
<1> HIDE DEF d
<1>10. QED
  BY <1>4, <1>7, <1>8, <1>9

(* A request moves: the four sums the claims are about. *)
LEMMA MovesAll ==
  ASSUME TypeOK, NEW i \in Slots, NEW there \in Places, Goto(i, there), UNCHANGED scenario,
         NEW t \in Tenants
  PROVE  /\ Due(i, t) \in Nat
         /\ In(t, Holding) \in Nat /\ In(t, Holding)' \in Nat
         /\ In(t, Holding)' + (IF place[i] \in Holding THEN Due(i, t) ELSE 0)
              = In(t, Holding) + (IF there \in Holding THEN Due(i, t) ELSE 0)
         /\ In(t, {"billed"}) \in Nat /\ In(t, {"billed"})' \in Nat
         /\ In(t, {"billed"})' + (IF place[i] = "billed" THEN Due(i, t) ELSE 0)
              = In(t, {"billed"}) + (IF there = "billed" THEN Due(i, t) ELSE 0)
         /\ In(t, Unheld) \in Nat /\ In(t, Unheld)' \in Nat
         /\ In(t, Unheld)' + (IF place[i] \in Unheld THEN Due(i, t) ELSE 0)
              = In(t, Unheld) + (IF there \in Unheld THEN Due(i, t) ELSE 0)
         /\ In(t, Served) \in Nat /\ In(t, Served)' \in Nat
         /\ In(t, Served)' + (IF place[i] \in Served THEN Due(i, t) ELSE 0)
              = In(t, Served) + (IF there \in Served THEN Due(i, t) ELSE 0)
<1>1. Due(i, t) \in Nat
  BY SlotType
<1>2. /\ In(t, {"billed"}) \in Nat /\ In(t, {"billed"})' \in Nat
      /\ In(t, {"billed"})' + (IF place[i] \in {"billed"} THEN Due(i, t) ELSE 0)
           = In(t, {"billed"}) + (IF there \in {"billed"} THEN Due(i, t) ELSE 0)
  BY MovesIn
<1>3. /\ In(t, Holding) \in Nat /\ In(t, Holding)' \in Nat
      /\ In(t, Holding)' + (IF place[i] \in Holding THEN Due(i, t) ELSE 0)
           = In(t, Holding) + (IF there \in Holding THEN Due(i, t) ELSE 0)
  BY MovesIn DEF Holding
<1>4. /\ In(t, Unheld) \in Nat /\ In(t, Unheld)' \in Nat
      /\ In(t, Unheld)' + (IF place[i] \in Unheld THEN Due(i, t) ELSE 0)
           = In(t, Unheld) + (IF there \in Unheld THEN Due(i, t) ELSE 0)
  BY MovesIn DEF Unheld
<1>5. /\ In(t, Served) \in Nat /\ In(t, Served)' \in Nat
      /\ In(t, Served)' + (IF place[i] \in Served THEN Due(i, t) ELSE 0)
           = In(t, Served) + (IF there \in Served THEN Due(i, t) ELSE 0)
  BY MovesIn DEF Served, Holding
<1>6. (place[i] \in {"billed"} <=> place[i] = "billed") /\ (there \in {"billed"} <=> there = "billed")
  OBVIOUS
<1>7. QED
  BY <1>1, <1>2, <1>3, <1>4, <1>5, <1>6

(* Nothing moves. *)
LEMMA StaysIn ==
  ASSUME UNCHANGED <<scenario, place>>
  PROVE  \A t, P : In(t, P)' = In(t, P)
BY DEF In

LEMMA HoldAccount ==
  ASSUME TypeOK, NEW i \in Slots, Hold(i)
  PROVE  /\ account' \in [Tenants -> [reserved: Nat, committed: Nat]]
         /\ \A t \in Tenants : /\ account'[t].reserved = account[t].reserved + Due(i, t)
                               /\ account'[t].committed = account[t].committed
BY SlotType DEF TypeOK, Hold, Due

LEMMA ChargeAccount ==
  ASSUME TypeOK, NEW i \in Slots, Charge(i), Cents(i) <= account[Tenant(i)].reserved
  PROVE  /\ account' \in [Tenants -> [reserved: Nat, committed: Nat]]
         /\ \A t \in Tenants : /\ account'[t].reserved = account[t].reserved - Due(i, t)
                               /\ account'[t].committed = account[t].committed + Due(i, t)
BY SlotType DEF TypeOK, Charge, Due

LEMMA RoundsKept ==
  ASSUME UNCHANGED scenario
  PROVE  Rounds' = Rounds /\ Slots' = Slots
<1>1. Slots' = Slots
  BY DEF Slots
<1>2. SpenderSlots' = SpenderSlots
  BY <1>1 DEF SpenderSlots, Tenant
<1>3. OneRequest' = OneRequest
  BY <1>2 DEF OneRequest, Cents
<1>4. RoundCents' = RoundCents
  BY <1>2, <1>3 DEF RoundCents
<1>5. QED
  BY <1>1, <1>4 DEF Rounds

(* A request that is under way is under way while the round is. *)
LEMMA UnderWay ==
  ASSUME Base, NEW i \in Slots, place[i] \notin Answers, place[i] # "starting"
  PROVE  stage = "sending"
BY DEF Base, Structure, Gathered, TypeOK, Stages, After

LEMMA SendingKeeps ==
  ASSUME Base, stage = "sending", UNCHANGED engineVars, IsFiniteSet(late'), late' \subseteq AllLate,
         \A x \in late' : x \in late \/ x.scenario = scenario
  PROVE  Structure' /\ Seen'
<1>1. Rounds' = Rounds
  BY RoundsKept DEF engineVars
<1>2. round' \in 1..Rounds'
  BY <1>1 DEF Base, Structure, engineVars
<1>3. \A x \in late' : scenario' = "legitimate" => x.scenario = "legitimate"
  BY DEF Base, Structure, engineVars
<1>4. stage' = "sending"
  BY DEF engineVars
<1>5. Structure'
  BY <1>2, <1>3, <1>4 DEF Structure, After
<1>6. Seen'
  BY <1>4 DEF Seen, Looking
<1>7. QED
  BY <1>5, <1>6

LEMMA BaseLate ==
  ASSUME Base
  PROVE  IsFiniteSet(late) /\ late \subseteq AllLate
BY DEF Base, Structure

LEMMA TypeParts ==
  ASSUME Base, UNCHANGED engineVars, place' \in [Slots -> Places], refused' \in BOOLEAN,
         account' \in [Tenants -> [reserved: Nat, committed: Nat]],
         bill' \in [Tenants -> Nat], peak' \in Nat, carried' \in BOOLEAN,
         IsFiniteSet(late'), late' \subseteq AllLate,
         deadlines' \in 0..MaxDeadlines, lapses' \in 0..MaxLapses
  PROVE  TypeOK'
<1>1. Slots' = Slots
  BY RoundsKept DEF engineVars
<1>2. \A x \in late' : x.scenario \in Scenarios /\ x.tenant \in Tenants /\ x.cents \in Nat
  BY DEF AllLate
<1>3. QED
  BY <1>1, <1>2 DEF TypeOK, Base, engineVars

LEMMA GateKeepsBase ==
  ASSUME Base, NEW i \in Slots, Gate(i)
  PROVE  Base'
<1>1. stage = "sending" /\ place[i] = "starting" /\ TypeOK /\ Reserved
      /\ UNCHANGED <<scenario, engineVars, account>>
  BY DEF Gate, Base, engineVars
<1>2. Structure' /\ Seen'
  BY <1>1, BaseLate, SendingKeeps DEF Gate, bookVars
<1>3. place' \in [Slots -> Places]
  BY <1>1 DEF Gate, TypeOK, Places
<1>4. TypeOK'
  BY <1>1, <1>3, BaseLate, TypeParts DEF Gate, bookVars, historyVars, TypeOK
<1>5. ASSUME NEW t \in Tenants
      PROVE  account'[t].reserved = In(t, Holding)'
  <2>1. CASE \A j \in Slots \ {i} : place[j] = "gated"
    <3>1. \A j \in Slots : place[j] \notin Holding
      BY <1>1, <2>1 DEF Holding
    <3>2. place' = [j \in Slots |-> "sent"] /\ Slots' = Slots
      BY <1>1, <2>1, RoundsKept DEF Gate
    <3>3. \A j \in Slots' : place'[j] \notin Holding
      BY <3>2 DEF Holding
    <3>4. In(t, Holding) = 0
      BY <1>1, <3>1, InType
    <3>5. In(t, Holding)' = 0
      <4>1. scenario \in Scenarios
        BY <1>1 DEF TypeOK
      <4>2. \A j \in DOMAIN Load[scenario'] : place'[j] \notin Holding
        BY <3>3 DEF Slots
      <4>3. Amount(scenario', t, place', Holding) = 0
        BY <1>1, <4>1, <4>2, AmountNone
      <4>4. QED
        BY <4>3 DEF In
    <3>6. QED
      BY <1>1, <3>4, <3>5 DEF Reserved
  <2>2. CASE ~\A j \in Slots \ {i} : place[j] = "gated"
    <3>1. Goto(i, "gated")
      BY <2>2 DEF Gate, Goto
    <3>2. In(t, Holding)' = In(t, Holding)
      <4>1. "gated" \in Places /\ "gated" \notin Holding /\ place[i] \notin Holding
        BY <1>1 DEF Places, Holding
      <4>2. QED
        BY <1>1, <3>1, <4>1, MovesAll
    <3>3. QED
      BY <1>1, <3>2 DEF Reserved
  <2>3. QED
    BY <2>1, <2>2
<1>6. QED
  BY <1>2, <1>4, <1>5 DEF Base, Reserved

(* What the application does to a request, in one go: it moves to another place,
   and its cents with it where it takes, keeps or gives up a hold.           *)
LEMMA AppKeepsBase ==
  ASSUME Base, NEW i \in Slots, place[i] \notin Answers, place[i] # "starting",
         NEW there \in Places, Goto(i, there), UNCHANGED engineVars,
         refused' \in BOOLEAN, bill' \in [Tenants -> Nat], peak' \in Nat, UNCHANGED carried,
         IsFiniteSet(late'), late' \subseteq AllLate,
         \A x \in late' : x \in late \/ x.scenario = scenario,
         deadlines' \in 0..MaxDeadlines, lapses' \in 0..MaxLapses,
         \/ UNCHANGED account /\ (place[i] \in Holding <=> there \in Holding)
         \/ Hold(i) /\ place[i] \notin Holding /\ there \in Holding
         \/ Charge(i) /\ place[i] \in Holding /\ there \notin Holding
  PROVE  Base'
<1>1. TypeOK /\ Reserved /\ UNCHANGED scenario /\ stage = "sending"
  BY UnderWay DEF Base, engineVars
<1>2. Structure' /\ Seen'
  BY <1>1, SendingKeeps
<1>3. place' \in [Slots -> Places]
  BY <1>1 DEF Goto, TypeOK
<1>4. account' \in [Tenants -> [reserved: Nat, committed: Nat]]
      /\ \A t \in Tenants : account'[t].reserved = In(t, Holding)'
  <2>1. \A t \in Tenants :
          /\ account[t].reserved = In(t, Holding)
          /\ Due(i, t) \in Nat
          /\ In(t, Holding) \in Nat /\ In(t, Holding)' \in Nat
          /\ In(t, Holding)' + (IF place[i] \in Holding THEN Due(i, t) ELSE 0)
               = In(t, Holding) + (IF there \in Holding THEN Due(i, t) ELSE 0)
    BY <1>1, MovesAll DEF Reserved
  <2>2. CASE UNCHANGED account /\ (place[i] \in Holding <=> there \in Holding)
    BY <1>1, <2>1, <2>2 DEF TypeOK
  <2>3. CASE Hold(i) /\ place[i] \notin Holding /\ there \in Holding
    BY <1>1, <2>1, <2>3, HoldAccount
  <2>4. CASE Charge(i) /\ place[i] \in Holding /\ there \notin Holding
    <3>1. PICK u \in Tenants : u = Tenant(i)
      BY <1>1, SlotType
    <3>2. Due(i, u) = Cents(i) /\ Cents(i) \in Nat
      BY <1>1, <3>1, SlotType DEF Due
    <3>3. Cents(i) <= account[Tenant(i)].reserved
      BY <2>1, <2>4, <3>1, <3>2
    <3>4. QED
      BY <1>1, <2>1, <2>4, <3>3, ChargeAccount
  <2>5. QED
    BY <2>2, <2>3, <2>4
<1>5. TypeOK'
  BY <1>1, <1>3, <1>4, TypeParts DEF TypeOK
<1>6. QED
  BY <1>2, <1>4, <1>5 DEF Base, Reserved

LEMMA ReserveKeepsBase ==
  ASSUME Base, NEW i \in Slots, Reserve(i)
  PROVE  Base'
<1>1. /\ place[i] = "sent" /\ UNCHANGED engineVars /\ UNCHANGED bookVars /\ UNCHANGED historyVars
      /\ TypeOK /\ IsFiniteSet(late) /\ late \subseteq AllLate
  BY BaseLate DEF Reserve, Base
<1>2. /\ refused' \in BOOLEAN /\ bill' \in [Tenants -> Nat] /\ peak' \in Nat /\ UNCHANGED carried
      /\ deadlines' \in 0..MaxDeadlines /\ lapses' \in 0..MaxLapses /\ UNCHANGED late
  BY <1>1 DEF Reserve, TypeOK, bookVars, historyVars
<1>3. CASE HasRoom(i)
  <2>1. Hold(i) /\ Goto(i, "held")
    BY <1>3 DEF Reserve
  <2>2. "held" \in Places /\ place[i] \notin Holding /\ "held" \in Holding /\ place[i] \notin Answers
    BY <1>1 DEF Places, Holding, Answers
  <2>3. QED
    BY <1>1, <1>2, <2>1, <2>2, AppKeepsBase
<1>4. CASE ~HasRoom(i)
  <2>1. Goto(i, "no_allowance") /\ UNCHANGED account
    BY <1>4 DEF Reserve
  <2>2. "no_allowance" \in Places /\ place[i] \notin Holding /\ "no_allowance" \notin Holding
        /\ place[i] \notin Answers
    BY <1>1 DEF Places, Holding, Answers
  <2>3. QED
    BY <1>1, <1>2, <2>1, <2>2, AppKeepsBase
<1>5. QED
  BY <1>3, <1>4

LEMMA LapseKeepsBase ==
  ASSUME Base, NEW i \in Slots, Lapse(i)
  PROVE  Base'
<1>1. /\ place[i] = "sent" /\ UNCHANGED engineVars /\ UNCHANGED bookVars /\ UNCHANGED <<refused, deadlines>>
      /\ TypeOK /\ IsFiniteSet(late) /\ late \subseteq AllLate /\ lapses < MaxLapses /\ lapses' = lapses + 1
  BY BaseLate DEF Lapse, Base
<1>2. /\ refused' \in BOOLEAN /\ bill' \in [Tenants -> Nat] /\ peak' \in Nat /\ UNCHANGED carried
      /\ deadlines' \in 0..MaxDeadlines /\ lapses' \in 0..MaxLapses /\ UNCHANGED late
  BY <1>1, Numbers DEF TypeOK, bookVars
<1>3. CASE Goto(i, "freed") /\ UNCHANGED account
  <2>1. "freed" \in Places /\ place[i] \notin Holding /\ "freed" \notin Holding /\ place[i] \notin Answers
    BY <1>1 DEF Places, Holding, Answers
  <2>2. QED
    BY <1>1, <1>2, <1>3, <2>1, AppKeepsBase
<1>4. CASE Hold(i) /\ Goto(i, "held")
  <2>1. "held" \in Places /\ place[i] \notin Holding /\ "held" \in Holding /\ place[i] \notin Answers
    BY <1>1 DEF Places, Holding, Answers
  <2>2. QED
    BY <1>1, <1>2, <1>4, <2>1, AppKeepsBase
<1>5. QED
  BY <1>3, <1>4 DEF Lapse

LEMMA BusyFinite ==
  ASSUME TypeOK
  PROVE  IsFiniteSet(Busy) /\ Cardinality(Busy) \in Nat
<1>1. Busy \in SUBSET Slots
  BY DEF Busy
<1>2. QED
  BY <1>1, SlotType, FS_Subset, FS_CardinalityType

LEMMA CallKeepsBase ==
  ASSUME Base, NEW i \in Slots, Call(i)
  PROVE  Base'
<1>1. /\ place[i] \in {"held", "freed"} /\ UNCHANGED engineVars /\ UNCHANGED historyVars
      /\ UNCHANGED <<refused, account, bill, late, carried>>
      /\ TypeOK /\ IsFiniteSet(late) /\ late \subseteq AllLate
      /\ Goto(i, IF place[i] = "held" THEN "calling" ELSE "free")
      /\ peak' = Greatest(peak, Cardinality(Busy) + Cardinality(late) + 1)
  BY BaseLate DEF Call, Base
<1>2. peak' \in Nat
  BY <1>1, BusyFinite, FS_CardinalityType DEF TypeOK, Greatest
<1>3. /\ refused' \in BOOLEAN /\ bill' \in [Tenants -> Nat] /\ UNCHANGED carried
      /\ deadlines' \in 0..MaxDeadlines /\ lapses' \in 0..MaxLapses
  BY <1>1 DEF TypeOK, historyVars
<1>4. CASE place[i] = "held"
  <2>1. "calling" \in Places /\ place[i] \in Holding /\ "calling" \in Holding /\ place[i] \notin Answers
    BY <1>4 DEF Places, Holding, Answers
  <2>2. QED
    BY <1>1, <1>2, <1>3, <1>4, <2>1, AppKeepsBase
<1>5. CASE place[i] = "freed"
  <2>1. "free" \in Places /\ place[i] \notin Holding /\ "free" \notin Holding /\ place[i] \notin Answers
    BY <1>5 DEF Places, Holding, Answers
  <2>2. QED
    BY <1>1, <1>2, <1>3, <1>5, <2>1, AppKeepsBase
<1>6. QED
  BY <1>1, <1>4, <1>5

LEMMA Billed ==
  ASSUME TypeOK, NEW u \in Tenants, NEW c \in Nat, bill' = [bill EXCEPT ![u] = @ + c]
  PROVE  /\ bill' \in [Tenants -> Nat]
         /\ \A t \in Tenants : bill'[t] = bill[t] + (IF u = t THEN c ELSE 0)
BY DEF TypeOK

LEMMA BillKeepsBase ==
  ASSUME Base, NEW i \in Slots, Bill(i)
  PROVE  Base'
<1>1. /\ place[i] \in {"calling", "free"} /\ UNCHANGED engineVars /\ UNCHANGED historyVars
      /\ UNCHANGED <<refused, account, peak, late, carried>>
      /\ TypeOK /\ IsFiniteSet(late) /\ late \subseteq AllLate
      /\ Goto(i, IF place[i] = "calling" THEN "billed" ELSE "unpaid")
      /\ bill' = [bill EXCEPT ![Tenant(i)] = @ + Cents(i)]
  BY BaseLate DEF Bill, Busy, Base
<1>2. bill' \in [Tenants -> Nat]
  BY <1>1, SlotType, Billed
<1>3. /\ refused' \in BOOLEAN /\ peak' \in Nat /\ UNCHANGED carried
      /\ deadlines' \in 0..MaxDeadlines /\ lapses' \in 0..MaxLapses
  BY <1>1 DEF TypeOK, historyVars
<1>4. CASE place[i] = "calling"
  <2>1. "billed" \in Places /\ place[i] \in Holding /\ "billed" \in Holding /\ place[i] \notin Answers
    BY <1>4 DEF Places, Holding, Answers
  <2>2. QED
    BY <1>1, <1>2, <1>3, <1>4, <2>1, AppKeepsBase
<1>5. CASE place[i] = "free"
  <2>1. "unpaid" \in Places /\ place[i] \notin Holding /\ "unpaid" \notin Holding /\ place[i] \notin Answers
    BY <1>5 DEF Places, Holding, Answers
  <2>2. QED
    BY <1>1, <1>2, <1>3, <1>5, <2>1, AppKeepsBase
<1>6. QED
  BY <1>1, <1>4, <1>5

LEMMA SettleKeepsBase ==
  ASSUME Base, NEW i \in Slots, Settle(i)
  PROVE  Base'
<1>1. /\ UNCHANGED engineVars /\ UNCHANGED bookVars /\ UNCHANGED historyVars /\ UNCHANGED refused
      /\ TypeOK /\ IsFiniteSet(late) /\ late \subseteq AllLate /\ Goto(i, "ok")
  BY BaseLate DEF Settle, Base
<1>2. /\ refused' \in BOOLEAN /\ bill' \in [Tenants -> Nat] /\ peak' \in Nat /\ UNCHANGED carried
      /\ deadlines' \in 0..MaxDeadlines /\ lapses' \in 0..MaxLapses /\ UNCHANGED late
  BY <1>1 DEF TypeOK, bookVars, historyVars
<1>3. CASE place[i] = "billed" /\ Charge(i)
  <2>1. "ok" \in Places /\ place[i] \in Holding /\ "ok" \notin Holding /\ place[i] \notin Answers
    BY <1>3 DEF Places, Holding, Answers
  <2>2. QED
    BY <1>1, <1>2, <1>3, <2>1, AppKeepsBase
<1>4. CASE place[i] = "unpaid" /\ UNCHANGED account
  <2>1. "ok" \in Places /\ place[i] \notin Holding /\ "ok" \notin Holding /\ place[i] \notin Answers
    BY <1>4 DEF Places, Holding, Answers
  <2>2. QED
    BY <1>1, <1>2, <1>4, <2>1, AppKeepsBase
<1>5. QED
  BY <1>3, <1>4 DEF Settle

(* The call a deadline leaves behind, where it was under way. *)
Left(i) == [scenario |-> scenario, round |-> round, slot |-> i,
            tenant |-> Tenant(i), cents |-> Cents(i)]

LEMMA DeadlineLeaves ==
  ASSUME Base, NEW i \in Slots, Deadline(i)
  PROVE  /\ Left(i) \in AllLate
         /\ late' = IF place[i] \in {"calling", "free"} THEN late \cup {Left(i)} ELSE late
         /\ IsFiniteSet(late') /\ late' \subseteq AllLate
         /\ \A x \in late' : x \in late \/ x.scenario = scenario
<1>1. TypeOK /\ IsFiniteSet(late) /\ late \subseteq AllLate
  BY BaseLate DEF Base
<1>2. round \in Nat
  BY <1>1, Numbers DEF TypeOK
<1>3. i \in Nat
  BY <1>1, LoadType DEF Slots, TypeOK
<1>4. Left(i) \in AllLate
  BY <1>1, <1>2, <1>3, SlotType DEF Left, AllLate
<1>5. late' = late \cup {Left(i) : j \in {i} \cap Busy}
  BY DEF Deadline, Left
<1>6. i \in Busy <=> place[i] \in {"calling", "free"}
  BY DEF Busy
<1>7. late' = IF place[i] \in {"calling", "free"} THEN late \cup {Left(i)} ELSE late
  BY <1>5, <1>6
<1>8. IsFiniteSet(late \cup {Left(i)})
  BY <1>1, FS_AddElement
<1>9. Left(i).scenario = scenario
  BY DEF Left
<1>10. QED
  BY <1>1, <1>4, <1>7, <1>8, <1>9

LEMMA DeadlineKeepsBase ==
  ASSUME Base, NEW i \in Slots, Deadline(i)
  PROVE  Base'
<1>1. /\ UNCHANGED engineVars /\ UNCHANGED <<refused, bill, peak, carried, lapses>>
      /\ TypeOK /\ Goto(i, "timed_out") /\ deadlines < MaxDeadlines /\ deadlines' = deadlines + 1
  BY DEF Deadline, Base
<1>2. /\ IsFiniteSet(late') /\ late' \subseteq AllLate
      /\ \A x \in late' : x \in late \/ x.scenario = scenario
  BY DeadlineLeaves
<1>3. /\ refused' \in BOOLEAN /\ bill' \in [Tenants -> Nat] /\ peak' \in Nat /\ UNCHANGED carried
      /\ deadlines' \in 0..MaxDeadlines /\ lapses' \in 0..MaxLapses
  BY <1>1, Numbers DEF TypeOK
<1>4. CASE place[i] \in {"calling", "billed"} /\ Charge(i)
  <2>1. "timed_out" \in Places /\ place[i] \in Holding /\ "timed_out" \notin Holding /\ place[i] \notin Answers
    BY <1>4 DEF Places, Holding, Answers
  <2>2. place[i] # "starting"
    BY <1>4
  <2>3. QED
    BY <1>1, <1>2, <1>3, <1>4, <2>1, <2>2, AppKeepsBase
<1>5. CASE place[i] \in {"free", "unpaid"} /\ UNCHANGED account
  <2>1. "timed_out" \in Places /\ place[i] \notin Holding /\ "timed_out" \notin Holding /\ place[i] \notin Answers
    BY <1>5 DEF Places, Holding, Answers
  <2>2. place[i] # "starting"
    BY <1>5
  <2>3. QED
    BY <1>1, <1>2, <1>3, <1>5, <2>1, <2>2, AppKeepsBase
<1>6. QED
  BY <1>4, <1>5 DEF Deadline

LEMMA LateBillParts ==
  ASSUME Base, LateBill
  PROVE  \E x \in late :
           /\ x \in AllLate /\ late' = late \ {x}
           /\ bill' = [bill EXCEPT ![x.tenant] = @ + x.cents]
           /\ bill' \in [Tenants -> Nat]
           /\ \A t \in Tenants : bill'[t] = bill[t] + (IF x.tenant = t THEN x.cents ELSE 0)
           /\ carried' = (carried \/ x.scenario # scenario)
           /\ IsFiniteSet(late') /\ late' \subseteq AllLate
<1>1. PICK x \in late : /\ late' = late \ {x}
                        /\ bill' = [bill EXCEPT ![x.tenant] = @ + x.cents]
                        /\ carried' = (carried \/ x.scenario # scenario)
  BY DEF LateBill
<1>2. TypeOK /\ IsFiniteSet(late) /\ late \subseteq AllLate
  BY BaseLate DEF Base
<1>3. x \in AllLate /\ x.tenant \in Tenants /\ x.cents \in Nat
  BY <1>1, <1>2 DEF AllLate
<1>4. bill' \in [Tenants -> Nat]
      /\ \A t \in Tenants : bill'[t] = bill[t] + (IF x.tenant = t THEN x.cents ELSE 0)
  BY <1>1, <1>2, <1>3, Billed
<1>5. IsFiniteSet(late') /\ late' \subseteq AllLate
  BY <1>1, <1>2, FS_RemoveElement
<1>6. QED
  BY <1>1, <1>3, <1>4, <1>5

LEMMA LateBillKeepsBase ==
  ASSUME Base, LateBill
  PROVE  Base'
<1>1. TypeOK /\ Structure /\ Reserved /\ Seen
  BY DEF Base
<1>2. UNCHANGED engineVars /\ UNCHANGED historyVars /\ UNCHANGED <<place, refused, account, peak>>
      /\ UNCHANGED <<scenario, round, stage, reading>>
  BY DEF LateBill, engineVars
<1>3. PICK x \in late : /\ late' = late \ {x}
                        /\ bill' \in [Tenants -> Nat]
                        /\ carried' = (carried \/ x.scenario # scenario)
                        /\ IsFiniteSet(late') /\ late' \subseteq AllLate
  BY LateBillParts
<1>4. carried' \in BOOLEAN
  BY <1>3
<1>5. TypeOK'
  BY <1>1, <1>2, <1>3, <1>4, TypeParts DEF TypeOK, historyVars
<1>6. Rounds' = Rounds /\ Slots' = Slots /\ Gathered' = Gathered
  BY <1>2, RoundsKept DEF Gathered, Slots
<1>7. Structure'
  BY <1>1, <1>2, <1>3, <1>6 DEF Structure
<1>8. Reserved' /\ Seen'
  BY <1>1, <1>2, StaysIn DEF Reserved, Seen
<1>9. QED
  BY <1>5, <1>7, <1>8 DEF Base

LEMMA NoneIn ==
  ASSUME NEW P, scenario \in Scenarios, \A i \in Slots : place[i] \notin P
  PROVE  \A t : In(t, P) = 0
BY AmountNone DEF In, Slots

LEMMA PrepareKeepsBase ==
  ASSUME Base, Prepare
  PROVE  Base'
<1>1. TypeOK /\ Structure /\ Reserved /\ Seen
  BY DEF Base
<1>2. /\ stage = "preparing" /\ stage' = "sending" /\ round' = 1 /\ refused' = FALSE
      /\ UNCHANGED <<scenario, place, late, reading, alarms>> /\ UNCHANGED historyVars
      /\ account' = [t \in Tenants |-> [reserved |-> 0, committed |-> Opening(t)]]
      /\ bill' = [t \in Tenants |-> Opening(t)]
      /\ peak' = Cardinality(late) + 1 /\ carried' = FALSE
  BY DEF Prepare
<1>3. \A t \in Tenants : Opening(t) \in Nat
  BY HarnessAssumption DEF Opening
<1>4. Rounds' = Rounds /\ Slots' = Slots
  BY <1>2, RoundsKept
<1>5. Rounds \in 1..MaxRounds /\ MaxRounds \in Nat
  BY <1>1, RoundsType, HarnessAssumption DEF TypeOK
<1>6. Cardinality(late) \in Nat
  BY <1>1, FS_CardinalityType DEF Structure
<1>7. TypeOK'
  <2>1. round' \in 0..MaxRounds /\ stage' \in Stages
    BY <1>2, <1>5 DEF Stages
  <2>2. account' \in [Tenants -> [reserved: Nat, committed: Nat]] /\ bill' \in [Tenants -> Nat] /\ peak' \in Nat
    BY <1>2, <1>3, <1>6
  <2>3. QED
    BY <1>1, <1>2, <1>4, <2>1, <2>2 DEF TypeOK, historyVars
<1>8. Structure'
  BY <1>1, <1>2, <1>4, <1>5 DEF Structure, After
<1>9. Reserved'
  <2>1. \A i \in Slots : place[i] \notin Holding
    BY <1>1, <1>2 DEF Structure, Holding
  <2>2. \A t \in Tenants : In(t, Holding) = 0
    BY <1>1, <2>1, NoneIn DEF TypeOK
  <2>3. \A t \in Tenants : In(t, Holding)' = 0
    BY <1>2, <2>2, StaysIn
  <2>4. \A t \in Tenants : account'[t].reserved = 0
    BY <1>2
  <2>5. QED
    BY <2>3, <2>4 DEF Reserved
<1>10. Seen'
  BY <1>2 DEF Seen, Looking
<1>11. QED
  BY <1>7, <1>8, <1>9, <1>10 DEF Base

(* The readings change nothing but what was read. *)
LEMMA ReadingKeepsBase ==
  ASSUME Base, stage \in After \cup {"sending"}, Gathered, stage' \in After,
         UNCHANGED <<scenario, round, place, refused, account, alarms, bookVars, historyVars>>,
         reading' \in [bill: [Tenants -> Nat], peak: Nat, usage: [Tenants -> Nat], left: SUBSET Tenants],
         stage' = "judging" => reading'.left = {},
         Seen'
  PROVE  Base'
<1>1. TypeOK /\ Structure /\ Reserved
  BY DEF Base
<1>2. Rounds' = Rounds /\ Slots' = Slots /\ Gathered'
  BY RoundsKept DEF Gathered, Slots
<1>3. stage' \in Stages /\ stage' # "preparing" /\ stage' # "done" /\ stage # "preparing"
  BY DEF After, Stages
<1>4. late' = late /\ bill' = bill /\ peak' = peak /\ carried' = carried
  BY DEF bookVars
<1>5. TypeOK'
  BY <1>1, <1>2, <1>3, <1>4 DEF TypeOK, historyVars
<1>6. Structure'
  BY <1>1, <1>2, <1>3, <1>4 DEF Structure
<1>7. Reserved'
  BY <1>1, StaysIn DEF Reserved
<1>8. QED
  BY <1>5, <1>6, <1>7 DEF Base

LEMMA EndRoundKeepsBase ==
  ASSUME Base, EndRound
  PROVE  Base'
<1>1. reading' = reading /\ stage = "sending" /\ stage' = "ledger" /\ Gathered
  BY DEF EndRound
<1>2. Seen'
  BY <1>1 DEF Seen, Looking
<1>3. QED
  BY <1>1, <1>2, ReadingKeepsBase DEF EndRound, After, Base, TypeOK

LEMMA ReadLedgerKeepsBase ==
  ASSUME Base, ReadLedger
  PROVE  Base'
<1>1. stage = "ledger" /\ stage' = "stats" /\ Gathered /\ TypeOK
  BY DEF ReadLedger, Base, Structure, After
<1>2. /\ reading' \in [bill: [Tenants -> Nat], peak: Nat, usage: [Tenants -> Nat], left: SUBSET Tenants]
      /\ reading'.left = Tenants /\ reading'.bill = bill /\ reading'.peak = 0
  BY <1>1 DEF ReadLedger, Unread, Nothing, TypeOK
<1>3. Seen'
  BY <1>2 DEF Seen
<1>4. QED
  BY <1>1, <1>2, <1>3, ReadingKeepsBase DEF ReadLedger, After

LEMMA ReadStatsKeepsBase ==
  ASSUME Base, ReadStats
  PROVE  Base'
<1>1. stage = "stats" /\ stage' = "usage" /\ Gathered /\ TypeOK /\ Seen /\ UNCHANGED account
  BY DEF ReadStats, Base, Structure, After
<1>2. /\ reading' \in [bill: [Tenants -> Nat], peak: Nat, usage: [Tenants -> Nat], left: SUBSET Tenants]
      /\ reading'.left = reading.left /\ reading'.usage = reading.usage /\ reading'.bill = reading.bill
      /\ reading'.peak = peak
  BY <1>1 DEF ReadStats, TypeOK
<1>3. Seen'
  BY <1>1, <1>2 DEF Seen, Looking
<1>4. QED
  BY <1>1, <1>2, <1>3, ReadingKeepsBase DEF ReadStats, After

LEMMA UsageRead ==
  ASSUME Base, ReadUsage
  PROVE  \E t \in reading.left :
           /\ t \in Tenants
           /\ reading' \in [bill: [Tenants -> Nat], peak: Nat, usage: [Tenants -> Nat], left: SUBSET Tenants]
           /\ reading'.left = reading.left \ {t} /\ reading'.bill = reading.bill /\ reading'.peak = reading.peak
           /\ \A u \in Tenants : reading'.usage[u] = IF u = t THEN account[t].committed ELSE reading.usage[u]
<1>1. PICK t \in reading.left :
        reading' = [reading EXCEPT !.usage[t] = account[t].committed, !.left = @ \ {t}]
  BY DEF ReadUsage
<1>2. t \in Tenants /\ account[t].committed \in Nat
      /\ reading \in [bill: [Tenants -> Nat], peak: Nat, usage: [Tenants -> Nat], left: SUBSET Tenants]
  BY DEF Base, TypeOK
<1>3. QED
  BY <1>1, <1>2

LEMMA ReadUsageKeepsBase ==
  ASSUME Base, ReadUsage
  PROVE  Base'
<1>1. stage = "usage" /\ stage' \in {"usage", "judging"} /\ Gathered /\ TypeOK /\ Seen /\ UNCHANGED account
      /\ (stage' = "judging" => reading'.left = {})
  BY DEF ReadUsage, Base, Structure, After
<1>2. PICK t \in reading.left :
        /\ reading' \in [bill: [Tenants -> Nat], peak: Nat, usage: [Tenants -> Nat], left: SUBSET Tenants]
        /\ reading'.left = reading.left \ {t}
        /\ \A u \in Tenants : reading'.usage[u] = IF u = t THEN account[t].committed ELSE reading.usage[u]
  BY UsageRead
<1>3. Seen'
  BY <1>1, <1>2 DEF Seen, Looking
<1>4. QED
  BY <1>1, <1>2, <1>3, ReadingKeepsBase DEF ReadUsage, After

LEMMA FoundKinds ==
  /\ BudgetViolations \subseteq {[scenario |-> scenario, kind |-> k] : k \in Kinds}
  /\ CheckCommon \subseteq {[scenario |-> scenario, kind |-> k] : k \in Kinds}
  /\ CheckWork \subseteq {[scenario |-> scenario, kind |-> k] : k \in Kinds}
  /\ IsolationExtra \subseteq {[scenario |-> scenario, kind |-> k] : k \in Kinds}
<1> DEFINE Here == {[scenario |-> scenario, kind |-> k] : k \in Kinds}
<1>1. ASSUME NEW kind \in Kinds, NEW found
      PROVE  Found(kind, found) \subseteq Here
  BY DEF Found
<1>2. /\ "unaccounted_spend" \in Kinds /\ "allowance_exceeded" \in Kinds /\ "spend_cap_breached" \in Kinds
      /\ "in_flight_over_capacity" \in Kinds /\ "legitimate_work_shed" \in Kinds
      /\ "bystander_affected" \in Kinds /\ "never_refused" \in Kinds
  BY DEF Kinds
<1> HIDE DEF Here
<1>3. BudgetViolations \subseteq Here
  BY <1>1, <1>2 DEF BudgetViolations
<1>4. CheckCommon \subseteq Here
  BY <1>1, <1>2 DEF CheckCommon
<1>5. CheckWork \subseteq Here
  BY <1>1, <1>2 DEF CheckWork
<1>6. IsolationExtra \subseteq Here
  BY <1>1, <1>2 DEF IsolationExtra
<1>7. QED
  BY <1>3, <1>4, <1>5, <1>6 DEF Here

LEMMA JudgeParts ==
  ASSUME Base, Judge
  PROVE  /\ stage = "judging" /\ Gathered /\ reading.left = {}
         /\ scenario' \in Scenarios /\ round' \in 0..MaxRounds /\ stage' \in {"sending", "preparing", "done"}
         /\ stage' # "preparing" => UNCHANGED scenario /\ round' \in 1..Rounds
         /\ stage' = "preparing" => scenario = "legitimate" /\ scenario' = "isolation"
         /\ stage' = "sending" => round' = round + 1
         /\ stage' = "done" => UNCHANGED round /\ round = Rounds
         /\ Slots' = DOMAIN Load[scenario'] /\ place' = [i \in Slots' |-> "starting"]
         /\ UNCHANGED <<refused, account, bill, late, peak, carried, reading, deadlines, lapses>>
         /\ round \in 1..Rounds /\ Rounds \in 1..MaxRounds
<1>1. stage = "judging" /\ Gathered /\ reading.left = {} /\ round \in 1..Rounds /\ TypeOK
  BY DEF Base, Judge, Structure, After
<1>2. Rounds \in 1..MaxRounds /\ MaxRounds \in Nat
  BY <1>1, RoundsType, HarnessAssumption DEF TypeOK
<1>3. Slots' = DOMAIN Load[scenario'] /\ place' = [i \in Slots' |-> "starting"]
  BY DEF Judge, Slots
<1>4. UNCHANGED <<refused, account, bill, late, peak, carried, reading, deadlines, lapses>>
  BY DEF Judge, bookVars, historyVars
<1>5. CASE round < Rounds
  BY <1>1, <1>2, <1>3, <1>4, <1>5 DEF Judge, TypeOK
<1>6. CASE ~(round < Rounds) /\ scenario = "legitimate"
  BY <1>1, <1>2, <1>3, <1>4, <1>6 DEF Judge, Scenarios
<1>7. CASE ~(round < Rounds) /\ scenario # "legitimate"
  BY <1>1, <1>2, <1>3, <1>4, <1>7 DEF Judge, TypeOK
<1>8. QED
  BY <1>5, <1>6, <1>7

LEMMA JudgeKeepsBase ==
  ASSUME Base, Judge
  PROVE  Base'
<1>1. TypeOK /\ Structure /\ Reserved
  BY DEF Base
<1>2. /\ scenario' \in Scenarios /\ round' \in 0..MaxRounds /\ stage' \in {"sending", "preparing", "done"}
      /\ Slots' = DOMAIN Load[scenario'] /\ place' = [i \in Slots' |-> "starting"] /\ Gathered
      /\ UNCHANGED <<refused, account, bill, late, peak, carried, reading, deadlines, lapses>>
      /\ (stage' # "preparing" => UNCHANGED scenario /\ round' \in 1..Rounds)
      /\ (stage' = "preparing" => scenario = "legitimate" /\ scenario' = "isolation")
  BY JudgeParts
<1>3. alarms' \subseteq [scenario: Scenarios, kind: Kinds]
  <2>1. {[scenario |-> scenario, kind |-> k] : k \in Kinds} \subseteq [scenario: Scenarios, kind: Kinds]
    BY <1>1 DEF TypeOK
  <2>2. alarms' = alarms \cup BudgetViolations \cup CheckCommon \cup CheckWork \cup IsolationExtra
    BY DEF Judge
  <2>3. QED
    BY <1>1, <2>1, <2>2, FoundKinds DEF TypeOK
<1>4. TypeOK'
  <2>1. place' \in [Slots' -> Places] /\ stage' \in Stages
    BY <1>2 DEF Places, Stages
  <2>2. QED
    BY <1>1, <1>2, <1>3, <2>1 DEF TypeOK
<1>5. Structure'
  <2>1. stage' # "preparing" => Rounds' = Rounds
    BY <1>2, RoundsKept
  <2>2. stage' \notin After
    BY <1>2 DEF After
  <2>3. \A x \in late' : /\ scenario' = "legitimate" => x.scenario = "legitimate"
                         /\ stage' = "preparing" => x.scenario # scenario'
    BY <1>1, <1>2 DEF Structure
  <2>4. QED
    BY <1>1, <1>2, <2>1, <2>2, <2>3 DEF Structure, After
<1>6. Reserved'
  <2>1. \A i \in Slots : place[i] \notin Holding
    BY <1>2 DEF Gathered, Answers, Holding
  <2>2. \A t \in Tenants : account[t].reserved = 0
    BY <1>1, <2>1, InType DEF Reserved
  <2>3. \A i \in Slots' : place'[i] \notin Holding
    BY <1>2 DEF Holding
  <2>4. \A t : Amount(scenario', t, place', Holding) = 0
    BY <1>2, <2>3, AmountNone
  <2>5. QED
    BY <1>2, <2>2, <2>4 DEF Reserved, In
<1>7. Seen'
  BY <1>2 DEF Seen, Looking
<1>8. QED
  BY <1>4, <1>5, <1>6, <1>7 DEF Base

LEMMA BaseInit ==
  ASSUME Init
  PROVE  Base
<1>1. scenario = "legitimate" /\ scenario \in Scenarios
  BY DEF Init, Scenarios
<1>2. \A i \in Slots : place[i] = "starting"
  BY DEF Init
<1>3. TypeOK
  <2>1. place \in [Slots -> Places] /\ stage \in Stages /\ refused \in BOOLEAN
    BY DEF Init, Places, Stages
  <2>6. round \in 0..MaxRounds
    BY Numbers DEF Init
  <2>2. account \in [Tenants -> [reserved: Nat, committed: Nat]] /\ bill \in [Tenants -> Nat]
    BY DEF Init, Nothing
  <2>3. reading \in [bill: [Tenants -> Nat], peak: Nat, usage: [Tenants -> Nat], left: SUBSET Tenants]
    BY DEF Init, Nothing, Unread
  <2>4. deadlines \in 0..MaxDeadlines /\ lapses \in 0..MaxLapses
    BY Numbers DEF Init
  <2>5. QED
    BY <1>1, <2>1, <2>2, <2>3, <2>4, <2>6 DEF Init, TypeOK
<1>4. Structure
  BY <1>2, FS_EmptySet DEF Init, Structure, After
<1>5. Reserved
  <2>1. \A i \in Slots : place[i] \notin Holding
    BY <1>2 DEF Holding
  <2>2. \A t \in Tenants : In(t, Holding) = 0
    BY <1>1, <2>1, NoneIn
  <2>3. QED
    BY <2>2 DEF Init, Reserved
<1>6. Seen
  BY DEF Init, Seen, Looking
<1>7. QED
  BY <1>3, <1>4, <1>5, <1>6 DEF Base

LEMMA BaseStutter ==
  ASSUME Base, UNCHANGED vars
  PROVE  Base'
<1>1. UNCHANGED <<scenario, round, stage, place, refused, account, bill, late, peak,
                  reading, alarms, deadlines, lapses, carried>>
  BY DEF vars
<1>2. Rounds' = Rounds /\ Slots' = Slots
  BY <1>1, RoundsKept
<1>3. TypeOK'
  BY <1>1, <1>2 DEF Base, TypeOK
<1>4. Structure'
  BY <1>1, <1>2 DEF Base, Structure, Gathered
<1>5. Reserved' /\ Seen'
  BY <1>1, StaysIn DEF Base, Reserved, Seen
<1>6. QED
  BY <1>3, <1>4, <1>5 DEF Base

LEMMA BaseNext ==
  ASSUME Base, [Next]_vars
  PROVE  Base'
<1>1. ASSUME NEW i \in Slots, Gate(i) \/ Application(i) \/ Lapse(i) \/ Deadline(i)
      PROVE  Base'
  BY <1>1, GateKeepsBase, ReserveKeepsBase, CallKeepsBase, BillKeepsBase, SettleKeepsBase,
     LapseKeepsBase, DeadlineKeepsBase DEF Application
<1>2. CASE LateBill
  BY <1>2, LateBillKeepsBase
<1>3. CASE Engine
  BY <1>3, PrepareKeepsBase, EndRoundKeepsBase, ReadLedgerKeepsBase, ReadStatsKeepsBase,
     ReadUsageKeepsBase, JudgeKeepsBase DEF Engine
<1>4. CASE Rest \/ UNCHANGED vars
  BY <1>4, BaseStutter DEF Rest
<1>5. QED
  BY <1>1, <1>2, <1>3, <1>4 DEF Next

LEMMA BaseHolds == Spec => []Base
<1>1. Init => Base
  BY BaseInit
<1>2. Base /\ [Next]_vars => Base'
  BY BaseNext
<1>3. QED
  BY <1>1, <1>2, PTL DEF Spec

(* The harness's state keeps its types: what the store holds never turns negative,
   whatever lapses and deadlines come between a hold and its settlement
   (store.py:161).                                                           *)
THEOREM HarnessTypeCorrect == Spec => []TypeOK
<1>1. Base => TypeOK
  BY DEF Base
<1>2. QED
  BY <1>1, BaseHolds, PTL

-----------------------------------------------------------------------------
(* What a step of the application does to the figures of a tenant: the store's
   two, the bill, and what its billed, its unheld and its served requests are
   worth.                                                                    *)

Shift(t, committed, reserved, billed, unsettled, unheld, served) ==
  /\ account'[t].committed = account[t].committed + committed
  /\ account'[t].reserved = account[t].reserved + reserved
  /\ bill'[t] = bill[t] + billed
  /\ In(t, {"billed"})' = In(t, {"billed"}) + unsettled
  /\ In(t, Unheld)' = In(t, Unheld) + unheld
  /\ In(t, Served)' = In(t, Served) + served

LEMMA Figures ==
  ASSUME TypeOK, NEW t \in Tenants
  PROVE  /\ account[t].committed \in Nat /\ account[t].reserved \in Nat /\ bill[t] \in Nat
         /\ In(t, {"billed"}) \in Nat /\ In(t, Unheld) \in Nat /\ In(t, Served) \in Nat
         /\ In(t, Holding) \in Nat
BY InType DEF TypeOK

LEMMA OwedNat ==
  ASSUME Base
  PROVE  \A t : Owed(t) \in Nat
BY BaseLate, OwedType DEF Owed

LEMMA GateShift ==
  ASSUME Base, NEW i \in Slots, Gate(i)
  PROVE  /\ stage = "sending" /\ UNCHANGED engineVars
         /\ \A t \in Tenants : Shift(t, 0, 0, 0, 0, 0, 0)
<1>1. /\ stage = "sending" /\ place[i] = "starting" /\ TypeOK /\ UNCHANGED engineVars
      /\ UNCHANGED <<scenario, account, bill>>
  BY DEF Gate, Base, engineVars, bookVars
<1>2. ASSUME NEW t \in Tenants
      PROVE  /\ In(t, {"billed"})' = In(t, {"billed"}) /\ In(t, Unheld)' = In(t, Unheld)
             /\ In(t, Served)' = In(t, Served)
  <2>1. CASE \A j \in Slots \ {i} : place[j] = "gated"
    <3>1. \A j \in Slots : place[j] \in {"starting", "gated"}
      BY <1>1, <2>1
    <3>2. place' = [j \in Slots |-> "sent"] /\ Slots' = Slots
      BY <1>1, <2>1, RoundsKept DEF Gate
    <3>3. ASSUME NEW P, P \cap {"starting", "gated", "sent"} = {}
          PROVE  In(t, P) = 0 /\ In(t, P)' = 0
      <4>1. \A j \in Slots : place[j] \notin P
        BY <3>1, <3>3
      <4>2. \A j \in DOMAIN Load[scenario'] : place'[j] \notin P
        BY <3>2, <3>3 DEF Slots
      <4>3. scenario' \in Scenarios
        BY <1>1 DEF TypeOK
      <4>4. Amount(scenario', t, place', P) = 0
        BY <4>2, <4>3, AmountNone
      <4>5. QED
        BY <1>1, <4>1, <4>4, InType DEF In
    <3>4. /\ {"billed"} \cap {"starting", "gated", "sent"} = {}
          /\ Unheld \cap {"starting", "gated", "sent"} = {}
          /\ Served \cap {"starting", "gated", "sent"} = {}
      BY DEF Unheld, Served, Holding
    <3>5. In(t, {"billed"}) = 0 /\ In(t, {"billed"})' = 0
      BY <3>3, <3>4
    <3>6. In(t, Unheld) = 0 /\ In(t, Unheld)' = 0
      BY <3>3, <3>4 DEF Unheld
    <3>7. In(t, Served) = 0 /\ In(t, Served)' = 0
      BY <3>3, <3>4 DEF Served, Holding
    <3>8. QED
      BY <3>5, <3>6, <3>7
  <2>2. CASE ~\A j \in Slots \ {i} : place[j] = "gated"
    <3>1. Goto(i, "gated")
      BY <2>2 DEF Gate, Goto
    <3>2. "gated" \in Places /\ "gated" \notin Unheld \cup Served /\ place[i] \notin Unheld \cup Served
      BY <1>1 DEF Places, Holding, Unheld, Served
    <3>3. place[i] # "billed" /\ "gated" # "billed"
      BY <1>1
    <3>4. QED
      BY <1>1, <3>1, <3>2, <3>3, MovesAll
  <2>3. QED
    BY <2>1, <2>2
<1>3. QED
  BY <1>1, <1>2, Figures DEF Shift

LEMMA ReserveShift ==
  ASSUME Base, NEW i \in Slots, Reserve(i)
  PROVE  /\ stage = "sending" /\ UNCHANGED engineVars
         /\ \A t \in Tenants :
              IF HasRoom(i) THEN Shift(t, 0, Due(i, t), 0, 0, 0, Due(i, t)) ELSE Shift(t, 0, 0, 0, 0, 0, 0)
<1>1. /\ place[i] = "sent" /\ TypeOK /\ UNCHANGED engineVars /\ UNCHANGED <<scenario, bill>>
  BY DEF Reserve, Base, engineVars, bookVars
<1>2. stage = "sending"
  BY <1>1, UnderWay DEF Answers
<1>3. CASE HasRoom(i)
  <2>1. Hold(i) /\ Goto(i, "held")
    BY <1>3 DEF Reserve
  <2>2. "held" \in Places /\ "held" \notin Unheld /\ "held" \in Served /\ place[i] \notin Unheld \cup Served
    BY <1>1 DEF Places, Unheld, Served, Holding
  <2>3. QED
    BY <1>1, <1>2, <1>3, <2>1, <2>2, MovesAll, HoldAccount, Figures DEF Shift
<1>4. CASE ~HasRoom(i)
  <2>1. Goto(i, "no_allowance") /\ UNCHANGED account
    BY <1>4 DEF Reserve
  <2>2. "no_allowance" \in Places /\ "no_allowance" \notin Unheld \cup Served /\ place[i] \notin Unheld \cup Served
    BY <1>1 DEF Places, Answers, Unheld, Served, Holding
  <2>3. QED
    BY <1>1, <1>2, <1>4, <2>1, <2>2, MovesAll, Figures DEF Shift
<1>5. QED
  BY <1>3, <1>4

LEMMA LapseShift ==
  ASSUME Base, NEW i \in Slots, Lapse(i)
  PROVE  /\ stage = "sending" /\ UNCHANGED engineVars
         /\ \/ \A t \in Tenants : Shift(t, 0, 0, 0, 0, Due(i, t), 0)
            \/ ~HasRoom(i) /\ \A t \in Tenants : Shift(t, 0, Due(i, t), 0, 0, 0, Due(i, t))
<1>1. /\ place[i] = "sent" /\ TypeOK /\ UNCHANGED engineVars /\ UNCHANGED <<scenario, bill>>
  BY DEF Lapse, Base, engineVars, bookVars
<1>2. stage = "sending"
  BY <1>1, UnderWay DEF Answers
<1>3. CASE Goto(i, "freed") /\ UNCHANGED account
  <2>1. "freed" \in Places /\ "freed" \in Unheld /\ "freed" \notin Served /\ place[i] \notin Unheld \cup Served
    BY <1>1 DEF Places, Unheld, Served, Holding
  <2>2. QED
    BY <1>1, <1>2, <1>3, <2>1, MovesAll, Figures DEF Shift
<1>4. CASE ~HasRoom(i) /\ Hold(i) /\ Goto(i, "held")
  <2>1. "held" \in Places /\ "held" \notin Unheld /\ "held" \in Served /\ place[i] \notin Unheld \cup Served
    BY <1>1 DEF Places, Unheld, Served, Holding
  <2>2. QED
    BY <1>1, <1>2, <1>4, <2>1, MovesAll, HoldAccount, Figures DEF Shift
<1>5. QED
  BY <1>3, <1>4 DEF Lapse

LEMMA CallShift ==
  ASSUME Base, NEW i \in Slots, Call(i)
  PROVE  /\ stage = "sending" /\ UNCHANGED engineVars
         /\ \A t \in Tenants : Shift(t, 0, 0, 0, 0, 0, 0)
<1>1. /\ place[i] \in {"held", "freed"} /\ TypeOK /\ UNCHANGED engineVars
      /\ UNCHANGED <<scenario, account, bill>>
      /\ Goto(i, IF place[i] = "held" THEN "calling" ELSE "free")
  BY DEF Call, Base, engineVars
<1>2. stage = "sending"
  BY <1>1, UnderWay DEF Answers
<1>3. CASE place[i] = "held"
  <2>1. "calling" \in Places /\ "calling" \notin Unheld /\ "calling" \in Served
        /\ place[i] \notin Unheld /\ place[i] \in Served
    BY <1>3 DEF Places, Unheld, Served, Holding
  <2>2. QED
    BY <1>1, <1>2, <1>3, <2>1, MovesAll, Figures DEF Shift
<1>4. CASE place[i] = "freed"
  <2>1. "free" \in Places /\ "free" \in Unheld /\ "free" \notin Served
        /\ place[i] \in Unheld /\ place[i] \notin Served
    BY <1>4 DEF Places, Unheld, Served, Holding
  <2>2. QED
    BY <1>1, <1>2, <1>4, <2>1, MovesAll, Figures DEF Shift
<1>5. QED
  BY <1>1, <1>3, <1>4

LEMMA BillShift ==
  ASSUME Base, NEW i \in Slots, Bill(i)
  PROVE  /\ stage = "sending" /\ UNCHANGED engineVars
         /\ \A t \in Tenants :
              IF place[i] = "calling" THEN Shift(t, 0, 0, Due(i, t), Due(i, t), 0, 0)
              ELSE Shift(t, 0, 0, Due(i, t), 0, 0 - Due(i, t), 0)
<1>1. /\ place[i] \in {"calling", "free"} /\ TypeOK /\ UNCHANGED engineVars
      /\ UNCHANGED <<scenario, account>>
      /\ Goto(i, IF place[i] = "calling" THEN "billed" ELSE "unpaid")
      /\ bill' = [bill EXCEPT ![Tenant(i)] = @ + Cents(i)]
  BY DEF Bill, Busy, Base, engineVars
<1>2. stage = "sending"
  BY <1>1, UnderWay DEF Answers
<1>3. \A t \in Tenants : bill'[t] = bill[t] + Due(i, t)
  BY <1>1, SlotType, Billed DEF Due
<1>4. CASE place[i] = "calling"
  <2>1. "billed" \in Places /\ "billed" \notin Unheld /\ "billed" \in Served
        /\ place[i] \notin Unheld /\ place[i] \in Served
    BY <1>4 DEF Places, Unheld, Served, Holding
  <2>2. QED
    BY <1>1, <1>2, <1>3, <1>4, <2>1, MovesAll, Figures DEF Shift
<1>5. CASE place[i] = "free"
  <2>1. "unpaid" \in Places /\ "unpaid" \notin Unheld /\ "unpaid" \notin Served
        /\ place[i] \in Unheld /\ place[i] \notin Served
    BY <1>5 DEF Places, Unheld, Served, Holding
  <2>2. QED
    BY <1>1, <1>2, <1>3, <1>5, <2>1, MovesAll, Figures DEF Shift
<1>6. QED
  BY <1>1, <1>4, <1>5

LEMMA ChargeFits ==
  ASSUME Base, NEW i \in Slots, place[i] \in Holding, Goto(i, "ok") \/ Goto(i, "timed_out"),
         UNCHANGED scenario
  PROVE  Cents(i) <= account[Tenant(i)].reserved
<1> DEFINE u == Tenant(i)
<1>1. TypeOK /\ u \in Tenants /\ Due(i, u) = Cents(i) /\ Cents(i) \in Nat /\ account[u].reserved = In(u, Holding)
  BY SlotType DEF Base, Due, Reserved
<1>2. {"ok", "timed_out"} \subseteq Places /\ "ok" \notin Holding /\ "timed_out" \notin Holding
  BY DEF Places, Answers, Holding
<1>3. PICK there \in {"ok", "timed_out"} : Goto(i, there)
  OBVIOUS
<1>4. there \in Places /\ there \notin Holding
  BY <1>2, <1>3
<1> HIDE DEF u
<1>5. PICK w \in Tenants : w = u
  BY <1>1
<1>6. /\ In(w, Holding) \in Nat /\ In(w, Holding)' \in Nat
      /\ In(w, Holding)' + (IF place[i] \in Holding THEN Due(i, w) ELSE 0)
           = In(w, Holding) + (IF there \in Holding THEN Due(i, w) ELSE 0)
  BY <1>1, <1>3, <1>4, MovesAll
<1>7. account[w].reserved = In(w, Holding) /\ Due(i, w) = Cents(i) /\ Cents(i) \in Nat
  BY <1>1, <1>5
<1>8. QED
  BY <1>4, <1>5, <1>6, <1>7 DEF u

LEMMA SettleShift ==
  ASSUME Base, NEW i \in Slots, Settle(i)
  PROVE  /\ stage = "sending" /\ UNCHANGED engineVars
         /\ \A t \in Tenants :
              IF place[i] = "billed" THEN Shift(t, Due(i, t), 0 - Due(i, t), 0, 0 - Due(i, t), 0, 0)
              ELSE Shift(t, 0, 0, 0, 0, 0, Due(i, t))
<1>1. TypeOK /\ UNCHANGED engineVars /\ UNCHANGED <<scenario, bill>> /\ Goto(i, "ok")
  BY DEF Settle, Base, engineVars, bookVars
<1>2. "ok" \in Places /\ "ok" \notin Unheld /\ "ok" \in Served
  BY DEF Places, Answers, Unheld, Served, Holding
<1>3. CASE place[i] = "billed" /\ Charge(i)
  <2>1. stage = "sending"
    BY <1>3, UnderWay DEF Answers
  <2>2. place[i] \notin Unheld /\ place[i] \in Served /\ place[i] \in Holding
    BY <1>3 DEF Unheld, Served, Holding
  <2>3. Cents(i) <= account[Tenant(i)].reserved
    BY <1>1, <2>2, ChargeFits
  <2>4. ASSUME NEW t \in Tenants
        PROVE  Shift(t, Due(i, t), 0 - Due(i, t), 0, 0 - Due(i, t), 0, 0)
    <3>1. /\ account'[t].reserved = account[t].reserved - Due(i, t)
          /\ account'[t].committed = account[t].committed + Due(i, t)
      BY <1>1, <1>3, <2>3, ChargeAccount
    <3>2. /\ In(t, {"billed"})' + Due(i, t) = In(t, {"billed"}) /\ In(t, {"billed"})' \in Nat
          /\ In(t, Unheld)' = In(t, Unheld) /\ In(t, Served)' = In(t, Served) /\ Due(i, t) \in Nat
      BY <1>1, <1>2, <1>3, <2>2, MovesAll
    <3>3. QED
      BY <1>1, <3>1, <3>2, Figures DEF Shift
  <2>5. QED
    BY <1>1, <1>3, <2>1, <2>4
<1>4. CASE place[i] = "unpaid" /\ UNCHANGED account
  <2>1. stage = "sending"
    BY <1>4, UnderWay DEF Answers
  <2>2. place[i] \notin Unheld /\ place[i] \notin Served
    BY <1>4 DEF Unheld, Served, Holding
  <2>3. QED
    BY <1>1, <1>2, <1>4, <2>1, <2>2, MovesAll, Figures DEF Shift
<1>5. QED
  BY <1>3, <1>4 DEF Settle

LEMMA DeadlineShift ==
  ASSUME Base, NEW i \in Slots, Deadline(i)
  PROVE  /\ stage = "sending" /\ UNCHANGED engineVars
         /\ place[i] \in {"calling", "billed", "free", "unpaid"}
         /\ \A t \in Tenants :
              /\ place[i] = "calling" => Shift(t, Due(i, t), 0 - Due(i, t), 0, 0, 0, 0 - Due(i, t))
              /\ place[i] = "billed" => Shift(t, Due(i, t), 0 - Due(i, t), 0, 0 - Due(i, t), 0, 0 - Due(i, t))
              /\ place[i] = "free" => Shift(t, 0, 0, 0, 0, 0 - Due(i, t), 0)
              /\ place[i] = "unpaid" => Shift(t, 0, 0, 0, 0, 0, 0)
<1>1. TypeOK /\ UNCHANGED engineVars /\ UNCHANGED <<scenario, bill>> /\ Goto(i, "timed_out")
  BY DEF Deadline, Base, engineVars
<1>2. "timed_out" \in Places /\ "timed_out" \notin Unheld /\ "timed_out" \notin Served
  BY DEF Places, Answers, Unheld, Served, Holding
<1>3. place[i] \in {"calling", "billed", "free", "unpaid"}
  BY DEF Deadline
<1>4. stage = "sending"
  BY <1>3, UnderWay DEF Answers
<1>5. CASE place[i] \in {"calling", "billed"}
  <2>1. Charge(i)
    BY <1>5 DEF Deadline
  <2>2. place[i] \notin Unheld /\ place[i] \in Served /\ place[i] \in Holding
    BY <1>5 DEF Unheld, Served, Holding
  <2>3. Cents(i) <= account[Tenant(i)].reserved
    BY <1>1, <2>2, ChargeFits
  <2>4. QED
    BY <1>1, <1>2, <1>4, <1>5, <2>1, <2>2, <2>3, MovesAll, ChargeAccount, Figures DEF Shift
<1>6. CASE place[i] \in {"free", "unpaid"}
  <2>1. UNCHANGED account
    BY <1>6 DEF Deadline
  <2>2. place[i] \notin Served /\ (place[i] \in Unheld <=> place[i] = "free")
    BY <1>6 DEF Unheld, Served, Holding
  <2>3. QED
    BY <1>1, <1>2, <1>4, <1>6, <2>1, <2>2, MovesAll, Figures DEF Shift
<1>7. QED
  BY <1>3, <1>5, <1>6

-----------------------------------------------------------------------------
(* The money of an application that never lapsed *)

Spent(t) == account[t].committed + account[t].reserved

Honest == lapses = 0 =>
  /\ \A t \in Tenants : Spent(t) <= Allowance
  /\ \A i \in Slots : place[i] \notin Unheld \cup {"unpaid"}

(* The bill, and what abandoned calls will add to it, is committed or about to be;
   what was read of it stays below what is read later.                       *)
Covered == lapses = 0 /\ ~carried => \A t \in Tenants :
  /\ stage # "preparing" => bill[t] + Owed(t) <= account[t].committed + In(t, {"billed"})
  /\ stage \in Looking => reading.bill[t] <= account[t].committed

LEMMA PlaceAfter ==
  ASSUME TypeOK, NEW i \in Slots, NEW there, Goto(i, there), NEW P, there \notin P,
         \A j \in Slots : place[j] \notin P, UNCHANGED scenario
  PROVE  \A j \in Slots' : place'[j] \notin P
BY RoundsKept DEF Goto, TypeOK

LEMMA HonestInit ==
  ASSUME Init
  PROVE  Honest
<1>1. \A t \in Tenants : account[t].committed = 0 /\ account[t].reserved = 0
  BY DEF Init
<1>2. \A i \in Slots : place[i] \notin Unheld \cup {"unpaid"}
  BY DEF Init, Unheld
<1>3. QED
  BY <1>1, <1>2, Numbers DEF Honest, Spent

LEMMA HonestStep ==
  ASSUME Base, Honest, [Next]_vars
  PROVE  Honest'
<1> DEFINE Bad == Unheld \cup {"unpaid"}
<1>1. SUFFICES ASSUME lapses' = 0
               PROVE  /\ \A t \in Tenants : Spent(t)' <= Allowance
                      /\ \A i \in Slots' : place'[i] \notin Bad
  BY DEF Honest
<1>2. TypeOK /\ Base'
  BY BaseNext DEF Base
<1> DEFINE Kept == lapses = 0
<1>3. ASSUME lapses = 0
      PROVE  /\ \A t \in Tenants : Spent(t) <= Allowance /\ account[t].committed \in Nat /\ account[t].reserved \in Nat
             /\ \A i \in Slots : place[i] \notin Bad
  BY <1>2, <1>3, Figures DEF Honest
<1>4. ASSUME NEW i \in Slots, Gate(i)
      PROVE  /\ \A t \in Tenants : Spent(t)' <= Allowance
             /\ \A j \in Slots' : place'[j] \notin Bad
  <2>1. lapses = 0 /\ UNCHANGED account
    BY <1>1, <1>4 DEF Gate, historyVars
  <2>2. \A j \in Slots' : place'[j] \notin Bad
    <3>1. place' \in [Slots -> Places] /\ Slots' = Slots /\ \A j \in Slots : place'[j] \in {place[j], "gated", "sent"}
      BY <1>2, <1>4, RoundsKept DEF Gate, engineVars, TypeOK, Places
    <3>2. "gated" \notin Bad /\ "sent" \notin Bad
      BY DEF Unheld
    <3>3. QED
      BY <1>3, <2>1, <3>1, <3>2
  <2>3. QED
    BY <1>3, <2>1, <2>2 DEF Spent
<1>5. ASSUME NEW i \in Slots, Reserve(i)
      PROVE  /\ \A t \in Tenants : Spent(t)' <= Allowance
             /\ \A j \in Slots' : place'[j] \notin Bad
  <2>1. lapses = 0 /\ UNCHANGED scenario
    BY <1>1, <1>5 DEF Reserve, historyVars, engineVars
  <2>2. \A t \in Tenants : Spent(t)' <= Allowance
    <3>1. SUFFICES ASSUME NEW t \in Tenants PROVE Spent(t)' <= Allowance
      OBVIOUS
    <3>2. Due(i, t) \in Nat
      BY <1>2, SlotType
    <3>3. CASE HasRoom(i)
      <4>1. Shift(t, 0, Due(i, t), 0, 0, 0, Due(i, t))
        BY <1>5, <3>3, ReserveShift
      <4>2. CASE Tenant(i) = t
        BY <1>3, <2>1, <3>2, <3>3, <4>1, <4>2 DEF Shift, Spent, HasRoom, Due
      <4>3. CASE Tenant(i) # t
        BY <1>3, <2>1, <3>2, <4>1, <4>3 DEF Shift, Spent, Due
      <4>4. QED
        BY <4>2, <4>3
    <3>4. CASE ~HasRoom(i)
      <4>1. Shift(t, 0, 0, 0, 0, 0, 0)
        BY <1>5, <3>4, ReserveShift
      <4>2. QED
        BY <1>3, <2>1, <4>1 DEF Shift, Spent
    <3>5. QED
      BY <3>3, <3>4
  <2>3. Goto(i, "held") \/ Goto(i, "no_allowance")
    BY <1>5 DEF Reserve
  <2>4. "held" \notin Bad /\ "no_allowance" \notin Bad
    BY DEF Unheld
  <2>5. QED
    BY <1>2, <1>3, <2>1, <2>2, <2>3, <2>4, PlaceAfter
<1>6. ASSUME NEW i \in Slots, Call(i)
      PROVE  /\ \A t \in Tenants : Spent(t)' <= Allowance
             /\ \A j \in Slots' : place'[j] \notin Bad
  <2>1. lapses = 0 /\ UNCHANGED account /\ UNCHANGED scenario /\ place[i] \in {"held", "freed"}
        /\ Goto(i, IF place[i] = "held" THEN "calling" ELSE "free")
    BY <1>1, <1>6 DEF Call, historyVars, engineVars
  <2>2. place[i] # "freed" /\ "calling" \notin Bad
    BY <1>3, <2>1 DEF Unheld
  <2>3. Goto(i, "calling")
    BY <2>1, <2>2
  <2>4. QED
    BY <1>2, <1>3, <2>1, <2>2, <2>3, PlaceAfter DEF Spent
<1>7. ASSUME NEW i \in Slots, Bill(i)
      PROVE  /\ \A t \in Tenants : Spent(t)' <= Allowance
             /\ \A j \in Slots' : place'[j] \notin Bad
  <2>1. lapses = 0 /\ UNCHANGED account /\ UNCHANGED scenario /\ place[i] \in {"calling", "free"}
        /\ Goto(i, IF place[i] = "calling" THEN "billed" ELSE "unpaid")
    BY <1>1, <1>7 DEF Bill, Busy, historyVars, engineVars
  <2>2. place[i] # "free" /\ "billed" \notin Bad
    BY <1>3, <2>1 DEF Unheld
  <2>3. Goto(i, "billed")
    BY <2>1, <2>2
  <2>4. QED
    BY <1>2, <1>3, <2>1, <2>2, <2>3, PlaceAfter DEF Spent
<1>8. ASSUME NEW i \in Slots, Settle(i)
      PROVE  /\ \A t \in Tenants : Spent(t)' <= Allowance
             /\ \A j \in Slots' : place'[j] \notin Bad
  <2>1. lapses = 0 /\ UNCHANGED scenario /\ Goto(i, "ok") /\ place[i] \in {"billed", "unpaid"}
    BY <1>1, <1>8 DEF Settle, historyVars, engineVars
  <2>2. place[i] = "billed" /\ "ok" \notin Bad
    BY <1>3, <2>1 DEF Unheld
  <2>3. \A t \in Tenants : Spent(t)' <= Allowance
    <3>1. SUFFICES ASSUME NEW t \in Tenants PROVE Spent(t)' <= Allowance
      OBVIOUS
    <3>2. Shift(t, Due(i, t), 0 - Due(i, t), 0, 0 - Due(i, t), 0, 0) /\ Due(i, t) \in Nat
      BY <1>2, <1>8, <2>2, SettleShift, SlotType
    <3>3. QED
      BY <1>3, <2>1, <3>2 DEF Shift, Spent
  <2>4. QED
    BY <1>2, <1>3, <2>1, <2>2, <2>3, PlaceAfter
<1>9. ASSUME NEW i \in Slots, Deadline(i)
      PROVE  /\ \A t \in Tenants : Spent(t)' <= Allowance
             /\ \A j \in Slots' : place'[j] \notin Bad
  <2>1. lapses = 0 /\ UNCHANGED scenario /\ Goto(i, "timed_out")
    BY <1>1, <1>9 DEF Deadline, engineVars
  <2>2. place[i] \in {"calling", "billed"} /\ "timed_out" \notin Bad
    BY <1>3, <1>9, <2>1, DeadlineShift DEF Unheld
  <2>3. \A t \in Tenants : Spent(t)' <= Allowance
    <3>1. SUFFICES ASSUME NEW t \in Tenants PROVE Spent(t)' <= Allowance
      OBVIOUS
    <3>2. Due(i, t) \in Nat
      BY <1>2, SlotType
    <3>3. account'[t].committed = account[t].committed + Due(i, t)
          /\ account'[t].reserved = account[t].reserved + (0 - Due(i, t))
      BY <1>9, <2>2, DeadlineShift DEF Shift
    <3>4. QED
      BY <1>3, <2>1, <3>2, <3>3 DEF Spent
  <2>4. QED
    BY <1>2, <1>3, <2>1, <2>2, <2>3, PlaceAfter
<1>10. ASSUME NEW i \in Slots, Lapse(i)
       PROVE  FALSE
  BY <1>1, <1>2, <1>10 DEF Lapse, TypeOK
<1>11. CASE Prepare
  <2>1. lapses = 0 /\ UNCHANGED <<scenario, place>>
        /\ account' = [t \in Tenants |-> [reserved |-> 0, committed |-> Opening(t)]]
    BY <1>1, <1>11 DEF Prepare, historyVars
  <2>2. \A t \in Tenants : Spent(t)' <= Allowance
    BY <2>1, Numbers DEF Spent, Opening
  <2>3. QED
    BY <1>3, <2>1, <2>2, RoundsKept
<1>12. CASE Judge
  <2>1. lapses = 0 /\ UNCHANGED account /\ place' = [i \in Slots' |-> "starting"]
    BY <1>1, <1>12, JudgeParts
  <2>2. "starting" \notin Bad
    BY DEF Unheld
  <2>3. QED
    BY <1>3, <2>1, <2>2 DEF Spent
<1>13. CASE LateBill \/ EndRound \/ ReadLedger \/ ReadStats \/ ReadUsage \/ Rest \/ UNCHANGED vars
  <2>1. lapses = 0 /\ UNCHANGED <<scenario, place, account>>
    BY <1>1, <1>13 DEF LateBill, EndRound, ReadLedger, ReadStats, ReadUsage, Rest, vars, engineVars, historyVars
  <2>2. QED
    BY <1>3, <2>1, RoundsKept DEF Spent
<1>14. QED
  BY <1>4, <1>5, <1>6, <1>7, <1>8, <1>9, <1>10, <1>11, <1>12, <1>13 DEF Next, Application, Engine

LEMMA CoveredInit ==
  ASSUME Init
  PROVE  Covered
BY DEF Init, Covered, Looking

(* While the application works, only the first half of Covered is at stake. *)
LEMMA CoveredSending ==
  ASSUME Base, Covered, stage = "sending", UNCHANGED engineVars, lapses' = 0 => lapses = 0,
         carried' = carried,
         \A t \in Tenants : lapses = 0 =>
           (bill[t] + Owed(t) <= account[t].committed + In(t, {"billed"})
             => (bill[t] + Owed(t) <= account[t].committed + In(t, {"billed"}))')
  PROVE  Covered'
BY DEF Covered, engineVars, Looking

LEMMA CoveredStep ==
  ASSUME Base, Honest, Covered, [Next]_vars
  PROVE  Covered'
<1>1. TypeOK /\ Base' /\ \A t : Owed(t) \in Nat
  BY BaseNext, OwedNat DEF Base
<1>2. UNCHANGED <<scenario, late>> => \A t : Owed(t)' = Owed(t)
  BY DEF Owed
<1>2a. \A t : Owed(t)' \in Nat
  <2>1. IsFiniteSet(late') /\ late' \subseteq AllLate
    BY <1>1 DEF Base, Structure
  <2>2. PICK l : l = late'
    OBVIOUS
  <2>3. PICK s : s = scenario'
    OBVIOUS
  <2>4. \A t : Over(Owing(s, t, l), LateCents) \in Nat
    BY <2>1, <2>2, OwedType
  <2>5. QED
    BY <2>2, <2>3, <2>4 DEF Owed
<1>3. ASSUME NEW i \in Slots, Gate(i)
      PROVE  Covered'
  <2>1. UNCHANGED <<scenario, late, carried, lapses>>
    BY <1>3 DEF Gate, engineVars, bookVars, historyVars
  <2>2. stage = "sending" /\ UNCHANGED engineVars /\ \A t \in Tenants : Shift(t, 0, 0, 0, 0, 0, 0)
    BY <1>3, GateShift
  <2>3. QED
    BY <1>1, <1>2, <2>1, <2>2, CoveredSending, Figures DEF Shift
<1>4. ASSUME NEW i \in Slots, Reserve(i)
      PROVE  Covered'
  <2>1. UNCHANGED <<scenario, late, carried, lapses>>
    BY <1>4 DEF Reserve, engineVars, bookVars, historyVars
  <2>2. stage = "sending" /\ UNCHANGED engineVars
        /\ \A t \in Tenants : /\ account'[t].committed = account[t].committed + 0
                              /\ bill'[t] = bill[t] + 0 /\ In(t, {"billed"})' = In(t, {"billed"}) + 0
    BY <1>4, ReserveShift DEF Shift
  <2>3. QED
    BY <1>1, <1>2, <2>1, <2>2, CoveredSending, Figures
<1>5. ASSUME NEW i \in Slots, Call(i)
      PROVE  Covered'
  <2>1. UNCHANGED <<scenario, late, carried, lapses>>
    BY <1>5 DEF Call, engineVars, historyVars
  <2>2. stage = "sending" /\ UNCHANGED engineVars /\ \A t \in Tenants : Shift(t, 0, 0, 0, 0, 0, 0)
    BY <1>5, CallShift
  <2>3. QED
    BY <1>1, <1>2, <2>1, <2>2, CoveredSending, Figures DEF Shift
<1>6. ASSUME NEW i \in Slots, Bill(i)
      PROVE  Covered'
  <2>1. UNCHANGED <<scenario, late, carried, lapses>> /\ place[i] \in {"calling", "free"}
    BY <1>6 DEF Bill, Busy, engineVars, historyVars
  <2>2. lapses = 0 => place[i] = "calling"
    BY <2>1 DEF Honest, Unheld
  <2>3. stage = "sending" /\ UNCHANGED engineVars
        /\ \A t \in Tenants : lapses = 0 => Shift(t, 0, 0, Due(i, t), Due(i, t), 0, 0)
    BY <1>6, <2>2, BillShift
  <2>4. \A t \in Tenants : Due(i, t) \in Nat
    BY <1>1, SlotType
  <2>5. QED
    BY <1>1, <1>2, <2>1, <2>3, <2>4, CoveredSending, Figures DEF Shift
<1>7. ASSUME NEW i \in Slots, Settle(i)
      PROVE  Covered'
  <2>1. UNCHANGED <<scenario, late, carried, lapses>> /\ place[i] \in {"billed", "unpaid"}
    BY <1>7 DEF Settle, engineVars, bookVars, historyVars
  <2>2. lapses = 0 => place[i] = "billed"
    BY <2>1 DEF Honest, Unheld
  <2>3. stage = "sending" /\ UNCHANGED engineVars
        /\ \A t \in Tenants : lapses = 0 => Shift(t, Due(i, t), 0 - Due(i, t), 0, 0 - Due(i, t), 0, 0)
    BY <1>7, <2>2, SettleShift
  <2>4. \A t \in Tenants : Due(i, t) \in Nat
    BY <1>1, SlotType
  <2>5. QED
    BY <1>1, <1>2, <2>1, <2>3, <2>4, CoveredSending, Figures DEF Shift
<1>8. ASSUME NEW i \in Slots, Deadline(i)
      PROVE  Covered'
  <2>1. UNCHANGED <<scenario, carried, lapses>>
    BY <1>8 DEF Deadline, engineVars
  <2>2. stage = "sending" /\ UNCHANGED engineVars /\ place[i] \in {"calling", "billed", "free", "unpaid"}
    BY <1>8, DeadlineShift
  <2>3. lapses = 0 => place[i] \in {"calling", "billed"}
    BY <2>2 DEF Honest, Unheld
  <2>4. SUFFICES ASSUME NEW t \in Tenants, lapses = 0,
                        bill[t] + Owed(t) <= account[t].committed + In(t, {"billed"})
                 PROVE  (bill[t] + Owed(t) <= account[t].committed + In(t, {"billed"}))'
    BY <2>1, <2>2, CoveredSending
  <2>5. Due(i, t) \in Nat /\ Owed(t) \in Nat /\ Owed(t)' \in Nat
    BY <1>1, <1>2a, SlotType
  <2>6. CASE place[i] = "calling"
    <3>1. Shift(t, Due(i, t), 0 - Due(i, t), 0, 0, 0, 0 - Due(i, t))
      BY <1>8, <2>6, DeadlineShift
    <3>2. Owed(t)' <= Owed(t) + Due(i, t)
      <4>1. late' = late \cup {Left(i)} /\ Left(i) \in AllLate
        BY <1>8, <2>6, DeadlineLeaves
      <4>2. PICK x \in AllLate : x = Left(i)
        BY <4>1
      <4>3. PICK l : l = late
        OBVIOUS
      <4>4. PICK s \in Scenarios : s = scenario
        BY <1>1 DEF TypeOK
      <4>5. IsFiniteSet(l) /\ l \subseteq AllLate
        BY <4>3, BaseLate
      <4>6. Over(Owing(s, t, l \cup {x}), LateCents)
              <= Over(Owing(s, t, l), LateCents)
                   + (IF x.scenario = s /\ x.tenant = t THEN x.cents ELSE 0)
        BY <4>2, <4>5, OwedAdds
      <4>7. (IF x.scenario = s /\ x.tenant = t THEN x.cents ELSE 0) = Due(i, t)
        BY <4>2, <4>4 DEF Left, Due
      <4>8. QED
        BY <2>1, <4>1, <4>2, <4>3, <4>4, <4>6, <4>7 DEF Owed
    <3>3. QED
      BY <1>1, <2>4, <2>5, <3>1, <3>2, Figures DEF Shift
  <2>7. CASE place[i] = "billed"
    <3>1. Shift(t, Due(i, t), 0 - Due(i, t), 0, 0 - Due(i, t), 0, 0 - Due(i, t))
      BY <1>8, <2>7, DeadlineShift
    <3>2. Owed(t)' = Owed(t)
      <4>1. late' = late
        BY <1>8, <2>7, DeadlineLeaves
      <4>2. QED
        BY <1>2, <2>1, <4>1
    <3>3. QED
      BY <1>1, <2>4, <2>5, <3>1, <3>2, Figures DEF Shift
  <2>8. QED
    BY <2>3, <2>4, <2>6, <2>7
<1>9. ASSUME NEW i \in Slots, Lapse(i)
      PROVE  Covered'
  <2>1. lapses' # 0
    BY <1>1, <1>9 DEF Lapse, TypeOK
  <2>2. QED
    BY <2>1 DEF Covered
<1>10. CASE LateBill
  <2>1. UNCHANGED <<scenario, stage, place, account, lapses, reading>>
    BY <1>10 DEF LateBill, engineVars, historyVars
  <2>2. PICK x \in late :
          /\ x \in AllLate /\ late' = late \ {x}
          /\ \A t \in Tenants : bill'[t] = bill[t] + (IF x.tenant = t THEN x.cents ELSE 0)
          /\ carried' = (carried \/ x.scenario # scenario)
    BY <1>10, LateBillParts
  <2>3. SUFFICES ASSUME NEW t \in Tenants, lapses = 0, ~carried, x.scenario = scenario
                 PROVE  (/\ stage # "preparing" => bill[t] + Owed(t) <= account[t].committed + In(t, {"billed"})
                         /\ stage \in Looking => reading.bill[t] <= account[t].committed)'
    BY <2>1, <2>2 DEF Covered
  <2>4. Owed(t) = Owed(t)' + (IF x.tenant = t THEN x.cents ELSE 0)
    <3>1. PICK l : l = late
      OBVIOUS
    <3>2. PICK s \in Scenarios : s = scenario
      BY <1>1 DEF TypeOK
    <3>3. IsFiniteSet(l) /\ l \subseteq AllLate /\ x \in l
      BY <3>1, BaseLate
    <3>4. Over(Owing(s, t, l), LateCents)
            = Over(Owing(s, t, l \ {x}), LateCents)
                + (IF x.scenario = s /\ x.tenant = t THEN x.cents ELSE 0)
      BY <3>3, OwedDrops
    <3>5. QED
      BY <2>1, <2>2, <2>3, <3>1, <3>2, <3>4 DEF Owed
  <2>5. In(t, {"billed"})' = In(t, {"billed"})
    BY <2>1, StaysIn
  <2>6. x.cents \in Nat /\ Owed(t)' \in Nat
    BY <1>2a, <2>2 DEF AllLate
  <2>7. QED
    BY <1>1, <2>1, <2>2, <2>3, <2>4, <2>5, <2>6, Figures DEF Covered
<1>11. CASE Prepare
  <2>1. /\ stage = "preparing" /\ stage' = "sending"
        /\ UNCHANGED <<scenario, place, late>>
        /\ account' = [t \in Tenants |-> [reserved |-> 0, committed |-> Opening(t)]]
        /\ bill' = [t \in Tenants |-> Opening(t)]
    BY <1>11 DEF Prepare
  <2>2. ASSUME NEW t \in Tenants
        PROVE  In(t, {"billed"})' = 0 /\ Owed(t)' = 0
    <3>1. \A i \in Slots : place[i] \notin {"billed"}
      BY <2>1 DEF Base, Structure
    <3>2. In(t, {"billed"}) = 0
      BY <1>1, <3>1, InType
    <3>3. Owing(scenario, t, late) = {}
      BY <2>1 DEF Base, Structure, Owing
    <3>4. Owed(t) = 0
      BY <3>3, OverEmpty DEF Owed
    <3>5. QED
      BY <1>2, <2>1, <3>2, <3>4, StaysIn
  <2>3. \A t \in Tenants : Opening(t) \in Nat
    BY Numbers DEF Opening
  <2>4. QED
    BY <2>1, <2>2, <2>3 DEF Covered, Looking
<1>12. ASSUME stage \in {"sending"} \cup After, stage' \in After, Gathered,
              UNCHANGED <<scenario, place, account, bill, late, carried, lapses>>,
              stage' = "stats" => reading'.bill = bill,
              stage' \in {"usage", "judging"} => stage \in Looking /\ reading'.bill = reading.bill
       PROVE  Covered'
  <2>1. SUFFICES ASSUME NEW t \in Tenants, lapses = 0, ~carried
                 PROVE  (/\ stage # "preparing" => bill[t] + Owed(t) <= account[t].committed + In(t, {"billed"})
                         /\ stage \in Looking => reading.bill[t] <= account[t].committed)'
    BY <1>12 DEF Covered
  <2>2. stage # "preparing" /\ bill[t] + Owed(t) <= account[t].committed + In(t, {"billed"})
    BY <1>12, <2>1 DEF Covered, After
  <2>3. \A i \in Slots : place[i] \notin {"billed"}
    BY <1>12 DEF Gathered, Answers
  <2>4. In(t, {"billed"}) = 0 /\ In(t, {"billed"})' = 0 /\ Owed(t)' = Owed(t)
    BY <1>1, <1>2, <1>12, <2>3, InType, StaysIn
  <2>5. bill[t] <= account[t].committed
    BY <1>1, <2>2, <2>4, Figures
  <2>6. CASE stage' = "stats"
    BY <1>12, <2>2, <2>4, <2>5, <2>6
  <2>7. CASE stage' \in {"usage", "judging"}
    BY <1>12, <2>1, <2>2, <2>4, <2>7 DEF Covered
  <2>8. CASE stage' \notin Looking
    BY <1>12, <2>2, <2>4, <2>8
  <2>9. QED
    BY <2>6, <2>7, <2>8 DEF Looking
<1>13. CASE EndRound
  <2>1. stage = "sending" /\ stage' = "ledger" /\ Gathered
        /\ UNCHANGED <<scenario, place, account, bill, late, carried, lapses>>
    BY <1>13 DEF EndRound, bookVars, historyVars
  <2>2. QED
    BY <1>12, <2>1 DEF After
<1>14. CASE ReadLedger
  <2>1. stage = "ledger" /\ stage' = "stats" /\ Gathered /\ reading'.bill = bill
        /\ UNCHANGED <<scenario, place, account, bill, late, carried, lapses>>
    BY <1>14 DEF ReadLedger, bookVars, historyVars, Unread, Base, Structure, After
  <2>2. QED
    BY <1>12, <2>1 DEF After
<1>15. CASE ReadStats
  <2>1. stage = "stats" /\ stage' = "usage" /\ Gathered /\ reading'.bill = reading.bill
        /\ UNCHANGED <<scenario, place, account, bill, late, carried, lapses>>
    BY <1>15 DEF ReadStats, bookVars, historyVars, Base, TypeOK, Structure, After
  <2>2. QED
    BY <1>12, <2>1 DEF After, Looking
<1>16. CASE ReadUsage
  <2>1. stage = "usage" /\ stage' \in {"usage", "judging"} /\ Gathered
        /\ UNCHANGED <<scenario, place, account, bill, late, carried, lapses>>
    BY <1>16 DEF ReadUsage, bookVars, historyVars, Base, Structure, After
  <2>2. reading'.bill = reading.bill
    BY <1>16, UsageRead
  <2>3. QED
    BY <1>12, <2>1, <2>2 DEF After, Looking
<1>17. CASE Judge
  <2>1. /\ stage = "judging" /\ Gathered /\ stage' \in {"sending", "preparing", "done"}
        /\ UNCHANGED <<account, bill, late, carried, lapses>>
        /\ (stage' # "preparing" => UNCHANGED scenario)
        /\ scenario' \in Scenarios
        /\ Slots' = DOMAIN Load[scenario'] /\ place' = [i \in Slots' |-> "starting"]
    BY <1>17, JudgeParts
  <2>2. SUFFICES ASSUME NEW t \in Tenants, lapses = 0, ~carried, stage' # "preparing"
                 PROVE  (bill[t] + Owed(t) <= account[t].committed + In(t, {"billed"}))'
    BY <2>1 DEF Covered, Looking
  <2>3. bill[t] + Owed(t) <= account[t].committed + In(t, {"billed"})
    BY <2>1, <2>2 DEF Covered
  <2>4. \A i \in Slots : place[i] \notin {"billed"}
    BY <2>1 DEF Gathered, Answers
  <2>5. In(t, {"billed"}) = 0
    BY <1>1, <2>4, InType
  <2>6. In(t, {"billed"})' = 0
    BY <2>1, AmountNone DEF In
  <2>7. QED
    BY <1>2, <2>1, <2>2, <2>3, <2>5, <2>6
<1>18. CASE Rest \/ UNCHANGED vars
  <2>1. UNCHANGED <<scenario, stage, place, account, bill, late, carried, lapses, reading>>
    BY <1>18 DEF Rest, vars
  <2>2. QED
    BY <1>2, <2>1, StaysIn DEF Covered
<1>19. QED
  BY <1>3, <1>4, <1>5, <1>6, <1>7, <1>8, <1>9, <1>10, <1>11, <1>13, <1>14, <1>15, <1>16, <1>17, <1>18
  DEF Next, Application, Engine

LEMMA MoneyHolds == Spec => [](Base /\ Honest /\ Covered)
<1>1. Init => Base /\ Honest /\ Covered
  BY BaseInit, HonestInit, CoveredInit
<1>2. Base /\ Honest /\ Covered /\ [Next]_vars => (Base /\ Honest /\ Covered)'
  BY BaseNext, HonestStep, CoveredStep
<1>3. QED
  BY <1>1, <1>2, PTL DEF Spec

LEMMA NothingFound ==
  ASSUME NEW kind, NEW found, ~found
  PROVE  Found(kind, found) = {}
BY DEF Found

(* No partition is overspent, so the whole bill stays below the cap. *)
LEMMA BelowCap ==
  ASSUME TypeOK, \A t \in Tenants : reading.bill[t] <= Allowance
  PROVE  ~(Total(reading.bill) > Cap) /\ Total(reading.bill) \in Nat
<1>1. reading.bill \in [Tenants -> Nat]
  BY DEF TypeOK
<1>2. Over(Tenants, reading.bill) = Total(reading.bill)
  BY <1>1 DEF Over
<1>3. PICK b \in [Tenants -> Nat] : b = reading.bill
  BY <1>1
<1>4. Over(Tenants, b) \in Nat /\ Over(Tenants, b) <= Cardinality(Tenants) * Allowance
  BY <1>3, Numbers, OverType, OverCapped
<1>5. Cardinality(Tenants) * Allowance = Allowance * Cardinality(Tenants)
  BY Numbers
<1>6. Cardinality(Tenants) * Allowance \in Nat
  BY Numbers
<1>7. Allowance * Cardinality(Tenants) <= Cap
  BY HarnessAssumption
<1>8. QED
  BY <1>2, <1>3, <1>4, <1>5, <1>6, <1>7, Numbers

LEMMA MoneyQuiet ==
  ASSUME Base, Honest, Covered, stage = "judging", lapses = 0, ~carried
  PROVE  BudgetViolations = {} /\ ~(Total(reading.bill) > Cap)
<1>1. TypeOK /\ reading.left = {}
  BY DEF Base, Structure
<1>2. ASSUME NEW t \in Tenants
      PROVE  /\ reading.usage[t] = account[t].committed /\ reading.usage[t] <= Allowance
             /\ reading.bill[t] <= reading.usage[t] /\ reading.bill[t] <= Allowance
             /\ reading.bill[t] \in Nat /\ reading.usage[t] \in Nat
  <2>1. reading.usage[t] = account[t].committed
    BY <1>1 DEF Base, Seen, Looking
  <2>2. reading.bill[t] <= account[t].committed
    BY DEF Covered, Looking
  <2>3. account[t].committed <= Allowance
    BY <1>1, Figures, Numbers DEF Honest, Spent
  <2>4. reading.bill[t] \in Nat /\ account[t].committed \in Nat
    BY <1>1 DEF TypeOK
  <2>5. QED
    BY <2>1, <2>2, <2>3, <2>4, Numbers
<1>3. ~(\E t \in Tenants : reading.usage[t] > Allowance)
  BY <1>2, Numbers
<1>4. ~(\E t \in Tenants : reading.bill[t] > reading.usage[t])
  BY <1>2
<1>5. BudgetViolations = {}
  BY <1>3, <1>4, NothingFound DEF BudgetViolations
<1>6. QED
  BY <1>1, <1>2, <1>5, BelowCap

(* Nobody is accused falsely: an application that never lapsed is accused by no
   money check of engine.py:145 and :171, although the bill is read before the
   usage and abandoned calls are billed in between, unless its scenario was
   billed for a call of the one before.                                      *)
THEOREM MoneyAlarmsHaveCause == Spec => []MoneyAlarmHasCause
<1>1. Base /\ Honest /\ Covered => MoneyAlarmHasCause
  <2>1. SUFFICES ASSUME Base, Honest, Covered, stage = "judging", lapses = 0, ~carried
                 PROVE  BudgetViolations \cup Found("spend_cap_breached", Total(reading.bill) > Cap) = {}
    BY DEF MoneyAlarmHasCause
  <2>2. BudgetViolations = {} /\ ~(Total(reading.bill) > Cap)
    BY <2>1, MoneyQuiet
  <2>3. QED
    BY <2>2, NothingFound
<1>2. QED
  BY <1>1, MoneyHolds, PTL

-----------------------------------------------------------------------------
(* A lapse, and where it shows *)

(* As long as no deadline fires, whatever is committed or about to be was billed,
   and the bill stands still while it is read.                               *)
Timely == deadlines = 0 =>
  /\ late = {} /\ ~carried
  /\ \A i \in Slots : place[i] # "timed_out"
  /\ stage # "preparing" => \A t \in Tenants : account[t].committed + In(t, {"billed"}) <= bill[t]
  /\ stage \in Looking => reading.bill = bill

(* A bill, or a call to come, that no hold stands for, or a hold beyond the partition. *)
Shows(t) ==
  \/ account[t].committed + In(t, {"billed"}) < bill[t] + In(t, Unheld)
  \/ Spent(t) > Allowance

Traced == deadlines = 0 /\ lapses > 0 /\ MoneyAlarms = {} =>
  /\ stage \notin {"preparing", "done"}
  /\ \E t \in Tenants : Shows(t)

LEMMA TimelyInit ==
  ASSUME Init
  PROVE  Timely
BY DEF Init, Timely, Looking

LEMMA TracedInit ==
  ASSUME Init
  PROVE  Traced
BY DEF Init, Traced

LEMMA TimelySending ==
  ASSUME Base, Timely, stage = "sending", UNCHANGED engineVars,
         deadlines' = deadlines, late' = late, carried' = carried,
         NEW i \in Slots, NEW there, there # "timed_out", Goto(i, there),
         deadlines = 0 => \A t \in Tenants :
           (account[t].committed + In(t, {"billed"}) <= bill[t]
              => (account[t].committed + In(t, {"billed"}) <= bill[t])')
  PROVE  Timely'
<1>1. TypeOK /\ UNCHANGED scenario /\ stage' = "sending"
  BY DEF Base, engineVars
<1>2. deadlines = 0 => \A j \in Slots' : place'[j] # "timed_out"
  BY <1>1, RoundsKept DEF Goto, TypeOK, Timely
<1>3. QED
  BY <1>1, <1>2 DEF Timely, Looking

LEMMA TimelyStep ==
  ASSUME Base, Timely, [Next]_vars
  PROVE  Timely'
<1>1. TypeOK
  BY DEF Base
<1>2. ASSUME NEW i \in Slots, Gate(i)
      PROVE  Timely'
  <2>1. UNCHANGED <<scenario, late, carried, deadlines>>
    BY <1>2 DEF Gate, engineVars, bookVars, historyVars
  <2>2. stage = "sending" /\ stage' = "sending" /\ \A t \in Tenants : Shift(t, 0, 0, 0, 0, 0, 0)
    BY <1>2, GateShift DEF engineVars
  <2>3. deadlines = 0 => \A j \in Slots' : place'[j] # "timed_out"
    <3>1. Slots' = Slots /\ \A j \in Slots : place'[j] \in {place[j], "gated", "sent"}
      BY <1>1, <1>2, <2>1, RoundsKept DEF Gate, TypeOK
    <3>2. QED
      BY <3>1 DEF Timely
  <2>4. deadlines = 0 => \A t \in Tenants : (account[t].committed + In(t, {"billed"}) <= bill[t])'
    BY <1>1, <2>2, Figures DEF Timely, Shift
  <2>5. QED
    BY <2>1, <2>2, <2>3, <2>4 DEF Timely, Looking
<1>3. ASSUME NEW i \in Slots, Reserve(i)
      PROVE  Timely'
  <2>1. UNCHANGED <<late, carried, deadlines>> /\ (Goto(i, "held") \/ Goto(i, "no_allowance"))
    BY <1>3 DEF Reserve, bookVars, historyVars
  <2>2. stage = "sending" /\ UNCHANGED engineVars
        /\ \A t \in Tenants : /\ account'[t].committed = account[t].committed + 0
                              /\ bill'[t] = bill[t] + 0 /\ In(t, {"billed"})' = In(t, {"billed"}) + 0
    BY <1>3, ReserveShift DEF Shift
  <2>3. \A t \in Tenants : (account[t].committed + In(t, {"billed"}) <= bill[t]
                              => (account[t].committed + In(t, {"billed"}) <= bill[t])')
    BY <1>1, <2>2, Figures
  <2>4. QED
    BY <2>1, <2>2, <2>3, TimelySending
<1>4. ASSUME NEW i \in Slots, Call(i)
      PROVE  Timely'
  <2>1. UNCHANGED <<late, carried, deadlines>> /\ (Goto(i, "calling") \/ Goto(i, "free"))
    BY <1>4 DEF Call, historyVars
  <2>2. stage = "sending" /\ UNCHANGED engineVars /\ \A t \in Tenants : Shift(t, 0, 0, 0, 0, 0, 0)
    BY <1>4, CallShift
  <2>3. \A t \in Tenants : (account[t].committed + In(t, {"billed"}) <= bill[t]
                              => (account[t].committed + In(t, {"billed"}) <= bill[t])')
    BY <1>1, <2>2, Figures DEF Shift
  <2>4. QED
    BY <2>1, <2>2, <2>3, TimelySending
<1>5. ASSUME NEW i \in Slots, Bill(i)
      PROVE  Timely'
  <2>1. UNCHANGED <<late, carried, deadlines>> /\ (Goto(i, "billed") \/ Goto(i, "unpaid"))
    BY <1>5 DEF Bill, historyVars
  <2>2. stage = "sending" /\ UNCHANGED engineVars
        /\ \A t \in Tenants :
             IF place[i] = "calling" THEN Shift(t, 0, 0, Due(i, t), Due(i, t), 0, 0)
             ELSE Shift(t, 0, 0, Due(i, t), 0, 0 - Due(i, t), 0)
    BY <1>5, BillShift
  <2>3. \A t \in Tenants : Due(i, t) \in Nat
    BY <1>1, SlotType
  <2>4. \A t \in Tenants : (account[t].committed + In(t, {"billed"}) <= bill[t]
                              => (account[t].committed + In(t, {"billed"}) <= bill[t])')
    BY <1>1, <2>2, <2>3, Figures DEF Shift
  <2>5. QED
    BY <2>1, <2>2, <2>4, TimelySending
<1>6. ASSUME NEW i \in Slots, Settle(i)
      PROVE  Timely'
  <2>1. UNCHANGED <<late, carried, deadlines>> /\ Goto(i, "ok")
    BY <1>6 DEF Settle, bookVars, historyVars
  <2>2. stage = "sending" /\ UNCHANGED engineVars
        /\ \A t \in Tenants :
              IF place[i] = "billed" THEN Shift(t, Due(i, t), 0 - Due(i, t), 0, 0 - Due(i, t), 0, 0)
              ELSE Shift(t, 0, 0, 0, 0, 0, Due(i, t))
    BY <1>6, SettleShift
  <2>3. \A t \in Tenants : Due(i, t) \in Nat
    BY <1>1, SlotType
  <2>4. \A t \in Tenants : (account[t].committed + In(t, {"billed"}) <= bill[t]
                              => (account[t].committed + In(t, {"billed"}) <= bill[t])')
    BY <1>1, <2>2, <2>3, Figures DEF Shift
  <2>5. QED
    BY <2>1, <2>2, <2>4, TimelySending
<1>7. ASSUME NEW i \in Slots, Lapse(i)
      PROVE  Timely'
  <2>1. UNCHANGED <<late, carried, deadlines>> /\ (Goto(i, "held") \/ Goto(i, "freed"))
    BY <1>7 DEF Lapse, bookVars
  <2>2. stage = "sending" /\ UNCHANGED engineVars
        /\ \A t \in Tenants : /\ account'[t].committed = account[t].committed + 0
                              /\ bill'[t] = bill[t] + 0 /\ In(t, {"billed"})' = In(t, {"billed"}) + 0
    BY <1>7, LapseShift DEF Shift
  <2>3. \A t \in Tenants : (account[t].committed + In(t, {"billed"}) <= bill[t]
                              => (account[t].committed + In(t, {"billed"}) <= bill[t])')
    BY <1>1, <2>2, Figures
  <2>4. QED
    BY <2>1, <2>2, <2>3, TimelySending
<1>8. ASSUME NEW i \in Slots, Deadline(i)
      PROVE  Timely'
  <2>1. deadlines' # 0
    BY <1>1, <1>8 DEF Deadline, TypeOK
  <2>2. QED
    BY <2>1 DEF Timely
<1>9. CASE LateBill
  <2>1. late # {} /\ UNCHANGED deadlines
    BY <1>9 DEF LateBill, historyVars
  <2>2. QED
    BY <2>1 DEF Timely
<1>10. CASE Prepare
  <2>1. /\ stage = "preparing" /\ stage' = "sending" /\ UNCHANGED <<scenario, place, late, deadlines>>
        /\ account' = [t \in Tenants |-> [reserved |-> 0, committed |-> Opening(t)]]
        /\ bill' = [t \in Tenants |-> Opening(t)] /\ carried' = FALSE
    BY <1>10 DEF Prepare, historyVars
  <2>2. \A i \in Slots : place[i] \notin {"billed"}
    BY <2>1 DEF Base, Structure
  <2>3. \A t \in Tenants : In(t, {"billed"}) = 0
    BY <1>1, <2>2, InType
  <2>4. \A t \in Tenants : In(t, {"billed"})' = 0
    BY <2>1, <2>3, StaysIn
  <2>5. \A t \in Tenants : Opening(t) \in Nat
    BY Numbers DEF Opening
  <2>6. \A t \in Tenants : (account[t].committed + In(t, {"billed"}) <= bill[t])'
    BY <2>1, <2>4, <2>5
  <2>7. QED
    BY <2>1, <2>6, RoundsKept DEF Timely, Looking
<1>11. CASE EndRound
  <2>1. stage = "sending" /\ stage' = "ledger"
        /\ UNCHANGED <<scenario, place, account, bill, late, carried, deadlines>>
    BY <1>11 DEF EndRound, bookVars, historyVars
  <2>2. QED
    BY <2>1, RoundsKept, StaysIn DEF Timely, Looking
<1>12. CASE ReadLedger
  <2>1. stage = "ledger" /\ stage' = "stats" /\ reading'.bill = bill
        /\ UNCHANGED <<scenario, place, account, bill, late, carried, deadlines>>
    BY <1>12 DEF ReadLedger, bookVars, historyVars, Unread
  <2>2. QED
    BY <2>1, RoundsKept, StaysIn DEF Timely, Looking
<1>13. CASE ReadStats
  <2>1. stage = "stats" /\ stage' = "usage" /\ reading'.bill = reading.bill
        /\ UNCHANGED <<scenario, place, account, bill, late, carried, deadlines>>
    BY <1>1, <1>13 DEF ReadStats, bookVars, historyVars, TypeOK
  <2>2. QED
    BY <2>1, RoundsKept, StaysIn DEF Timely, Looking
<1>14. CASE ReadUsage
  <2>1. stage = "usage" /\ stage' \in {"usage", "judging"}
        /\ UNCHANGED <<scenario, place, account, bill, late, carried, deadlines>>
    BY <1>14 DEF ReadUsage, bookVars, historyVars
  <2>2. reading'.bill = reading.bill
    BY <1>14, UsageRead
  <2>3. QED
    BY <2>1, <2>2, RoundsKept, StaysIn DEF Timely, Looking
<1>15. CASE Judge
  <2>1. /\ stage = "judging" /\ Gathered /\ stage' \in {"sending", "preparing", "done"}
        /\ UNCHANGED <<account, bill, late, carried, deadlines>>
        /\ (stage' # "preparing" => UNCHANGED scenario)
        /\ scenario' \in Scenarios
        /\ Slots' = DOMAIN Load[scenario'] /\ place' = [i \in Slots' |-> "starting"]
    BY <1>15, JudgeParts
  <2>2. \A i \in Slots : place[i] \notin {"billed"}
    BY <2>1 DEF Gathered, Answers
  <2>3. \A t \in Tenants : In(t, {"billed"}) = 0
    BY <1>1, <2>2, InType
  <2>4. \A t \in Tenants : In(t, {"billed"})' = 0
    BY <2>1, AmountNone DEF In
  <2>5. \A i \in Slots' : place'[i] # "timed_out"
    BY <2>1
  <2>6. QED
    BY <2>1, <2>3, <2>4, <2>5 DEF Timely, Looking
<1>16. CASE Rest \/ UNCHANGED vars
  <2>1. UNCHANGED <<scenario, stage, place, account, bill, late, carried, deadlines, reading>>
    BY <1>16 DEF Rest, vars
  <2>2. QED
    BY <2>1, RoundsKept, StaysIn DEF Timely
<1>17. QED
  BY <1>2, <1>3, <1>4, <1>5, <1>6, <1>7, <1>8, <1>9, <1>10, <1>11, <1>12, <1>13, <1>14, <1>15, <1>16
  DEF Next, Application, Engine

LEMMA TracedSending ==
  ASSUME Traced, stage = "sending", UNCHANGED engineVars, UNCHANGED historyVars,
         \A t \in Tenants : Shows(t) => Shows(t)'
  PROVE  Traced'
BY DEF Traced, engineVars, historyVars, MoneyAlarms

LEMMA TracedStep ==
  ASSUME Base, Timely, Traced, [Next]_vars
  PROVE  Traced'
<1>1. TypeOK /\ Timely'
  BY TimelyStep DEF Base
<1>2. ASSUME NEW i \in Slots, Gate(i)
      PROVE  Traced'
  <2>1. stage = "sending" /\ UNCHANGED engineVars /\ \A t \in Tenants : Shift(t, 0, 0, 0, 0, 0, 0)
    BY <1>2, GateShift
  <2>2. \A t \in Tenants : Shows(t) => Shows(t)'
    BY <1>1, <2>1, Figures DEF Shift, Shows, Spent
  <2>3. QED
    BY <1>2, <2>1, <2>2, TracedSending DEF Gate
<1>3. ASSUME NEW i \in Slots, Reserve(i)
      PROVE  Traced'
  <2>1. stage = "sending" /\ UNCHANGED engineVars
        /\ \A t \in Tenants :
             IF HasRoom(i) THEN Shift(t, 0, Due(i, t), 0, 0, 0, Due(i, t)) ELSE Shift(t, 0, 0, 0, 0, 0, 0)
    BY <1>3, ReserveShift
  <2>2. \A t \in Tenants : Due(i, t) \in Nat
    BY <1>1, SlotType
  <2>3. \A t \in Tenants : Shows(t) => Shows(t)'
    BY <1>1, <2>1, <2>2, Figures, Numbers DEF Shift, Shows, Spent
  <2>4. QED
    BY <1>3, <2>1, <2>3, TracedSending DEF Reserve
<1>4. ASSUME NEW i \in Slots, Call(i)
      PROVE  Traced'
  <2>1. stage = "sending" /\ UNCHANGED engineVars /\ \A t \in Tenants : Shift(t, 0, 0, 0, 0, 0, 0)
    BY <1>4, CallShift
  <2>2. \A t \in Tenants : Shows(t) => Shows(t)'
    BY <1>1, <2>1, Figures DEF Shift, Shows, Spent
  <2>3. QED
    BY <1>4, <2>1, <2>2, TracedSending DEF Call
<1>5. ASSUME NEW i \in Slots, Bill(i)
      PROVE  Traced'
  <2>1. stage = "sending" /\ UNCHANGED engineVars
        /\ \A t \in Tenants :
             IF place[i] = "calling" THEN Shift(t, 0, 0, Due(i, t), Due(i, t), 0, 0)
             ELSE Shift(t, 0, 0, Due(i, t), 0, 0 - Due(i, t), 0)
    BY <1>5, BillShift
  <2>2. \A t \in Tenants : Due(i, t) \in Nat
    BY <1>1, SlotType
  <2>3. \A t \in Tenants : Shows(t) => Shows(t)'
    BY <1>1, <2>1, <2>2, Figures, Numbers DEF Shift, Shows, Spent
  <2>4. QED
    BY <1>5, <2>1, <2>3, TracedSending DEF Bill
<1>6. ASSUME NEW i \in Slots, Settle(i)
      PROVE  Traced'
  <2>1. stage = "sending" /\ UNCHANGED engineVars
        /\ \A t \in Tenants :
             IF place[i] = "billed" THEN Shift(t, Due(i, t), 0 - Due(i, t), 0, 0 - Due(i, t), 0, 0)
             ELSE Shift(t, 0, 0, 0, 0, 0, Due(i, t))
    BY <1>6, SettleShift
  <2>2. \A t \in Tenants : Due(i, t) \in Nat
    BY <1>1, SlotType
  <2>3. \A t \in Tenants : Shows(t) => Shows(t)'
    BY <1>1, <2>1, <2>2, Figures, Numbers DEF Shift, Shows, Spent
  <2>4. QED
    BY <1>6, <2>1, <2>3, TracedSending DEF Settle
<1>7. ASSUME NEW i \in Slots, Lapse(i), deadlines = 0
      PROVE  Traced'
  <2>1. stage = "sending" /\ stage' = "sending"
        /\ \/ \A t \in Tenants : Shift(t, 0, 0, 0, 0, Due(i, t), 0)
           \/ ~HasRoom(i) /\ \A t \in Tenants : Shift(t, 0, Due(i, t), 0, 0, 0, Due(i, t))
    BY <1>7, LapseShift DEF engineVars
  <2>2. PICK t \in Tenants : t = Tenant(i)
    BY <1>1, SlotType
  <2>3. Due(i, t) = Cents(i) /\ Cents(i) \in Nat /\ 0 < Cents(i)
    BY <1>1, <2>2, SlotType DEF Due
  <2>4. account[t].committed + In(t, {"billed"}) <= bill[t]
    BY <1>7, <2>1 DEF Timely
  <2>5. Shows(t)'
    <3>1. CASE Shift(t, 0, 0, 0, 0, Due(i, t), 0)
      BY <1>1, <2>3, <2>4, <3>1, Figures DEF Shift, Shows
    <3>2. CASE ~HasRoom(i) /\ Shift(t, 0, Due(i, t), 0, 0, 0, Due(i, t))
      BY <1>1, <2>2, <2>3, <3>2, Figures, Numbers DEF Shift, Shows, Spent, HasRoom
    <3>3. QED
      BY <2>1, <3>1, <3>2
  <2>6. QED
    BY <2>1, <2>5 DEF Traced
<1>8. ASSUME NEW i \in Slots, Deadline(i)
      PROVE  Traced'
  <2>1. deadlines' # 0
    BY <1>1, <1>8 DEF Deadline, TypeOK
  <2>2. QED
    BY <2>1 DEF Traced
<1>9. CASE LateBill
  <2>1. late # {} /\ UNCHANGED deadlines
    BY <1>9 DEF LateBill, historyVars
  <2>2. QED
    BY <2>1 DEF Timely, Traced
<1>10. CASE Prepare
  <2>1. stage = "preparing" /\ UNCHANGED <<alarms, deadlines, lapses>>
    BY <1>10 DEF Prepare, historyVars
  <2>2. QED
    BY <2>1 DEF Traced, MoneyAlarms
<1>11. CASE EndRound \/ ReadLedger \/ ReadStats \/ ReadUsage
  <2>1. /\ stage \notin {"preparing", "done"} /\ stage' \notin {"preparing", "done"}
        /\ UNCHANGED <<scenario, place, account, bill, alarms, deadlines, lapses>>
    BY <1>11 DEF EndRound, ReadLedger, ReadStats, ReadUsage, bookVars, historyVars
  <2>2. \A t \in Tenants : Shows(t) => Shows(t)'
    BY <2>1, StaysIn DEF Shows, Spent
  <2>3. QED
    BY <2>1, <2>2 DEF Traced, MoneyAlarms
<1>12. CASE Judge
  <2>1. SUFFICES ASSUME deadlines' = 0, lapses' > 0, MoneyAlarms' = {}
                 PROVE  FALSE
    BY DEF Traced
  <2>2. /\ stage = "judging" /\ Gathered /\ reading.left = {}
        /\ UNCHANGED <<account, bill, deadlines, lapses>>
        /\ alarms' = alarms \cup BudgetViolations \cup CheckCommon \cup CheckWork \cup IsolationExtra
    BY <1>12, JudgeParts DEF Judge
  <2>3. MoneyAlarms = {}
    BY <2>1, <2>2 DEF MoneyAlarms
  <2>4. PICK t \in Tenants : Shows(t)
    BY <2>1, <2>2, <2>3 DEF Traced
  <2>5. \A i \in Slots : /\ place[i] \notin {"billed"} /\ place[i] \notin Unheld /\ place[i] \notin Holding
    BY <2>2 DEF Gathered, Answers, Unheld, Holding
  <2>6. In(t, {"billed"}) = 0 /\ In(t, Unheld) = 0 /\ account[t].reserved = 0
    BY <1>1, <2>5, InType DEF Base, Reserved
  <2>7. reading.usage[t] = account[t].committed /\ reading.bill[t] = bill[t]
    BY <2>1, <2>2 DEF Base, Seen, Timely, Looking
  <2>8. reading.bill[t] > reading.usage[t] \/ reading.usage[t] > Allowance
    BY <1>1, <2>4, <2>6, <2>7, Figures, Numbers DEF Shows, Spent
  <2>9. PICK kind \in MoneyKinds : [scenario |-> scenario, kind |-> kind] \in BudgetViolations
    <3>1. CASE reading.bill[t] > reading.usage[t]
      BY <3>1 DEF BudgetViolations, Found, MoneyKinds
    <3>2. CASE reading.usage[t] > Allowance
      BY <3>2 DEF BudgetViolations, Found, MoneyKinds
    <3>3. QED
      BY <2>8, <3>1, <3>2
  <2>10. [scenario |-> scenario, kind |-> kind] \in MoneyAlarms'
    BY <2>2, <2>9 DEF MoneyAlarms
  <2>11. QED
    BY <2>1, <2>10
<1>13. CASE Rest \/ UNCHANGED vars
  <2>1. UNCHANGED <<scenario, stage, place, account, bill, alarms, deadlines, lapses>>
    BY <1>13 DEF Rest, vars
  <2>2. \A t \in Tenants : Shows(t) => Shows(t)'
    BY <2>1, StaysIn DEF Shows, Spent
  <2>3. QED
    BY <2>1, <2>2 DEF Traced, MoneyAlarms
<1>14. ASSUME NEW i \in Slots, Lapse(i)
       PROVE  Traced'
  <2>1. CASE deadlines = 0
    BY <1>7, <1>14, <2>1
  <2>2. CASE deadlines # 0
    BY <1>14, <2>2 DEF Lapse, Traced
  <2>3. QED
    BY <2>1, <2>2
<1>15. QED
  BY <1>2, <1>3, <1>4, <1>5, <1>6, <1>8, <1>9, <1>10, <1>11, <1>12, <1>13, <1>14
  DEF Next, Application, Engine

(* A lapse is reported: whatever was billed without a hold or held beyond the
   partition stands in the readings of its round, and engine.py:171 finds it,
   as long as no deadline took a charge of its own.                          *)
THEOREM LapsesAreReported == Spec => []LapseIsReported
<1>1. Init => Base /\ Timely /\ Traced
  BY BaseInit, TimelyInit, TracedInit
<1>2. Base /\ Timely /\ Traced /\ [Next]_vars => (Base /\ Timely /\ Traced)'
  BY BaseNext, TimelyStep, TracedStep
<1>3. Traced => LapseIsReported
  BY DEF Traced, LapseIsReported
<1>4. QED
  BY <1>1, <1>2, <1>3, PTL DEF Spec

-----------------------------------------------------------------------------
(* A calm run: no lapse, no deadline, and a load that fits *)

(* What a tenant has been asked for up to and including this round. *)
Asked(t) == round * Named(scenario, t)

(* Only the spender is refused, and only once its partition is all but spent. *)
Turned == \A i \in Slots :
  place[i] = "no_allowance" => refused /\ scenario = "isolation" /\ Tenant(i) = Spender

(* The others have spent no more than they have been asked for. *)
Within == stage \notin {"preparing", "done"} => \A t \in Tenants :
  (scenario = "isolation" => t # Spender) =>
    Spent(t) + Named(scenario, t) <= Opening(t) + Asked(t) + In(t, Served)

(* The spender has spent no less, as long as nothing of it was refused. *)
Pressed == stage # "preparing" /\ scenario = "isolation" =>
  IF refused THEN Spent(Spender) + OneRequest > Allowance
  ELSE Opening(Spender) + Asked(Spender) + In(Spender, Served) <= Spent(Spender) + Named(scenario, Spender)

Quiet == alarms = {} /\ peak <= Capacity /\ reading.peak <= Capacity

Calm    == Quiet /\ Turned /\ Within /\ Pressed
CalmInv == LoadFits /\ deadlines = 0 /\ lapses = 0 => Calm

LEMMA AskedNat ==
  ASSUME TypeOK
  PROVE  \A t : Asked(t) \in Nat /\ Named(scenario, t) \in Nat
<1>1. round \in Nat
  BY Numbers DEF TypeOK
<1>2. ASSUME NEW t
      PROVE  Asked(t) \in Nat /\ Named(scenario, t) \in Nat
  <2>1. Named(scenario, t) \in Nat
    BY InType
  <2>2. PICK n \in Nat, r \in Nat : n = Named(scenario, t) /\ r = round
    BY <1>1, <2>1
  <2>3. r * n \in Nat
    OBVIOUS
  <2>4. QED
    BY <2>2, <2>3 DEF Asked
<1>3. QED
  BY <1>2

LEMMA AllIn ==
  ASSUME TypeOK, NEW t, NEW P, \A i \in Slots : Tenant(i) = t => place[i] \in P
  PROVE  In(t, P) = Named(scenario, t)
<1>1. Of(scenario, t, place, P) = {j \in DOMAIN Load[scenario] : Load[scenario][j].tenant = t}
  BY DEF Of, Slots, Tenant
<1>2. QED
  BY <1>1 DEF In, Amount, Over, Named, Costs

LEMMA RoomBeside ==
  ASSUME TypeOK, NEW i \in Slots, NEW P, place[i] \notin P
  PROVE  In(Tenant(i), P) + Cents(i) <= Named(scenario, Tenant(i))
<1>1. PICK s \in Scenarios : s = scenario
  BY DEF TypeOK
<1>2. PICK p : p = place
  OBVIOUS
<1>3. i \in DOMAIN Load[s] /\ p[i] \notin P
  BY <1>1, <1>2 DEF Slots
<1>4. Amount(s, Load[s][i].tenant, p, P) + Load[s][i].cents <= Named(s, Load[s][i].tenant)
  BY <1>1, <1>3, AmountBeside
<1>5. QED
  BY <1>1, <1>2, <1>4 DEF In, Tenant, Cents

(* Up to this round nobody whose load fits was asked for more than its partition. *)
LEMMA FitsSoFar ==
  ASSUME Base, LoadFits, stage # "preparing", NEW t \in Tenants, scenario = "isolation" => t # Spender
  PROVE  Opening(t) + Asked(t) <= Allowance
<1>1. TypeOK /\ scenario \in Scenarios /\ round \in 1..Rounds /\ Rounds \in 1..MaxRounds
      /\ (scenario = "legitimate" => Rounds = MinRounds)
  BY RoundsType DEF Base, Structure, TypeOK
<1>2. ASSUME NEW r \in Nat, NEW q \in Nat, NEW n \in Nat, r <= q
      PROVE  r * n <= q * n /\ r * n \in Nat /\ q * n \in Nat
  <2>1. PICK e \in Nat : q = r + e
    BY <1>2, q - r \in Nat
  <2>2. (r + e) * n = r * n + e * n /\ r * n \in Nat /\ e * n \in Nat
    OBVIOUS
  <2>3. QED
    BY <2>1, <2>2
<1>3. Opening(t) \in Nat /\ Named(scenario, t) \in Nat
  BY <1>1, Numbers, AskedNat DEF Opening
<1>4. CASE scenario = "legitimate"
  <2>1. round \in Nat /\ MinRounds \in Nat /\ round <= MinRounds
    BY <1>1, <1>4, Numbers
  <2>2. round * Named(scenario, t) <= MinRounds * Named(scenario, t)
        /\ round * Named(scenario, t) \in Nat /\ MinRounds * Named(scenario, t) \in Nat
    BY <1>2, <1>3, <2>1
  <2>3. Opening(t) + MinRounds * Named(scenario, t) <= Allowance
    BY <1>4 DEF LoadFits
  <2>4. QED
    BY <1>3, <2>2, <2>3, Numbers DEF Asked
<1>5. CASE scenario = "isolation"
  <2>1. round \in Nat /\ MaxRounds \in Nat /\ round <= MaxRounds
    BY <1>1, <1>5, Numbers
  <2>2. round * Named(scenario, t) <= MaxRounds * Named(scenario, t)
        /\ round * Named(scenario, t) \in Nat /\ MaxRounds * Named(scenario, t) \in Nat
    BY <1>2, <1>3, <2>1
  <2>3. MaxRounds * Named(scenario, t) <= Allowance /\ Opening(t) = 0
    BY <1>5 DEF LoadFits, Opening
  <2>4. QED
    BY <2>2, <2>3, Numbers DEF Asked
<1>6. QED
  BY <1>1, <1>4, <1>5 DEF Scenarios

LEMMA CalmInit ==
  ASSUME Init
  PROVE  Calm
<1>1. \A i \in Slots : place[i] # "no_allowance"
  BY DEF Init
<1>2. reading.peak = 0 /\ peak = 0 /\ alarms = {}
  BY DEF Init, Unread
<1>3. QED
  BY <1>1, <1>2, Numbers DEF Init, Calm, Quiet, Turned, Within, Pressed

(* What is spent and what is served grow together, and nothing is refused. *)
LEMMA CalmSending ==
  ASSUME Base, Calm, stage = "sending", UNCHANGED engineVars, peak' <= Capacity, refused' = refused,
         \A j \in Slots' : place'[j] = "no_allowance" => place[j] = "no_allowance",
         \A t \in Tenants : /\ Spent(t)' \in Nat /\ In(t, Served)' \in Nat
                            /\ Spent(t)' + In(t, Served) = Spent(t) + In(t, Served)'
                            /\ Spent(t) <= Spent(t)'
  PROVE  Calm'
<1>1. TypeOK /\ stage' = "sending" /\ UNCHANGED <<scenario, round, reading, alarms>>
  BY DEF Base, engineVars
<1>2. Slots' = Slots /\ OneRequest' = OneRequest
  <2>1. Slots' = Slots
    BY <1>1, RoundsKept
  <2>2. SpenderSlots' = SpenderSlots
    BY <1>1, <2>1 DEF SpenderSlots, Tenant
  <2>3. QED
    BY <1>1, <2>1, <2>2 DEF OneRequest, Cents
<1>3. \A t : Asked(t)' = Asked(t) /\ Named(scenario', t) = Named(scenario, t)
  BY <1>1 DEF Asked
<1>4. \A t \in Tenants : /\ Asked(t) \in Nat /\ Named(scenario, t) \in Nat /\ Spent(t) \in Nat
                         /\ In(t, Served) \in Nat /\ Opening(t) \in Nat
  BY <1>1, AskedNat, Figures, Numbers DEF Spent, Opening
<1>5. Quiet' /\ Turned'
  BY <1>1, <1>2 DEF Calm, Quiet, Turned, Tenant
<1>6. Within'
  BY <1>1, <1>3, <1>4 DEF Calm, Within
<1>7. Pressed'
  <2>1. scenario = "isolation" => OneRequest \in Nat
    BY SpenderLoad
  <2>2. Spender \in Tenants /\ Allowance \in Nat
    BY Numbers
  <2>3. CASE refused
    BY <1>1, <1>2, <1>4, <2>1, <2>2, <2>3 DEF Calm, Pressed
  <2>4. CASE ~refused
    BY <1>1, <1>3, <1>4, <2>2, <2>4 DEF Calm, Pressed
  <2>5. QED
    BY <2>3, <2>4
<1>8. QED
  BY <1>5, <1>6, <1>7 DEF Calm

LEMMA CalmGate ==
  ASSUME Base, Calm, NEW i \in Slots, Gate(i)
  PROVE  Calm'
<1>1. TypeOK /\ stage = "sending" /\ UNCHANGED engineVars /\ UNCHANGED <<scenario, peak, refused>>
      /\ \A t \in Tenants : Shift(t, 0, 0, 0, 0, 0, 0)
  BY GateShift DEF Base, Gate, engineVars, bookVars
<1>2. \A j \in Slots' : place'[j] = "no_allowance" => place[j] = "no_allowance"
  <2>1. Slots' = Slots /\ \A j \in Slots : place'[j] \in {place[j], "gated", "sent"}
    BY <1>1, RoundsKept DEF Gate, TypeOK
  <2>2. QED
    BY <2>1
<1>3. \A t \in Tenants : /\ Spent(t)' \in Nat /\ In(t, Served)' \in Nat
                         /\ Spent(t)' + In(t, Served) = Spent(t) + In(t, Served)'
                         /\ Spent(t) <= Spent(t)'
  BY <1>1, Figures DEF Shift, Spent
<1>4. peak' <= Capacity
  BY <1>1 DEF Calm, Quiet
<1>5. QED
  BY <1>1, <1>2, <1>3, <1>4, CalmSending

(* One request moves, to a place that is no refusal. *)
LEMMA CalmMove ==
  ASSUME Base, Calm, NEW i \in Slots, NEW there \in Places \ {"no_allowance"}, Goto(i, there),
         stage = "sending", UNCHANGED engineVars, peak' <= Capacity, refused' = refused,
         \A t \in Tenants : \E d \in Nat : Spent(t)' = Spent(t) + d /\ In(t, Served)' = In(t, Served) + d
  PROVE  Calm'
<1>1. TypeOK /\ UNCHANGED scenario
  BY DEF Base, engineVars
<1>2. \A j \in Slots' : place'[j] = "no_allowance" => place[j] = "no_allowance"
  <2>1. Slots' = Slots
    BY <1>1, RoundsKept
  <2>2. place' = [place EXCEPT ![i] = there] /\ place \in [Slots -> Places]
    BY <1>1 DEF Goto, TypeOK
  <2>3. QED
    BY <2>1, <2>2
<1>3. ASSUME NEW t \in Tenants
      PROVE  /\ Spent(t)' \in Nat /\ In(t, Served)' \in Nat
             /\ Spent(t)' + In(t, Served) = Spent(t) + In(t, Served)'
             /\ Spent(t) <= Spent(t)'
  <2>1. PICK d \in Nat : Spent(t)' = Spent(t) + d /\ In(t, Served)' = In(t, Served) + d
    OBVIOUS
  <2>2. Spent(t) \in Nat /\ In(t, Served) \in Nat
    BY <1>1, Figures DEF Spent
  <2>3. QED
    BY <2>1, <2>2
<1>4. QED
  BY <1>2, <1>3, CalmSending

LEMMA CalmReserve ==
  ASSUME Base, Calm, LoadFits, NEW i \in Slots, Reserve(i)
  PROVE  Calm'
<1>1. /\ TypeOK /\ stage = "sending" /\ UNCHANGED engineVars /\ UNCHANGED <<scenario, round, reading, alarms, peak>>
      /\ place[i] = "sent"
      /\ \A t \in Tenants :
           IF HasRoom(i) THEN Shift(t, 0, Due(i, t), 0, 0, 0, Due(i, t)) ELSE Shift(t, 0, 0, 0, 0, 0, 0)
  BY ReserveShift DEF Base, Reserve, engineVars, bookVars
<1>2. \A t \in Tenants : Due(i, t) \in Nat
  BY <1>1, SlotType
<1>3. CASE HasRoom(i)
  <2>1. Goto(i, "held") /\ refused' = refused
    BY <1>3 DEF Reserve
  <2>2. "held" \in Places \ {"no_allowance"}
    BY DEF Places
  <2>3. ASSUME NEW t \in Tenants
        PROVE  \E d \in Nat : Spent(t)' = Spent(t) + d /\ In(t, Served)' = In(t, Served) + d
    <3>1. Shift(t, 0, Due(i, t), 0, 0, 0, Due(i, t))
      BY <1>1, <1>3
    <3>2. Spent(t)' = Spent(t) + Due(i, t) /\ In(t, Served)' = In(t, Served) + Due(i, t)
      BY <1>1, <1>2, <3>1, Figures DEF Shift, Spent
    <3>3. QED
      BY <1>2, <3>2
  <2>4. peak' <= Capacity
    BY <1>1 DEF Calm, Quiet
  <2>5. QED
    BY <1>1, <2>1, <2>2, <2>3, <2>4, CalmMove
<1>4. CASE ~HasRoom(i)
  <2>1. Goto(i, "no_allowance") /\ refused' = TRUE
    BY <1>4 DEF Reserve
  <2>2. PICK t \in Tenants : t = Tenant(i)
    BY <1>1, SlotType
  <2>3. Spent(t) + Cents(i) > Allowance /\ Spent(t) \in Nat /\ Cents(i) \in Nat
    BY <1>1, <1>4, <2>2, Figures, SlotType, Numbers DEF HasRoom, Spent
  <2>4. scenario = "isolation" /\ t = Spender
    <3>1. SUFFICES ASSUME scenario = "isolation" => t # Spender
                   PROVE  FALSE
      OBVIOUS
    <3>2. Spent(t) + Named(scenario, t) <= Opening(t) + Asked(t) + In(t, Served)
      BY <1>1, <3>1 DEF Calm, Within
    <3>3. In(t, Served) + Cents(i) <= Named(scenario, t)
      <4>1. place[i] \notin Served
        BY <1>1 DEF Served, Holding
      <4>2. QED
        BY <1>1, <2>2, <4>1, RoomBeside
    <3>4. Opening(t) + Asked(t) <= Allowance
      BY <1>1, <3>1, FitsSoFar
    <3>5. /\ Opening(t) \in Nat /\ Asked(t) \in Nat /\ Named(scenario, t) \in Nat
          /\ In(t, Served) \in Nat /\ Allowance \in Nat
      BY <1>1, AskedNat, Figures, Numbers DEF Opening
    <3>6. QED
      BY <2>3, <3>2, <3>3, <3>4, <3>5
  <2>5. Cents(i) = OneRequest
    BY <2>2, <2>4, SpenderLoad DEF SpenderSlots
  <2>6. \A u \in Tenants : Spent(u)' = Spent(u) /\ In(u, Served)' = In(u, Served)
    BY <1>1, <1>4, Figures DEF Shift, Spent
  <2>7. Slots' = Slots /\ OneRequest' = OneRequest
    <3>1. Slots' = Slots
      BY <1>1, RoundsKept
    <3>2. SpenderSlots' = SpenderSlots
      BY <1>1, <3>1 DEF SpenderSlots, Tenant
    <3>3. QED
      BY <1>1, <3>1, <3>2 DEF OneRequest, Cents
  <2>8. Turned'
    <3>1. \A j \in Slots : place'[j] = "no_allowance" => j = i \/ place[j] = "no_allowance"
      BY <1>1, <2>1 DEF Goto, TypeOK
    <3>2. QED
      BY <1>1, <2>1, <2>2, <2>4, <2>7, <3>1 DEF Turned, Calm, Tenant
  <2>9. Within'
    <3>1. stage' = stage
      BY <1>1 DEF engineVars
    <3>2. \A u : Asked(u)' = Asked(u) /\ Named(scenario', u) = Named(scenario, u)
      BY <1>1 DEF Asked
    <3>3. QED
      BY <1>1, <2>6, <3>1, <3>2 DEF Within, Calm
  <2>10. Pressed'
    BY <2>1, <2>2, <2>3, <2>4, <2>5, <2>6, <2>7 DEF Pressed
  <2>11. Quiet'
    BY <1>1 DEF Quiet, Calm
  <2>12. QED
    BY <2>8, <2>9, <2>10, <2>11 DEF Calm
<1>5. QED
  BY <1>3, <1>4

LEMMA CalmCall ==
  ASSUME Base, Honest, lapses = 0, late = {}, Calm, NEW i \in Slots, Call(i)
  PROVE  Calm'
<1>1. TypeOK /\ stage = "sending" /\ UNCHANGED engineVars /\ UNCHANGED <<scenario, refused>>
      /\ \A t \in Tenants : Shift(t, 0, 0, 0, 0, 0, 0)
  BY CallShift DEF Base, Call, engineVars
<1>2. place[i] = "held" /\ Goto(i, "calling")
  BY DEF Call, Honest, Unheld
<1>3. "calling" \in Places \ {"no_allowance"}
  BY DEF Places
<1>4. ASSUME NEW t \in Tenants
      PROVE  \E d \in Nat : Spent(t)' = Spent(t) + d /\ In(t, Served)' = In(t, Served) + d
  <2>1. Spent(t)' = Spent(t) + 0 /\ In(t, Served)' = In(t, Served) + 0
    BY <1>1, Figures DEF Shift, Spent
  <2>2. QED
    BY <2>1
<1>5. peak' <= Capacity
  <2>1. i \notin Busy /\ Busy \cup {i} \in SUBSET Slots /\ IsFiniteSet(Slots)
    BY <1>1, <1>2, SlotType DEF Busy
  <2>2. Cardinality(Slots) <= Capacity /\ Cardinality(Slots) \in Nat
    BY <1>1, LoadType DEF Slots, TypeOK
  <2>3. IsFiniteSet(Busy) /\ Cardinality(Busy) \in Nat
    BY <2>1, FS_Subset, FS_CardinalityType
  <2>4. Cardinality(Busy \cup {i}) = Cardinality(Busy) + 1
    BY <2>1, <2>3, FS_AddElement
  <2>5. Cardinality(Busy \cup {i}) <= Cardinality(Slots)
    BY <2>1, FS_Subset
  <2>6. Cardinality(late) = 0
    BY FS_EmptySet
  <2>7. peak' = Greatest(peak, Cardinality(Busy) + 1)
    BY <2>3, <2>6 DEF Call
  <2>8. peak <= Capacity /\ peak \in Nat /\ Capacity \in Nat
    BY <1>1, Numbers DEF Calm, Quiet, TypeOK
  <2>9. QED
    BY <2>2, <2>3, <2>4, <2>5, <2>7, <2>8 DEF Greatest
<1>6. QED
  BY <1>1, <1>2, <1>3, <1>4, <1>5, CalmMove

LEMMA CalmBill ==
  ASSUME Base, Honest, lapses = 0, Calm, NEW i \in Slots, Bill(i)
  PROVE  Calm'
<1>1. TypeOK /\ UNCHANGED engineVars /\ UNCHANGED <<refused, peak>>
  BY DEF Base, Bill
<1>2. place[i] = "calling" /\ Goto(i, "billed")
  BY DEF Bill, Busy, Honest, Unheld
<1>3. "billed" \in Places \ {"no_allowance"}
  BY DEF Places
<1>4. stage = "sending" /\ \A t \in Tenants : Shift(t, 0, 0, Due(i, t), Due(i, t), 0, 0)
  BY <1>2, BillShift
<1>5. ASSUME NEW t \in Tenants
      PROVE  \E d \in Nat : Spent(t)' = Spent(t) + d /\ In(t, Served)' = In(t, Served) + d
  <2>1. Spent(t)' = Spent(t) + 0 /\ In(t, Served)' = In(t, Served) + 0
    BY <1>1, <1>4, Figures DEF Shift, Spent
  <2>2. QED
    BY <2>1
<1>6. peak' <= Capacity
  BY <1>1 DEF Calm, Quiet
<1>7. QED
  BY <1>1, <1>2, <1>3, <1>4, <1>5, <1>6, CalmMove

LEMMA CalmSettle ==
  ASSUME Base, Honest, lapses = 0, Calm, NEW i \in Slots, Settle(i)
  PROVE  Calm'
<1>1. TypeOK /\ UNCHANGED engineVars /\ UNCHANGED <<refused, peak>>
  BY DEF Base, Settle, bookVars
<1>2. place[i] = "billed" /\ Goto(i, "ok")
  BY DEF Settle, Honest
<1>3. "ok" \in Places \ {"no_allowance"}
  BY DEF Places, Answers
<1>4. stage = "sending"
      /\ \A t \in Tenants : Shift(t, Due(i, t), 0 - Due(i, t), 0, 0 - Due(i, t), 0, 0)
  BY <1>2, SettleShift
<1>5. ASSUME NEW t \in Tenants
      PROVE  \E d \in Nat : Spent(t)' = Spent(t) + d /\ In(t, Served)' = In(t, Served) + d
  <2>1. Due(i, t) \in Nat /\ Shift(t, Due(i, t), 0 - Due(i, t), 0, 0 - Due(i, t), 0, 0)
    BY <1>1, <1>4, SlotType
  <2>2. Spent(t)' = Spent(t) + 0 /\ In(t, Served)' = In(t, Served) + 0
    BY <1>1, <2>1, Figures DEF Shift, Spent
  <2>3. QED
    BY <2>2
<1>6. peak' <= Capacity
  BY <1>1 DEF Calm, Quiet
<1>7. QED
  BY <1>1, <1>2, <1>3, <1>4, <1>5, <1>6, CalmMove

LEMMA CalmPrepare ==
  ASSUME Base, late = {}, Calm, Prepare
  PROVE  Calm'
<1>1. /\ TypeOK /\ Structure /\ stage = "preparing" /\ stage' = "sending" /\ round' = 1 /\ refused' = FALSE
      /\ UNCHANGED <<scenario, place, reading, alarms>>
      /\ account' = [t \in Tenants |-> [reserved |-> 0, committed |-> Opening(t)]]
      /\ peak' = Cardinality(late) + 1
  BY DEF Base, Prepare
<1>2. Slots' = Slots /\ \A i \in Slots : place[i] = "starting"
  BY <1>1, RoundsKept DEF Structure
<1>3. ASSUME NEW t \in Tenants
      PROVE  /\ Spent(t)' = Opening(t) /\ Opening(t) \in Nat /\ In(t, Served)' = 0
             /\ Asked(t)' = Named(scenario, t) /\ Named(scenario', t) = Named(scenario, t)
             /\ Named(scenario, t) \in Nat
  <2>1. Opening(t) \in Nat /\ Named(scenario, t) \in Nat
    BY <1>1, AskedNat, Numbers DEF Opening
  <2>2. \A i \in Slots : place[i] \notin Served
    BY <1>2 DEF Served, Holding
  <2>3. In(t, Served) = 0 /\ In(t, Served)' = In(t, Served)
    BY <1>1, <2>2, InType, StaysIn
  <2>4. Asked(t)' = Named(scenario, t)
    BY <1>1, <2>1 DEF Asked
  <2>5. QED
    BY <1>1, <2>1, <2>3, <2>4 DEF Spent
<1>4. Turned'
  BY <1>1, <1>2 DEF Turned
<1>5. Within'
  BY <1>3 DEF Within
<1>6. Pressed'
  BY <1>1, <1>3, Numbers DEF Pressed
<1>7. Quiet'
  <2>1. peak' = 1
    BY <1>1, FS_EmptySet
  <2>2. 1 <= Capacity
    <3>1. PICK i \in DOMAIN Load["isolation"] : TRUE
      BY HarnessAssumption
    <3>2. DOMAIN Load["isolation"] = 1..Len(Load["isolation"]) /\ Len(Load["isolation"]) \in Nat
          /\ Len(Load["isolation"]) <= Capacity
      BY LoadType, HarnessAssumption DEF Scenarios
    <3>3. QED
      BY <3>1, <3>2, Numbers
  <2>3. QED
    BY <1>1, <2>1, <2>2 DEF Quiet, Calm
<1>8. QED
  BY <1>4, <1>5, <1>6, <1>7 DEF Calm

(* Nothing but the engine's stage and what it has read changes. *)
LEMMA CalmReading ==
  ASSUME Calm, stage \notin {"preparing", "done"}, stage' \notin {"preparing", "done"},
         UNCHANGED <<scenario, round, place, refused, account, peak, alarms>>, reading'.peak <= Capacity
  PROVE  Calm'
<1>1. Slots' = Slots
  BY RoundsKept
<1>2. \A t : Spent(t)' = Spent(t) /\ In(t, Served)' = In(t, Served) /\ Asked(t)' = Asked(t)
  BY StaysIn DEF Spent, Asked
<1>3. OneRequest' = OneRequest
  <2>1. SpenderSlots' = SpenderSlots
    BY <1>1 DEF SpenderSlots, Tenant
  <2>2. QED
    BY <2>1 DEF OneRequest, Cents
<1>4. QED
  BY <1>1, <1>2, <1>3 DEF Calm, Quiet, Turned, Within, Pressed, Tenant

LEMMA CalmReadings ==
  ASSUME Base, Calm, EndRound \/ ReadLedger \/ ReadStats \/ ReadUsage
  PROVE  Calm'
<1>1. /\ stage \notin {"preparing", "done"} /\ stage' \notin {"preparing", "done"}
      /\ UNCHANGED <<scenario, round, place, refused, account, peak, alarms>>
  BY DEF EndRound, ReadLedger, ReadStats, ReadUsage, bookVars
<1>2. TypeOK /\ peak <= Capacity /\ reading.peak <= Capacity
  BY DEF Base, Calm, Quiet
<1>3. reading'.peak <= Capacity
  <2>1. CASE EndRound
    BY <1>2, <2>1 DEF EndRound
  <2>2. CASE ReadLedger
    BY <2>2, Numbers DEF ReadLedger, Unread
  <2>3. CASE ReadStats
    BY <1>2, <2>3 DEF ReadStats, TypeOK
  <2>4. CASE ReadUsage
    BY <1>2, <2>4, UsageRead
  <2>5. QED
    BY <2>1, <2>2, <2>3, <2>4
<1>4. QED
  BY <1>1, <1>3, CalmReading

(* What the spender was not refused, it was served. *)
LEMMA AllServed ==
  ASSUME Base, Calm, stage = "judging", scenario = "isolation", ~refused, \A i \in Slots : place[i] # "timed_out"
  PROVE  In(Spender, Served) = Named(scenario, Spender)
<1>1. \A i \in Slots : Tenant(i) = Spender => place[i] \in Served
  BY DEF Base, Structure, After, Gathered, Answers, Calm, Turned, Served
<1>2. QED
  BY <1>1, AllIn DEF Base

(* The checks of the work find nothing: whoever was refused is the spender, and
   its partition was spent to less than one request.                         *)
LEMMA WorkQuiet ==
  ASSUME Base, Honest, Timely, Calm, deadlines = 0, lapses = 0, stage = "judging"
  PROVE  CheckWork = {} /\ IsolationExtra = {}
<1>1. TypeOK /\ Gathered /\ reading.left = {} /\ \A i \in Slots : place[i] # "timed_out"
  BY DEF Base, Structure, After, Timely
<1>2. CheckWork = {}
  <2>1. CASE scenario = "legitimate"
    <3>1. {j \in Slots : place[j] \in {"no_allowance"}} = {}
      BY <2>1 DEF Calm, Turned
    <3>2. QED
      BY <2>1, <3>1, NothingFound DEF CheckWork
  <2>2. CASE scenario # "legitimate"
    <3>1. \A j \in Slots : place[j] \in {"no_allowance", "timed_out"} => Tenant(j) = Spender
      BY <1>1 DEF Calm, Turned
    <3>2. {Tenant(i) : i \in {j \in Slots : place[j] \in {"no_allowance", "timed_out"}}} \ {Spender} = {}
      BY <3>1
    <3>3. QED
      BY <2>2, <3>2, NothingFound DEF CheckWork
  <2>3. QED
    BY <2>1, <2>2
<1>3. CASE scenario = "isolation" /\ round = Rounds /\ Requested > Allowance
  <2>1. /\ Spent(Spender) <= Allowance /\ Spent(Spender) \in Nat /\ account[Spender].committed \in Nat
        /\ Spender \in Tenants /\ Allowance \in Nat /\ OneRequest \in Nat
        /\ Opening(Spender) = Setup /\ Setup \in Nat
    BY <1>1, <1>3, Figures, Numbers, SpenderLoad DEF Honest, Spent, Opening
  <2>2. refused
    <3>1. SUFFICES ASSUME ~refused
                   PROVE  FALSE
      OBVIOUS
    <3>2. Opening(Spender) + Asked(Spender) + In(Spender, Served) <= Spent(Spender) + Named(scenario, Spender)
      BY <1>3, <3>1 DEF Calm, Pressed
    <3>3. In(Spender, Served) = Named(scenario, Spender)
      BY <1>1, <1>3, <3>1, AllServed
    <3>4. Asked(Spender) \in Nat /\ Named(scenario, Spender) \in Nat
      BY <1>1, AskedNat
    <3>5. Asked(Spender) = Requested
      <4>1. round \in Nat
        BY <1>1, Numbers DEF TypeOK
      <4>2. RoundCents \in Nat /\ Named(scenario, Spender) = RoundCents
        BY <1>3, SpenderLoad
      <4>3. PICK r \in Nat, c \in Nat : r = round /\ c = RoundCents
        BY <4>1, <4>2
      <4>4. r * c = c * r
        OBVIOUS
      <4>5. QED
        BY <1>3, <4>2, <4>3, <4>4 DEF Asked, Requested
    <3>6. QED
      BY <1>3, <2>1, <3>2, <3>3, <3>4, <3>5
  <2>3. ~(reading.bill[Spender] + OneRequest <= Allowance)
    <3>1. \A i \in Slots : place[i] \notin Holding /\ place[i] \notin {"billed"}
      BY <1>1 DEF Gathered, Answers, Holding
    <3>2. account[Spender].reserved = 0 /\ In(Spender, {"billed"}) = 0
      BY <1>1, <2>1, <3>1, InType DEF Base, Reserved
    <3>3. account[Spender].committed + In(Spender, {"billed"}) <= bill[Spender] /\ reading.bill = bill
      BY <2>1 DEF Timely, Looking
    <3>4. Spent(Spender) + OneRequest > Allowance
      BY <1>3, <2>2 DEF Calm, Pressed
    <3>5. bill[Spender] \in Nat
      BY <1>1, <2>1, Figures
    <3>6. QED
      BY <2>1, <3>2, <3>3, <3>4, <3>5 DEF Spent
  <2>4. QED
    BY <1>2, <1>3, <2>2, <2>3, NothingFound DEF IsolationExtra
<1>4. CASE ~(scenario = "isolation" /\ round = Rounds /\ Requested > Allowance)
  BY <1>2, <1>4 DEF IsolationExtra
<1>5. QED
  BY <1>2, <1>3, <1>4

LEMMA CalmJudge ==
  ASSUME Base, Honest, Covered, Timely, Calm, deadlines = 0, lapses = 0, Judge
  PROVE  Calm'
<1>1. /\ TypeOK /\ stage = "judging" /\ Gathered /\ scenario' \in Scenarios
      /\ stage' \in {"sending", "preparing", "done"}
      /\ (stage' # "preparing" => UNCHANGED scenario)
      /\ (stage' = "sending" => round' = round + 1)
      /\ (stage' = "done" => UNCHANGED round)
      /\ Slots' = DOMAIN Load[scenario'] /\ place' = [i \in Slots' |-> "starting"]
      /\ UNCHANGED <<refused, account, peak, reading>>
      /\ round \in Nat
  BY JudgeParts, Numbers DEF Base, TypeOK
<1>2. alarms' = {}
  <2>1. BudgetViolations = {} /\ ~(Total(reading.bill) > Cap)
    BY <1>1, MoneyQuiet DEF Timely
  <2>2. ~(reading.peak > Capacity)
    BY <1>1, Numbers DEF Calm, Quiet, TypeOK
  <2>3. CheckCommon = {}
    BY <2>1, <2>2, NothingFound DEF CheckCommon
  <2>4. CheckWork = {} /\ IsolationExtra = {} /\ alarms = {}
    BY <1>1, WorkQuiet DEF Calm, Quiet
  <2>5. QED
    BY <2>1, <2>3, <2>4 DEF Judge
<1>3. Quiet'
  BY <1>1, <1>2 DEF Calm, Quiet
<1>4. Turned'
  BY <1>1 DEF Turned
<1>5. ASSUME NEW t \in Tenants
      PROVE  /\ Spent(t)' = Spent(t) /\ Spent(t) \in Nat /\ In(t, Served)' = 0
             /\ In(t, Served) \in Nat /\ In(t, Served) <= Named(scenario, t)
             /\ Asked(t) \in Nat /\ Named(scenario, t) \in Nat /\ Opening(t) \in Nat
             /\ stage' = "sending" => /\ Named(scenario', t) = Named(scenario, t)
                                      /\ Asked(t)' = Asked(t) + Named(scenario, t)
             /\ stage' = "done" => Named(scenario', t) = Named(scenario, t) /\ Asked(t)' = Asked(t)
  <2>1. In(t, Served)' = 0
    <3>1. \A i \in DOMAIN Load[scenario'] : place'[i] \notin Served
      BY <1>1 DEF Served, Holding
    <3>2. Amount(scenario', t, place', Served) = 0
      BY <1>1, <3>1, AmountNone
    <3>3. QED
      BY <3>2 DEF In
  <2>2. /\ Spent(t) \in Nat /\ In(t, Served) \in Nat /\ In(t, Served) <= Named(scenario, t)
        /\ Asked(t) \in Nat /\ Named(scenario, t) \in Nat /\ Opening(t) \in Nat
    BY <1>1, Figures, InType, AskedNat, Numbers DEF Spent, Opening
  <2>3. ASSUME stage' = "sending"
        PROVE  Asked(t)' = Asked(t) + Named(scenario, t)
    <3>1. PICK r \in Nat, n \in Nat : r = round /\ n = Named(scenario, t)
      BY <1>1, <2>2
    <3>2. (r + 1) * n = r * n + n
      OBVIOUS
    <3>3. QED
      BY <1>1, <2>3, <3>1, <3>2 DEF Asked
  <2>4. stage' = "done" => Asked(t)' = Asked(t)
    BY <1>1 DEF Asked
  <2>5. QED
    BY <1>1, <2>1, <2>2, <2>3, <2>4 DEF Spent
<1>6. Within'
  <2>1. CASE stage' = "sending"
    <3>1. SUFFICES ASSUME NEW t \in Tenants, scenario' = "isolation" => t # Spender
                   PROVE  Spent(t)' + Named(scenario', t) <= Opening(t) + Asked(t)' + In(t, Served)'
      BY DEF Within
    <3>2. Spent(t) + Named(scenario, t) <= Opening(t) + Asked(t) + In(t, Served)
      BY <1>1, <2>1, <3>1 DEF Calm, Within
    <3>3. QED
      BY <1>5, <2>1, <3>2
  <2>2. CASE stage' # "sending"
    BY <1>1, <2>2 DEF Within
  <2>3. QED
    BY <2>1, <2>2
<1>7. Pressed'
  <2>1. SUFFICES ASSUME stage' # "preparing", scenario' = "isolation"
                 PROVE  IF refused' THEN Spent(Spender)' + OneRequest' > Allowance
                        ELSE Opening(Spender) + Asked(Spender)' + In(Spender, Served)'
                               <= Spent(Spender)' + Named(scenario', Spender)
    BY DEF Pressed
  <2>2. UNCHANGED scenario /\ scenario = "isolation" /\ Spender \in Tenants
    BY <1>1, <2>1, Numbers
  <2>3. CASE refused
    <3>1. Slots' = Slots
      BY <2>2, RoundsKept
    <3>2. SpenderSlots' = SpenderSlots
      BY <2>2, <3>1 DEF SpenderSlots, Tenant
    <3>3. OneRequest' = OneRequest
      BY <2>2, <3>1, <3>2 DEF OneRequest, Cents
    <3>4. Spent(Spender) + OneRequest > Allowance
      BY <1>1, <2>2, <2>3 DEF Calm, Pressed
    <3>5. QED
      BY <1>1, <1>5, <2>2, <2>3, <3>3, <3>4
  <2>4. CASE ~refused
    <3>1. Opening(Spender) + Asked(Spender) + In(Spender, Served) <= Spent(Spender) + Named(scenario, Spender)
      BY <1>1, <2>2, <2>4 DEF Calm, Pressed
    <3>2. In(Spender, Served) = Named(scenario, Spender)
      BY <1>1, <2>2, <2>4, AllServed DEF Timely
    <3>3. CASE stage' = "sending"
      BY <1>1, <1>5, <2>2, <2>4, <3>1, <3>2, <3>3
    <3>4. CASE stage' = "done"
      BY <1>1, <1>5, <2>2, <2>4, <3>1, <3>2, <3>4
    <3>5. QED
      BY <1>1, <2>1, <3>3, <3>4
  <2>5. QED
    BY <2>3, <2>4
<1>8. QED
  BY <1>3, <1>4, <1>6, <1>7 DEF Calm

LEMMA CalmStutters ==
  ASSUME Calm, UNCHANGED vars
  PROVE  Calm'
<1>1. UNCHANGED <<scenario, round, stage, place, refused, account, peak, reading, alarms>>
  BY DEF vars
<1>2. Slots' = Slots
  BY <1>1, RoundsKept
<1>3. \A t : Spent(t)' = Spent(t) /\ In(t, Served)' = In(t, Served) /\ Asked(t)' = Asked(t)
  BY <1>1, StaysIn DEF Spent, Asked
<1>4. OneRequest' = OneRequest
  <2>1. SpenderSlots' = SpenderSlots
    BY <1>1, <1>2 DEF SpenderSlots, Tenant
  <2>2. QED
    BY <1>1, <2>1 DEF OneRequest, Cents
<1>5. QED
  BY <1>1, <1>2, <1>3, <1>4 DEF Calm, Quiet, Turned, Within, Pressed, Tenant

LEMMA CalmStep ==
  ASSUME Base, Honest, Covered, Timely, CalmInv, [Next]_vars
  PROVE  CalmInv'
<1>1. SUFFICES ASSUME LoadFits, deadlines' = 0, lapses' = 0
               PROVE  Calm'
  <2>1. LoadFits' => LoadFits
    BY DEF LoadFits
  <2>2. QED
    BY <2>1 DEF CalmInv
<1>2. TypeOK
  BY DEF Base
<1>3. ASSUME NEW i \in Slots, Lapse(i)
      PROVE  FALSE
  BY <1>1, <1>2, <1>3 DEF Lapse, TypeOK
<1>4. ASSUME NEW i \in Slots, Deadline(i)
      PROVE  FALSE
  BY <1>1, <1>2, <1>4 DEF Deadline, TypeOK
<1>5. deadlines = 0 /\ lapses = 0
  <2>1. \/ \E i \in Slots : Gate(i) \/ Reserve(i) \/ Call(i) \/ Bill(i) \/ Settle(i)
        \/ LateBill \/ Prepare \/ EndRound \/ ReadLedger \/ ReadStats \/ ReadUsage \/ Judge
        \/ Rest \/ UNCHANGED vars
    BY <1>3, <1>4 DEF Next, Application, Engine
  <2>2. ASSUME NEW i \in Slots, Gate(i) \/ Reserve(i) \/ Call(i) \/ Bill(i) \/ Settle(i)
        PROVE  UNCHANGED historyVars
    BY <2>2 DEF Gate, Reserve, Call, Bill, Settle
  <2>3. ASSUME LateBill \/ Prepare \/ EndRound \/ ReadLedger \/ ReadStats \/ ReadUsage \/ Judge
        PROVE  UNCHANGED historyVars
    BY <2>3 DEF LateBill, Prepare, EndRound, ReadLedger, ReadStats, ReadUsage, Judge
  <2>4. ASSUME Rest \/ UNCHANGED vars
        PROVE  UNCHANGED historyVars
    BY <2>4 DEF Rest, vars, historyVars
  <2>5. UNCHANGED historyVars
    BY <2>1, <2>2, <2>3, <2>4
  <2>6. QED
    BY <1>1, <2>5 DEF historyVars
<1>6. Calm /\ late = {}
  BY <1>1, <1>5 DEF CalmInv, Timely
<1>7. ASSUME NEW i \in Slots, Gate(i) \/ Application(i)
      PROVE  Calm'
  BY <1>1, <1>5, <1>6, <1>7, CalmGate, CalmReserve, CalmCall, CalmBill, CalmSettle DEF Application
<1>8. CASE LateBill
  BY <1>6, <1>8 DEF LateBill
<1>9. CASE Engine
  BY <1>5, <1>6, <1>9, CalmPrepare, CalmReadings, CalmJudge DEF Engine
<1>10. CASE Rest \/ UNCHANGED vars
  BY <1>6, <1>10, CalmStutters DEF Rest
<1>11. QED
  BY <1>3, <1>4, <1>7, <1>8, <1>9, <1>10 DEF Next

(* A run of an application that never lapsed nor timed out, under a load that
   fits, ends without a violation (accounting.py:10): the spender spends its
   partition to less than one request and only then is refused, nobody else ever
   is, and the checks of engine.py:145, :321 and :419 find nothing.          *)
THEOREM CalmRunsAreBounded == Spec => []CalmRunIsBounded
<1>1. Init => Base /\ Honest /\ Covered /\ Timely /\ CalmInv
  BY BaseInit, HonestInit, CoveredInit, TimelyInit, CalmInit DEF CalmInv
<1>2. Base /\ Honest /\ Covered /\ Timely /\ CalmInv /\ [Next]_vars
        => (Base /\ Honest /\ Covered /\ Timely /\ CalmInv)'
  BY BaseNext, HonestStep, CoveredStep, TimelyStep, CalmStep
<1>3. Base /\ CalmInv => CalmRunIsBounded
  BY DEF CalmInv, CalmRunIsBounded, Calm, Quiet, Base, TypeOK
<1>4. QED
  BY <1>1, <1>2, <1>3, PTL DEF Spec
=============================================================================
