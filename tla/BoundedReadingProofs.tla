------------------------ MODULE BoundedReadingProofs ------------------------
(***************************************************************************)
(* For messages, chunks, steps and ceilings of any size: what is accepted  *)
(* fits, what is refused does not, nothing is decompressed beyond one step *)
(* past a ceiling, and the records of a bundle are its lines.              *)
(*                                                                         *)
(* Measured says where the reader stands in bytes, at each of its awaits;  *)
(* in particular how much zlib may still owe there. Assembled says that    *)
(* the records are exactly the lines that end before the line assembler's  *)
(* buffer begins, and that no newline is left in the buffer.               *)
(***************************************************************************)
EXTENDS BoundedReading, Counting

(* What a message may be, with the growth of its output summed up. *)
All == message.output[message.size]
LEMMA MessageFacts ==
  ASSUME message \in Messages
  PROVE  /\ message.route \in {"body", "bundle"} /\ message.size \in Nat /\ message.size \in Sizes
         /\ message.declared \in Nat /\ message.output[0] = 0
         /\ \A n \in Sizes : message.output[n] \in Nat
         /\ \A n \in Sizes \ {0} : /\ n - 1 \in Sizes
                                   /\ message.output[n] <= message.output[n-1] + MaxGrowth
         /\ \A i, j \in Sizes : i <= j => message.output[i] <= message.output[j]
         /\ message.breaks \subseteq 1..All /\ All \in Nat
         /\ message.ending \in {"whole", "truncated", "corrupt"}
<1> DEFINE f == message.output
<1>1. IsMessage(message) /\ MaxSize \in Nat /\ MaxGrowth \in Nat
  BY ReadingAssumption
<1>2. /\ f \in [Sizes -> Nat] /\ f[0] = 0
      /\ \A n \in 1..MaxSize : f[n-1] <= f[n] /\ f[n] <= f[n-1] + MaxGrowth
  BY <1>1 DEF IsMessage, Growing
<1>3. ASSUME NEW i \in Sizes, NEW j \in Sizes, i <= j, ~(f[i] <= f[j])
      PROVE  FALSE
  <2> DEFINE T == {k \in Sizes : i <= k /\ ~(f[i] <= f[k])}
  <2>1. T \subseteq Nat /\ T # {}
    BY <1>1, <1>3 DEF Sizes
  <2>2. PICK k \in T : \A n \in T : k <= n
    <3> HIDE DEF T
    <3> QED
      BY <2>1, LeastNatural
  <2>3. k \in Nat /\ k <= MaxSize /\ i \in Nat /\ f[i] \in Nat /\ i < k
    <3>1. k # i
      BY <1>2, <2>2
    <3>2. QED
      BY <1>1, <1>2, <2>2, <3>1 DEF Sizes
  <2>4. k \in 1..MaxSize /\ k - 1 \in Sizes /\ i <= k - 1 /\ ~(k <= k - 1)
    BY <1>1, <2>3 DEF Sizes
  <2>5. f[i] <= f[k-1] /\ f[k-1] <= f[k] /\ f[k-1] \in Nat /\ f[k] \in Nat
    BY <1>2, <2>2, <2>4
  <2>6. QED
    BY <2>2, <2>3, <2>5
<1>4. \A n \in Sizes \ {0} : n - 1 \in Sizes /\ n \in 1..MaxSize
  BY <1>1 DEF Sizes
<1>5. message.size \in Sizes /\ message.size \in Nat
  BY <1>1 DEF IsMessage, Sizes
<1>6. QED
  BY <1>1, <1>2, <1>3, <1>4, <1>5 DEF IsMessage, All

-----------------------------------------------------------------------------
(* The ceilings *)

(* Where the reader stands, in bytes. *)
Measured ==
  /\ message \in Messages
  /\ place \in {"arriving", "reading", "expanding", "flushing", "complete"} \cup Verdicts
  /\ got \in Sizes /\ out \in Nat /\ fed \in Nat
  /\ got <= message.size
  /\ out <= message.output[got] /\ fed <= out
  /\ place # "too_large" => fed = out
  /\ Body => out = 0 /\ place \in {"arriving", "reading", "too_large", "accepted"}
  /\ place = "arriving" => got = 0
  /\ place = "expanding" => got > 0
  /\ place # "too_large" => got <= Limit
  /\ place \in {"reading", "flushing"} /\ Bundle => message.output[got] <= out + MaxGrowth
  /\ place \in {"flushing", "complete"} => got = message.size
  /\ place = "complete" => message.ending = "whole" /\ out = message.output[got]
  /\ AcceptedFits /\ RefusedForCause /\ OvershootBounded

(* One accounted step, up to what has been received. *)
LEMMA AccountMeasures ==
  ASSUME Measured, Bundle, place \in {"expanding", "reading", "flushing"},
         NEW produced \in Nat, NEW next, Account(produced, next),
         out + produced <= message.output[got],
         \/ produced <= OutputChunk
         \/ produced <= MaxGrowth,
         UNCHANGED <<message, got>>,
         next \in {"expanding", "reading", "flushing", "complete", "invalid"},
         next = "expanding" => got > 0,
         next = "reading" => message.output[got] <= out + produced + MaxGrowth,
         next = "flushing" => /\ message.output[got] <= out + produced + MaxGrowth
                              /\ got = message.size,
         next = "complete" => /\ message.output[got] = out + produced
                              /\ got = message.size /\ message.ending = "whole"
  PROVE  Measured' /\ out' = out + produced /\ (place' # "too_large" => place' = next /\ Feed(out'))
<1>1. got \in Nat /\ MaxRatio \in Nat /\ got * MaxRatio \in Nat
  <2>1. got \in Nat /\ MaxRatio \in Nat
    BY ReadingAssumption DEF Measured, Limit, Sizes
  <2>2. QED
    BY <2>1
<1>2. /\ message \in Messages /\ got \in Sizes /\ out \in Nat /\ fed \in Nat
      /\ message.output[got] \in Nat /\ message.route = "bundle"
      /\ fed = out /\ out <= MaxDecompressed /\ got <= MaxImportBody
      /\ (fed >= RatioFloor => fed <= got * MaxRatio) /\ got <= message.size
  BY MessageFacts DEF Measured, Limit, Bundle, Body, OvershootBounded
<1>3. /\ MaxDecompressed \in Nat /\ OutputChunk \in Nat /\ MaxGrowth \in Nat /\ RatioFloor \in Nat
  BY ReadingAssumption
<1>4. message' = message /\ got' = got /\ out' = out + produced /\ out' \in Nat
  BY <1>2 DEF Account
<1>5. CASE Crosses(out')
  <2>1. place' = "too_large" /\ UNCHANGED lineVars
    BY <1>5 DEF Account
  <2>3. RefusedForCause'
    BY <1>1, <1>2, <1>3, <1>4, <1>5 DEF RefusedForCause, Bundle, Crosses
  <2>4. OvershootBounded'
    BY <1>2, <1>3, <1>4, <2>1 DEF OvershootBounded, lineVars
  <2>5. AcceptedFits'
    BY <2>1 DEF AcceptedFits
  <2>6. QED
    BY <1>2, <1>3, <1>4, <2>1, <2>3, <2>4, <2>5 DEF Measured, Limit, Body, Bundle, lineVars, Verdicts
<1>6. CASE ~Crosses(out')
  <2>1. place' = next /\ Feed(out')
    BY <1>6 DEF Account
  <2>2. fed' = out' /\ fed' <= MaxDecompressed /\ (fed' >= RatioFloor => fed' <= got * MaxRatio)
    <3>1. fed' = out'
      BY <2>1 DEF Feed
    <3>2. out' <= MaxDecompressed
      BY <1>3, <1>4, <1>6 DEF Crosses
    <3>3. out' >= RatioFloor => out' <= got * MaxRatio
      BY <1>1, <1>3, <1>4, <1>6 DEF Crosses
    <3>4. QED
      BY <3>1, <3>2, <3>3
  <2>3. OvershootBounded'
    BY <1>3, <1>4, <2>2 DEF OvershootBounded
  <2>4. AcceptedFits' /\ RefusedForCause'
    BY <2>1 DEF AcceptedFits, RefusedForCause
  <2>5. QED
    BY <1>2, <1>3, <1>4, <2>1, <2>2, <2>3, <2>4 DEF Measured, Limit, Body, Bundle, Verdicts
<1>7. QED
  BY <1>4, <1>5, <1>6

LEMMA StepFacts ==
  ASSUME Measured
  PROVE  /\ Owed \in Nat /\ StepSize \in Nat /\ StepSize <= OutputChunk
         /\ out + StepSize <= message.output[got] /\ out + Owed = message.output[got]
         /\ StepSize < OutputChunk => StepSize = Owed
<1>1. message.output[got] \in Nat /\ out \in Nat /\ out <= message.output[got]
  BY MessageFacts DEF Measured
<1>2. OutputChunk \in Nat
  BY ReadingAssumption
<1>3. Owed \in Nat /\ out + Owed = message.output[got]
  BY <1>1 DEF Owed
<1>4. StepSize = IF OutputChunk <= Owed THEN OutputChunk ELSE Owed
  BY DEF StepSize, Least
<1>5. QED
  BY <1>1, <1>2, <1>3, <1>4

LEMMA StepKeepsMeasure ==
  ASSUME Measured, Next
  PROVE  Measured'
<1>1. /\ message \in Messages /\ got \in Sizes /\ got \in Nat /\ out \in Nat /\ fed \in Nat
      /\ message.route \in {"body", "bundle"} /\ message.size \in Sizes /\ message.size \in Nat
      /\ message.output[got] \in Nat /\ fed <= out /\ out <= message.output[got]
      /\ got <= message.size
      /\ (Body \/ Bundle) /\ ~(Body /\ Bundle)
  BY MessageFacts DEF Measured, Limit, Body, Bundle, Sizes
<1>2. /\ MaxBody \in Nat /\ MaxImportBody \in Nat /\ MaxDecompressed \in Nat /\ MaxRatio \in Nat
      /\ OutputChunk \in Nat /\ MaxGrowth \in Nat /\ RatioFloor \in Nat /\ MaxSize \in Nat
  BY ReadingAssumption
<1>3. CASE Open
  <2>1. /\ UNCHANGED <<message, got, out, fed>> /\ got = 0 /\ place = "arriving"
        /\ place' = IF Body /\ message.declared > MaxBody THEN "too_large" ELSE "reading"
    BY <1>3 DEF Open, lineVars, Measured
  <2>2. message.output[got] = 0
    BY <2>1, MessageFacts DEF Measured
  <2>3. RefusedForCause' /\ AcceptedFits' /\ OvershootBounded'
    BY <2>1 DEF RefusedForCause, AcceptedFits, OvershootBounded, Measured, Body
  <2>4. QED
    BY <1>1, <1>2, <2>1, <2>2, <2>3 DEF Measured, Limit, Body, Bundle, Verdicts
<1>4. CASE Receive
  <2>1. PICK n \in 1..(message.size - got) :
          /\ got' = got + n
          /\ place' = IF got' > Limit THEN "too_large" ELSE IF Body THEN "reading" ELSE "expanding"
    BY <1>4 DEF Receive
  <2>2. UNCHANGED <<message, out, fed>> /\ place = "reading"
    BY <1>4 DEF Receive, lineVars
  <2>3. got' \in Sizes /\ got' \in Nat /\ got <= got' /\ got' > 0 /\ got' <= message.size
    BY <1>1, <1>2, <2>1 DEF Sizes
  <2>4. message.output[got] <= message.output[got'] /\ message.output[got'] \in Nat
    BY <1>1, <2>3, MessageFacts
  <2>5. /\ Body /\ got' > MaxBody => place' = "too_large"
        /\ Body /\ ~(got' > MaxBody) => place' = "reading"
        /\ Bundle /\ got' > MaxImportBody => place' = "too_large"
        /\ Bundle /\ ~(got' > MaxImportBody) => place' = "expanding"
    BY <1>1, <2>1 DEF Limit, Body, Bundle
  <2>6. got * MaxRatio \in Nat /\ got' * MaxRatio \in Nat /\ got * MaxRatio <= got' * MaxRatio
    <3>1. PICK k \in Nat : got' = got + k
      BY <2>1, <1>1
    <3>2. (got + k) * MaxRatio = got * MaxRatio + k * MaxRatio
      BY <1>1, <1>2
    <3>3. k * MaxRatio \in Nat /\ got * MaxRatio \in Nat
      BY <1>1, <1>2
    <3>4. QED
      BY <3>1, <3>2, <3>3
  <2>7. OvershootBounded'
    BY <1>1, <1>2, <2>2, <2>6 DEF OvershootBounded, Measured
  <2>8. AcceptedFits' /\ RefusedForCause'
    BY <1>1, <2>2, <2>5 DEF AcceptedFits, RefusedForCause, Body, Bundle
  <2>9. QED
    BY <1>1, <1>2, <2>2, <2>3, <2>4, <2>5, <2>7, <2>8 DEF Measured, Limit, Body, Bundle, Verdicts
<1>5. CASE Expand
  <2>1. place = "expanding" /\ Bundle /\ got > 0 /\ UNCHANGED <<message, got>>
    BY <1>1, <1>5 DEF Expand, Measured
  <2>2. CASE StepSize < OutputChunk /\ Account(StepSize, "reading")
    BY <1>1, <1>2, <2>1, <2>2, StepFacts, AccountMeasures
  <2>3. CASE StepSize >= OutputChunk /\ Account(StepSize, "expanding")
    BY <1>1, <1>2, <2>1, <2>3, StepFacts, AccountMeasures
  <2>4. CASE /\ StepSize >= OutputChunk /\ message.output[got - 1] <= out + StepSize
             /\ Account(StepSize, "reading")
    <3>1. got - 1 \in Sizes /\ message.output[got] <= message.output[got - 1] + MaxGrowth
      BY <1>1, <2>1, MessageFacts
    <3>2. message.output[got - 1] \in Nat
      BY <1>1, <3>1, MessageFacts
    <3>3. message.output[got] <= out + StepSize + MaxGrowth
      BY <1>1, <1>2, <2>4, <3>1, <3>2, StepFacts
    <3>4. QED
      BY <1>1, <1>2, <2>1, <2>4, <3>3, StepFacts, AccountMeasures
  <2>5. QED
    BY <1>5, <2>2, <2>3, <2>4 DEF Expand
<1>6. CASE Corrupt
  BY <1>6 DEF Corrupt, Limit, Measured, lineVars, Body, Bundle, Verdicts, AcceptedFits, RefusedForCause,
              OvershootBounded
<1>7. CASE Close
  <2>1. place = "reading" /\ got = message.size /\ UNCHANGED <<message, got>>
    BY <1>7 DEF Close
  <2>2. CASE Bundle
    <3>1. Account(StepSize, "flushing")
      BY <1>7, <2>2 DEF Close
    <3>2. message.output[got] <= out + StepSize + MaxGrowth
      BY <1>1, <1>2, <2>1, <2>2, StepFacts DEF Measured
    <3>3. QED
      BY <1>1, <1>2, <2>1, <2>2, <3>1, <3>2, StepFacts, AccountMeasures
  <2>3. CASE Body
    <3>1. place' = "accepted" /\ UNCHANGED <<out, fed>>
      BY <1>7, <2>3 DEF Close, lineVars, Body, Bundle
    <3>2. AcceptedFits'
      BY <2>1, <2>3, <3>1 DEF AcceptedFits, Measured, Limit, Body, Bundle
    <3>3. RefusedForCause' /\ OvershootBounded'
      BY <2>1, <3>1 DEF RefusedForCause, OvershootBounded, Measured
    <3>4. QED
      BY <1>1, <2>1, <2>3, <3>1, <3>2, <3>3 DEF Measured, Limit, Body, Bundle, Verdicts
  <2>4. QED
    BY <1>1, <2>2, <2>3
<1>8. CASE Finish
  <2>1. /\ place = "flushing" /\ Bundle /\ got = message.size /\ UNCHANGED <<message, got>>
        /\ Account(Owed, IF message.ending = "whole" THEN "complete" ELSE "invalid")
    BY <1>1, <1>8 DEF Finish, FinishBundle, Measured
  <2>2. Owed <= MaxGrowth /\ out + Owed = message.output[got] /\ Owed \in Nat
    BY <1>1, <1>2, <2>1, StepFacts DEF Measured
  <2>3. CASE message.ending = "whole"
    <3>1. Account(Owed, "complete")
      BY <2>1, <2>3
    <3>2. QED
      BY <1>1, <1>2, <2>1, <2>2, <2>3, <3>1, AccountMeasures
  <2>4. CASE message.ending # "whole"
    <3>1. Account(Owed, "invalid")
      BY <2>1, <2>4
    <3>2. QED
      BY <1>1, <1>2, <2>1, <2>2, <3>1, AccountMeasures
  <2>5. QED
    BY <2>3, <2>4
<1>9. CASE TakeRest
  <2>1. /\ place = "complete" /\ place' = "accepted" /\ UNCHANGED <<message, got, out, fed>>
        /\ got = message.size /\ message.ending = "whole" /\ out = message.output[got] /\ fed = out
        /\ Bundle
    BY <1>1, <1>9 DEF TakeRest, Measured
  <2>2. AcceptedFits'
    BY <1>1, <2>1 DEF AcceptedFits, Measured, Limit, OvershootBounded, Body, Bundle
  <2>3. RefusedForCause' /\ OvershootBounded'
    BY <2>1 DEF RefusedForCause, OvershootBounded, Measured
  <2>4. QED
    BY <1>1, <2>1, <2>2, <2>3 DEF Measured, Limit, Body, Bundle, Verdicts
<1>10. QED
  BY <1>3, <1>4, <1>5, <1>6, <1>7, <1>8, <1>9 DEF Next

LEMMA MeasuredHolds == Spec => []Measured
<1>1. Init => Measured
  <2>1. SUFFICES ASSUME Init
                 PROVE  Measured
    OBVIOUS
  <2>2. /\ message.output[0] = 0 /\ message.size \in Nat /\ message.route \in {"body", "bundle"}
        /\ 0 \in Sizes
    BY <2>1, MessageFacts, ReadingAssumption DEF Init, Sizes
  <2>3. /\ MaxBody \in Nat /\ MaxImportBody \in Nat /\ MaxDecompressed \in Nat /\ MaxRatio \in Nat
        /\ OutputChunk \in Nat /\ 0 * MaxRatio = 0
    BY ReadingAssumption
  <2>4. QED
    BY <2>1, <2>2, <2>3
       DEF Init, Limit, Measured, Body, Bundle, AcceptedFits, RefusedForCause, OvershootBounded
<1>2. Measured /\ [Next]_vars => Measured'
  <2>1. ASSUME Measured, UNCHANGED vars
        PROVE  Measured'
    BY <2>1 DEF Measured, Limit, vars, lineVars, Body, Bundle, AcceptedFits, RefusedForCause,
                OvershootBounded
  <2>2. QED
    BY <2>1, StepKeepsMeasure
<1>3. QED
  BY <1>1, <1>2, PTL DEF Spec

(* Whatever is sent, however it is cut and whatever the ceilings: what is
   accepted fits every one of them, what is refused as too large does not, and
   zlib is never made to produce more than one step beyond.                  *)
THEOREM AcceptedAlwaysFits == Spec => []AcceptedFits
<1>1. Measured => AcceptedFits
  BY DEF Measured
<1>2. QED
  BY <1>1, MeasuredHolds, PTL

THEOREM RefusedAlwaysForCause == Spec => []RefusedForCause
<1>1. Measured => RefusedForCause
  BY DEF Measured
<1>2. QED
  BY <1>1, MeasuredHolds, PTL

THEOREM OvershootStaysBounded == Spec => []OvershootBounded
<1>1. Measured => OvershootBounded
  BY DEF Measured
<1>2. QED
  BY <1>1, MeasuredHolds, PTL

-----------------------------------------------------------------------------
(* The lines *)

(* Max finds the largest of the start of the buffer and some of the newlines. *)
LEMMA LatestBreak ==
  ASSUME NEW a \in Nat, NEW N, N \subseteq Nat, NEW top \in Nat, \A c \in N : c <= top
  PROVE  /\ Max({a} \cup N) \in {a} \cup N
         /\ \A c \in {a} \cup N : c <= Max({a} \cup N)
<1> DEFINE S == {a} \cup N
           id == [c \in S |-> c]
<1>1. S \in SUBSET Nat /\ S # {}
  OBVIOUS
<1>2. PICK high \in Nat : \A c \in S : c <= high
  <2>1. CASE a <= top
    BY <2>1
  <2>2. CASE ~(a <= top)
    <3>1. \A c \in S : c <= a
      BY <2>2
    <3>2. QED
      BY <3>1
  <2>3. QED
    BY <2>1, <2>2
<1>3. IsFiniteSet(S)
  <2> HIDE DEF S
  <2> QED
    BY <1>1, <1>2, FS_BoundedSetOfNaturals
<1>4. id \in [S -> Nat]
  BY <1>1
<1>5. PICK m \in S : \A c \in S : id[c] <= id[m]
  <2> HIDE DEF S, id
  <2> QED
    BY <1>1, <1>3, <1>4, LargestAtMember
<1>6. m \in S /\ \A c \in S : m >= c
  BY <1>1, <1>5
<1>7. Max(S) \in S /\ \A c \in S : Max(S) >= c
  <2> HIDE DEF S
  <2>1. Max(S) = CHOOSE x \in S : \A y \in S : x >= y
    BY DEF Max
  <2>2. QED
    BY <1>6, <2>1
<1>8. QED
  BY <1>1, <1>7

(* The assembler has taken exactly the lines that end before what it keeps. *)
Taken(upto) == {l \in Lines : l[2] < upto}
Between(b)  == b \in message.breaks \cup {0}
Assembled ==
  /\ start \in Nat /\ start <= fed
  /\ place # "accepted" \/ Body =>
       /\ Between(start)
       /\ \A b \in message.breaks : b <= fed => b <= start
       /\ records = Taken(start)
  /\ place = "accepted" /\ Bundle => records = Lines

LEMMA LineFacts ==
  ASSUME message \in Messages
  PROVE  \A l : l \in Lines <=>
           \E i, j \in 1..All :
             /\ l = <<i, j>> /\ i <= j /\ Between(i - 1)
             /\ (j + 1 \in message.breaks \/ j = All)
             /\ \A k \in i..j : k \notin message.breaks
<1>1. message.breaks \subseteq 1..All /\ All \in Nat
  BY MessageFacts
<1>2. Lines =
        {l \in (1..All) \X (1..All) :
           /\ l[1] <= l[2]
           /\ l[1] - 1 \in message.breaks \cup {0}
           /\ l[2] + 1 \in message.breaks \cup {All + 1}
           /\ \A i \in l[1]..l[2] : i \notin message.breaks}
  BY DEF Lines, All
<1>3. ASSUME NEW l \in Lines
      PROVE  \E i, j \in 1..All :
               /\ l = <<i, j>> /\ i <= j /\ Between(i - 1)
               /\ (j + 1 \in message.breaks \/ j = All)
               /\ \A k \in i..j : k \notin message.breaks
  <2>1. PICK i \in 1..All, j \in 1..All : l = <<i, j>>
    BY <1>2
  <2>2. i <= j /\ i - 1 \in message.breaks \cup {0} /\ j + 1 \in message.breaks \cup {All + 1}
        /\ \A k \in i..j : k \notin message.breaks
    BY <1>2, <2>1
  <2>3. j + 1 = All + 1 => j = All
    BY <1>1, <2>1
  <2>4. QED
    BY <2>1, <2>2, <2>3 DEF Between
<1>4. ASSUME NEW i \in 1..All, NEW j \in 1..All, i <= j, Between(i - 1),
             j + 1 \in message.breaks \/ j = All,
             \A k \in i..j : k \notin message.breaks
      PROVE  <<i, j>> \in Lines
  BY <1>2, <1>4 DEF Between
<1>5. QED
  BY <1>3, <1>4

(* Feeding the assembler takes exactly the lines that have come to their end. *)
LEMMA FeedKeepsAssembled ==
  ASSUME message \in Messages, UNCHANGED message, start \in Nat, fed \in Nat, start <= fed,
         Between(start), \A b \in message.breaks : b <= fed => b <= start,
         records = Taken(start),
         NEW upto \in Nat, fed <= upto, upto <= All, Feed(upto)
  PROVE  /\ start' \in Nat /\ start' <= fed' /\ fed' = upto
         /\ Between(start)'
         /\ \A b \in message.breaks : b <= upto => b <= start'
         /\ records' = Taken(start')
<1> DEFINE N == Newlines(upto)
           Prev(b) == Max({start} \cup {c \in N : c < b})
<1>1. message.breaks \subseteq 1..All /\ All \in Nat
  BY MessageFacts
<1>2. N = {b \in message.breaks : start < b /\ b <= upto} /\ N \subseteq Nat /\ \A c \in N : c <= upto
  BY <1>1 DEF Newlines
<1>3. /\ start' = Max({start} \cup N) /\ fed' = upto
      /\ records' = records \cup Records({LineEnding(b, upto) : b \in N})
  BY DEF Feed
<1>4. start' \in {start} \cup N /\ \A c \in {start} \cup N : c <= start'
  <2> HIDE DEF N
  <2> QED
    BY <1>2, <1>3, LatestBreak
<1>5. start' \in Nat /\ start' <= upto /\ Between(start)' /\ start <= start'
  <2>1. start' \in message.breaks \cup {0}
    BY <1>2, <1>4 DEF Between
  <2>2. QED
    BY <1>2, <1>4, <2>1 DEF Between
<1>6. \A b \in message.breaks : b <= upto => b <= start'
  <2>1. ASSUME NEW b \in message.breaks, b <= upto
        PROVE  b <= start'
    <3>1. b \in Nat
      BY <1>1
    <3>2. CASE start < b
      BY <1>2, <1>4, <2>1, <3>2
    <3>3. CASE b <= start
      BY <1>5, <3>1, <3>3
    <3>4. QED
      BY <3>1, <3>2, <3>3
  <2>2. QED
    BY <2>1
<1>7. ASSUME NEW b \in N
      PROVE  /\ Prev(b) \in {start} \cup {c \in N : c < b}
             /\ \A c \in {start} \cup {d \in N : d < b} : c <= Prev(b)
             /\ LineEnding(b, upto) = <<Prev(b) + 1, b - 1>>
  <2> DEFINE M == {c \in N : c < b}
  <2>1. M \subseteq Nat /\ \A c \in M : c <= upto
    BY <1>2
  <2>2. Max({start} \cup M) \in {start} \cup M /\ \A c \in {start} \cup M : c <= Max({start} \cup M)
    <3> HIDE DEF M
    <3> QED
      BY <2>1, LatestBreak
  <2>3. LineEnding(b, upto) = <<Prev(b) + 1, b - 1>>
    BY DEF LineEnding
  <2>4. QED
    BY <2>2, <2>3
<1> HIDE DEF N, Prev
(* What is taken is a line of the bundle. *)
<1>8. ASSUME NEW b \in N, Prev(b) + 1 <= b - 1
      PROVE  <<Prev(b) + 1, b - 1>> \in Taken(start')
  <2>1. b \in message.breaks /\ b \in 1..All /\ start < b /\ b <= start'
    BY <1>1, <1>2, <1>4
  <2>2. Prev(b) \in Nat /\ Between(Prev(b)) /\ start <= Prev(b)
    BY <1>2, <1>7 DEF Between
  <2>3. Prev(b) + 1 \in 1..All /\ b - 1 \in 1..All /\ (Prev(b) + 1) - 1 = Prev(b) /\ (b - 1) + 1 = b
    BY <1>1, <1>8, <2>1, <2>2
  <2>4. ASSUME NEW k \in (Prev(b) + 1)..(b - 1), k \in message.breaks
        PROVE  FALSE
    <3>1. start < k /\ k < b /\ k <= upto /\ ~(k <= Prev(b))
      BY <1>2, <1>5, <2>1, <2>2, <2>4
    <3>2. k \in N
      BY <1>2, <2>4, <3>1
    <3>3. QED
      BY <1>7, <3>1, <3>2
  <2>5. <<Prev(b) + 1, b - 1>> \in Lines
    BY <1>8, <2>1, <2>2, <2>3, <2>4, LineFacts
  <2>6. b - 1 < start'
    BY <1>5, <2>1
  <2>7. QED
    BY <2>5, <2>6 DEF Taken
(* And every line that has come to its end is taken. *)
<1>9. ASSUME NEW l \in Taken(start'), l \notin Taken(start)
      PROVE  \E b \in N : l = <<Prev(b) + 1, b - 1>> /\ Prev(b) + 1 <= b - 1
  <2>1. PICK i \in 1..All, j \in 1..All :
          /\ l = <<i, j>> /\ i <= j /\ Between(i - 1)
          /\ (j + 1 \in message.breaks \/ j = All)
          /\ \A k \in i..j : k \notin message.breaks
    BY LineFacts DEF Taken
  <2>2. j < start' /\ ~(j < start)
    BY <1>9, <2>1 DEF Taken
  <2>3. j + 1 \in message.breaks /\ start < j + 1 /\ j + 1 <= upto
    BY <1>1, <1>5, <2>1, <2>2
  <2>4. j + 1 \in N
    BY <1>2, <2>3
  <2>5. start <= i - 1
    <3>1. SUFFICES ASSUME ~(start <= i - 1)
                   PROVE  FALSE
      OBVIOUS
    <3>2. start \in i..j /\ start # 0
      BY <1>1, <2>1, <2>3, <3>1
    <3>3. QED
      BY <2>1, <3>2 DEF Between
  <2>6. i - 1 \in {start} \cup {c \in N : c < j + 1}
    <3>1. CASE i - 1 = start
      BY <3>1
    <3>2. CASE i - 1 # start
      <4>1. i - 1 \in message.breaks /\ start < i - 1 /\ i - 1 < j + 1 /\ i - 1 <= upto
        BY <1>1, <1>5, <2>1, <2>3, <2>5, <3>2 DEF Between
      <4>2. QED
        BY <1>2, <4>1
    <3>3. QED
      BY <3>1, <3>2
  <2>7. \A c \in {start} \cup {d \in N : d < j + 1} : c <= i - 1
    <3>1. ASSUME NEW c \in N, c < j + 1, ~(c <= i - 1)
          PROVE  FALSE
      <4>1. c \in message.breaks /\ c \in Nat /\ c \in i..j
        BY <1>1, <1>2, <2>1, <3>1
      <4>2. QED
        BY <2>1, <4>1
    <3>2. QED
      BY <2>5, <3>1
  <2>8. Prev(j + 1) = i - 1
    <3>1. Prev(j + 1) <= i - 1 /\ i - 1 <= Prev(j + 1)
      BY <1>7, <2>4, <2>6, <2>7
    <3>2. Prev(j + 1) \in Nat
      BY <1>2, <1>7, <2>4
    <3>3. QED
      BY <1>1, <2>1, <3>1, <3>2
  <2>9. (i - 1) + 1 = i /\ (j + 1) - 1 = j
    BY <1>1, <2>1
  <2>10. l = <<Prev(j + 1) + 1, (j + 1) - 1>> /\ Prev(j + 1) + 1 <= (j + 1) - 1
    BY <2>1, <2>8, <2>9
  <2>11. QED
    BY <2>4, <2>10
<1>10. Taken(start) \subseteq Taken(start')
  <2>1. ASSUME NEW l \in Taken(start)
        PROVE  l \in Taken(start')
    <3>1. PICK i \in 1..All, j \in 1..All : l = <<i, j>>
      BY LineFacts DEF Taken
    <3>2. l \in Lines /\ j < start
      BY <3>1 DEF Taken
    <3>3. j < start'
      BY <1>1, <1>5, <3>1, <3>2
    <3>4. QED
      BY <3>1, <3>2, <3>3 DEF Taken
  <2>2. QED
    BY <2>1
<1>11. Records({LineEnding(b, upto) : b \in N})
         = {<<Prev(b) + 1, b - 1>> : b \in {d \in N : Prev(d) + 1 <= d - 1}}
  BY <1>7 DEF Records
<1>12. records' = Taken(start')
  BY <1>3, <1>8, <1>9, <1>10, <1>11
<1>13. QED
  BY <1>3, <1>5, <1>6, <1>12

(* The rest of the buffer is the line that is still missing. *)
LEMMA RestCompletesLines ==
  ASSUME message \in Messages, start \in Nat, fed = All, start <= fed, Between(start),
         \A b \in message.breaks : b <= fed => b <= start
  PROVE  Taken(start) \cup Records({<<start + 1, fed>>}) = Lines
<1>1. message.breaks \subseteq 1..All /\ All \in Nat
  BY MessageFacts
<1>2. ASSUME NEW l \in Lines, l \notin Taken(start)
      PROVE  l \in Records({<<start + 1, fed>>})
  <2>1. PICK i \in 1..All, j \in 1..All :
          /\ l = <<i, j>> /\ i <= j /\ Between(i - 1)
          /\ (j + 1 \in message.breaks \/ j = All)
          /\ \A k \in i..j : k \notin message.breaks
    BY LineFacts
  <2>2. ~(j < start)
    BY <1>2, <2>1 DEF Taken
  <2>3. j = All
    <3>1. ASSUME j + 1 \in message.breaks
          PROVE  FALSE
      <4>1. j + 1 <= fed
        BY <1>1, <3>1
      <4>2. j + 1 <= start
        BY <3>1, <4>1
      <4>3. QED
        BY <1>1, <2>1, <2>2, <4>2
    <3>2. QED
      BY <2>1, <3>1
  <2>4. i - 1 = start
    <3>1. i - 1 <= start
      BY <1>1, <2>1 DEF Between
    <3>2. ASSUME i - 1 < start
          PROVE  FALSE
      <4>1. start \in i..j /\ start # 0
        BY <1>1, <2>1, <2>3, <3>2
      <4>2. QED
        BY <2>1, <4>1 DEF Between
    <3>3. QED
      BY <1>1, <2>1, <3>1, <3>2
  <2>5. l = <<start + 1, fed>> /\ start + 1 <= fed
    BY <1>1, <2>1, <2>3, <2>4
  <2>6. QED
    BY <2>5 DEF Records
<1>3. ASSUME start + 1 <= fed
      PROVE  <<start + 1, fed>> \in Lines
  <2>1. start + 1 \in 1..All /\ fed \in 1..All /\ (start + 1) - 1 = start
    BY <1>1, <1>3
  <2>2. ASSUME NEW k \in (start + 1)..fed, k \in message.breaks
        PROVE  FALSE
    BY <1>1, <2>2
  <2>3. QED
    BY <1>3, <2>1, <2>2, LineFacts
<1>4. Records({<<start + 1, fed>>}) = IF start + 1 <= fed THEN {<<start + 1, fed>>} ELSE {}
  BY DEF Records
<1>5. Taken(start) \subseteq Lines
  BY DEF Taken
<1>6. QED
  BY <1>2, <1>3, <1>4, <1>5

LEMMA AccountAssembles ==
  ASSUME Measured, Assembled, Bundle, place \in {"expanding", "reading", "flushing"},
         NEW produced \in Nat, NEW next \in {"expanding", "reading", "flushing", "complete", "invalid"},
         Account(produced, next), out + produced <= message.output[got], UNCHANGED message
  PROVE  Assembled'
<1>1. /\ message \in Messages /\ got \in Sizes /\ out \in Nat /\ fed = out
      /\ message.output[got] <= All /\ message.output[got] \in Nat /\ All \in Nat
      /\ message.size \in Sizes /\ got <= message.size
  BY MessageFacts DEF Measured, All
<1>2. /\ start \in Nat /\ start <= fed /\ Between(start) /\ records = Taken(start)
      /\ \A b \in message.breaks : b <= fed => b <= start
  BY DEF Assembled
<1>3. out' = out + produced /\ out' \in Nat /\ fed <= out' /\ out' <= All
  BY <1>1 DEF Account
<1>4. Lines' = Lines
  BY DEF Lines
<1>5. CASE Crosses(out')
  <2>1. place' = "too_large" /\ UNCHANGED <<fed, start, records>>
    BY <1>5 DEF Account, lineVars
  <2>2. QED
    BY <1>2, <1>4, <2>1 DEF Assembled, Taken, Between
<1>6. CASE ~Crosses(out')
  <2>1. place' = next /\ Feed(out')
    BY <1>6 DEF Account
  <2>2. /\ start' \in Nat /\ start' <= fed' /\ fed' = out' /\ Between(start)'
        /\ \A b \in message.breaks : b <= out' => b <= start'
        /\ records' = Taken(start')
    BY <1>1, <1>2, <1>3, <2>1, FeedKeepsAssembled
  <2>3. Taken(start)' = Taken(start')
    BY <1>4 DEF Taken
  <2>4. QED
    BY <2>1, <2>2, <2>3 DEF Assembled
<1>7. QED
  BY <1>5, <1>6

LEMMA StepKeepsAssembled ==
  ASSUME Measured, Assembled, Next
  PROVE  Assembled'
<1>1. /\ (Body \/ Bundle) /\ ~(Body /\ Bundle) /\ message \in Messages
      /\ Body => place \in {"arriving", "reading", "too_large", "accepted"}
  BY MessageFacts DEF Measured, Body, Bundle
<1>2. UNCHANGED message
  BY DEF Next, Open, Receive, Expand, Corrupt, Close, Finish, TakeRest
<1>3. ASSUME UNCHANGED lineVars, place # "accepted", place' = "accepted" => Body
      PROVE  Assembled'
  <2>1. Lines' = Lines
    BY <1>2 DEF Lines
  <2>2. QED
    BY <1>1, <1>2, <1>3, <2>1 DEF Assembled, Taken, Between, lineVars, Body, Bundle
<1>4. CASE Open \/ Receive \/ Corrupt
  BY <1>3, <1>4 DEF Open, Receive, Corrupt, lineVars
<1>5. CASE Expand
  <2>1. Bundle /\ place = "expanding"
    BY <1>1, <1>5 DEF Expand
  <2>2. PICK next \in {"reading", "expanding"} : Account(StepSize, next)
    BY <1>5 DEF Expand
  <2>3. QED
    BY <1>2, <2>1, <2>2, StepFacts, AccountAssembles
<1>6. CASE Close
  <2>1. CASE Bundle
    <3>1. Account(StepSize, "flushing") /\ place = "reading"
      BY <1>6, <2>1 DEF Close
    <3>2. QED
      BY <1>2, <2>1, <3>1, StepFacts, AccountAssembles
  <2>2. CASE Body
    BY <1>1, <1>3, <1>6, <2>2 DEF Close
  <2>3. QED
    BY <1>1, <2>1, <2>2
<1>7. CASE Finish
  <2>1. /\ place = "flushing" /\ Bundle
        /\ Account(Owed, IF message.ending = "whole" THEN "complete" ELSE "invalid")
    BY <1>1, <1>7 DEF Finish, FinishBundle
  <2>2. PICK next \in {"complete", "invalid"} : Account(Owed, next)
    BY <2>1
  <2>3. Owed \in Nat /\ out + Owed = message.output[got] /\ message.output[got] <= message.output[got]
    BY StepFacts, MessageFacts DEF Measured
  <2>4. QED
    BY <1>2, <2>1, <2>2, <2>3, AccountAssembles
<1>8. CASE TakeRest
  <2>1. /\ place = "complete" /\ place' = "accepted" /\ fed' = fed /\ start' = fed /\ Bundle
        /\ records' = records \cup Records({<<start + 1, fed>>})
    BY <1>1, <1>8 DEF TakeRest
  <2>2. fed = All /\ fed \in Nat
    BY <2>1 DEF Measured, All
  <2>3. /\ start \in Nat /\ start <= fed /\ Between(start) /\ records = Taken(start)
        /\ \A b \in message.breaks : b <= fed => b <= start
    BY <2>1 DEF Assembled
  <2>4. records' = Lines
    BY <1>1, <2>1, <2>2, <2>3, RestCompletesLines
  <2>5. Lines' = Lines
    BY <1>2 DEF Lines
  <2>6. ~Body' /\ start' \in Nat /\ start' <= fed'
    BY <1>2, <2>1, <2>2 DEF Body, Bundle
  <2>7. QED
    BY <2>1, <2>4, <2>5, <2>6 DEF Assembled
<1>9. QED
  BY <1>4, <1>5, <1>6, <1>7, <1>8 DEF Next

LEMMA AssembledHolds == Spec => []Assembled
<1>1. Init => Assembled
  <2>1. SUFFICES ASSUME Init
                 PROVE  Assembled
    OBVIOUS
  <2>2. message \in Messages /\ message.breaks \subseteq 1..All /\ All \in Nat
    BY <2>1, MessageFacts DEF Init
  <2>3. Taken(0) = {}
    <3>1. ASSUME NEW l \in Taken(0)
          PROVE  FALSE
      <4>1. PICK i \in 1..All, j \in 1..All : l = <<i, j>>
        BY <2>2, LineFacts DEF Taken
      <4>2. QED
        BY <2>2, <4>1 DEF Taken
    <3>2. QED
      BY <3>1
  <2>4. QED
    BY <2>1, <2>2, <2>3 DEF Init, Assembled, Between
<1>2. Measured /\ Assembled /\ [Next]_vars => Assembled'
  <2>1. ASSUME Assembled, UNCHANGED vars
        PROVE  Assembled'
    BY <2>1 DEF Assembled, Taken, Lines, Between, vars, lineVars, Body, Bundle
  <2>2. QED
    BY <2>1, StepKeepsAssembled
<1>3. QED
  BY <1>1, <1>2, MeasuredHolds, PTL DEF Spec

(* For every text, every cut of its gzip into chunks and every step size of the
   decompressor, only whole lines are parsed, and an accepted bundle has had
   each of its lines parsed.                                                 *)
THEOREM RecordsAlwaysSurvive == Spec => []RecordsSurviveTheCut
<1>1. Assembled /\ Measured => RecordsSurviveTheCut
  BY MessageFacts DEF Assembled, Measured, RecordsSurviveTheCut, Taken, Body, Bundle
<1>2. QED
  BY <1>1, AssembledHolds, MeasuredHolds, PTL

(* The reader's variables keep their types. *)
THEOREM TypeCorrect == Spec => []TypeOK
<1>1. Assembled /\ Measured => TypeOK
  <2>1. SUFFICES ASSUME Assembled, Measured
                 PROVE  TypeOK
    OBVIOUS
  <2>2. records \subseteq Nat \X Nat
    <3>1. records \subseteq Lines /\ message \in Messages
      BY <2>1, MessageFacts DEF Assembled, Measured, Taken, Body, Bundle
    <3>2. QED
      BY <3>1, LineFacts
  <2>3. QED
    BY <2>1, <2>2 DEF TypeOK, Measured, Assembled
<1>2. QED
  BY <1>1, AssembledHolds, MeasuredHolds, PTL
=============================================================================
