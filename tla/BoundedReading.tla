--------------------------- MODULE BoundedReading ---------------------------
(***************************************************************************)
(* How the secure application reads what a caller sends: a JSON body       *)
(* counted as it arrives (read_bounded_body), and a gzip bundle that is    *)
(* decompressed piece by piece while two ceilings are watched              *)
(* (read_bounded_bundle). The caller chooses the content, how it is cut    *)
(* into chunks, and what size it declares.                                 *)
(*                                                                         *)
(* A bundle is what zlib makes of it: output[n] is how many bytes its      *)
(* first n compressed bytes become. zlib itself is modelled from its use:  *)
(* a call returns at most OutputChunk bytes and keeps the input it has not *)
(* consumed; it may have consumed a byte and still owe part of its output. *)
(* What comes out goes to the line assembler, which keeps an unfinished    *)
(* line until the rest of it comes. A line is the interval of output bytes *)
(* that json.loads is given; what it makes of them is not modelled.        *)
(***************************************************************************)
EXTENDS Naturals, FiniteSetsExt

CONSTANTS
  Messages,         (* what a caller may send: see Message                  *)
  MaxSize,          (* bound: no message is longer                          *)
  MaxGrowth,        (* bound: no compressed byte becomes more bytes         *)
  MaxBody,          (* bounds.max_body_bytes                                *)
  MaxImportBody,    (* bounds.max_import_body_bytes                         *)
  MaxDecompressed,  (* bounds.max_decompressed_bytes                        *)
  MaxRatio,         (* bounds.max_expansion_ratio                           *)
  OutputChunk,      (* OUTPUT_CHUNK_BYTES                                   *)
  RatioFloor        (* RATIO_EVALUATION_FLOOR_BYTES                         *)

Sizes   == 0..MaxSize
Growing == {f \in [Sizes -> Nat] :
              f[0] = 0 /\ \A n \in 1..MaxSize : f[n-1] <= f[n] /\ f[n] <= f[n-1] + MaxGrowth}

(* declared: the Content-Length header; breaks: where the output has newlines;
   ending: whether the gzip stream ends with its last byte, goes on beyond it,
   or is broken by it.                                                       *)
IsMessage(m) ==
  /\ m.route \in {"body", "bundle"}
  /\ m.size \in Sizes /\ m.declared \in Nat
  /\ m.output \in Growing
  /\ m.breaks \subseteq 1..m.output[m.size]
  /\ m.ending \in {"whole", "truncated", "corrupt"}

ASSUME ReadingAssumption ==
  /\ \A m \in Messages : IsMessage(m)
  /\ MaxSize \in Nat /\ MaxGrowth \in Nat /\ MaxBody \in Nat /\ MaxImportBody \in Nat
  /\ MaxDecompressed \in Nat /\ MaxRatio \in Nat /\ RatioFloor \in Nat
  /\ OutputChunk \in Nat \ {0}

VARIABLES
  message,  (* what is being sent                                           *)
  place,    (* where its reader stands                                      *)
  got,      (* total, or compressed_bytes                                   *)
  out,      (* decompressed_bytes: everything zlib was made to produce      *)
  fed,      (* what the line assembler was given of it                      *)
  start,    (* the assembler's buffer holds what was fed after this byte    *)
  records   (* the lines it took, as <<first, last>> byte                   *)

lineVars == <<fed, start, records>>
vars == <<message, place, got, out, lineVars>>

Verdicts == {"accepted", "too_large", "invalid"}

TypeOK ==
  /\ message \in Messages
  /\ place \in {"arriving", "reading", "expanding", "flushing", "complete"} \cup Verdicts
  /\ got \in Sizes
  /\ out \in Nat /\ fed \in Nat /\ start \in Nat
  /\ records \subseteq Nat \X Nat

Init ==
  /\ message \in Messages
  /\ place = "arriving"
  /\ got = 0 /\ out = 0 /\ fed = 0
  /\ start = 0 /\ records = {}

Body   == message.route = "body"
Bundle == message.route = "bundle"

-----------------------------------------------------------------------------
(* A body that says it is too large is refused unread; a bundle is not asked. *)
Open ==
  /\ place = "arriving"
  /\ place' = IF Body /\ message.declared > MaxBody THEN "too_large" ELSE "reading"
  /\ UNCHANGED <<message, got, out, lineVars>>

Limit == IF Body THEN MaxBody ELSE MaxImportBody

(* The next chunk, counted before anything else is done with it. *)
Receive ==
  /\ place = "reading"
  /\ \E n \in 1..(message.size - got) :
       /\ got' = got + n
       /\ place' = IF got' > Limit THEN "too_large" ELSE IF Body THEN "reading" ELSE "expanding"
  /\ UNCHANGED <<message, out, lineVars>>

(* Mutant: the ratio is watched from the first byte. *)
CrossesEarly(total) ==
  total > MaxDecompressed \/ total > got * MaxRatio

(* The ceilings, on everything produced so far. *)
Crosses(total) ==
  total > MaxDecompressed \/ (total >= RatioFloor /\ total > got * MaxRatio)

(* The newlines in the buffer once it holds everything up to a byte, the line
   that each of them ends, and what is worth a record of those: a blank line is
   not.                                                                      *)
Newlines(upto)       == {b \in message.breaks : start < b /\ b <= upto}
LineEnding(b, upto)  == <<Max({start} \cup {c \in Newlines(upto) : c < b}) + 1, b - 1>>
Records(lines)       == {l \in lines : l[1] <= l[2]}

(* Mutant: what a step leaves unfinished is taken for a line. *)
FeedByStep(upto) ==
  /\ fed' = upto
  /\ records' = records \cup Records({LineEnding(b, upto) : b \in Newlines(upto)}
                                   \cup {<<Max({start} \cup Newlines(upto)) + 1, upto>>})
  /\ start' = upto

(* feed: take every finished line out of the buffer, keep the rest. *)
Feed(upto) ==
  /\ fed' = upto
  /\ records' = records \cup Records({LineEnding(b, upto) : b \in Newlines(upto)})
  /\ start' = Max({start} \cup Newlines(upto))

(* account: count, then refuse or feed. *)
Account(produced, next) ==
  /\ out' = out + produced
  /\ IF Crosses(out') THEN place' = "too_large" /\ UNCHANGED lineVars
                      ELSE place' = next /\ Feed(out')

Owed  == message.output[got] - out
Least(a, b) == IF a <= b THEN a ELSE b

(* Mutant: output is asked for without a limit. *)
StepSizeUnlimited == Owed

(* What decompress(pending, max_length=OUTPUT_CHUNK_BYTES) returns. *)
StepSize == Least(OutputChunk, Owed)

(* Mutant: the loop goes on until the gzip stream itself ends. *)
ExpandUntilEnd ==
  /\ place = "expanding"
  /\ ~(message.ending = "corrupt" /\ got = message.size /\ Owed <= OutputChunk)
  /\ Account(StepSize, IF StepSize < OutputChunk /\ got = message.size
                       THEN "reading" ELSE "expanding")
  /\ UNCHANGED <<message, got>>

(* Once more round the inner loop. It ends when no input is left over: surely
   when less than asked for was returned; perhaps, owing the rest, when the
   output of the last byte has begun.                                        *)
Expand ==
  /\ place = "expanding"
  /\ ~(message.ending = "corrupt" /\ got = message.size /\ Owed <= OutputChunk)
  /\ \/ StepSize < OutputChunk /\ Account(StepSize, "reading")
     \/ StepSize >= OutputChunk /\ Account(StepSize, "expanding")
     \/ StepSize >= OutputChunk /\ message.output[got - 1] <= out + StepSize
          /\ Account(StepSize, "reading")
  /\ UNCHANGED <<message, got>>

(* zlib meets the byte that breaks the stream. *)
Corrupt ==
  /\ place = "expanding"
  /\ message.ending = "corrupt" /\ got = message.size /\ Owed <= OutputChunk
  /\ place' = "invalid"
  /\ UNCHANGED <<message, got, out, lineVars>>

(* Mutant: what is still owed is not flushed. *)
FinishBundleUnflushed ==
  /\ place' = IF message.ending = "whole" THEN "complete" ELSE "invalid"
  /\ UNCHANGED <<out, lineVars>>

(* Flush, account for it, and see whether gzip agrees that this was the end. *)
FinishBundle == Account(Owed, IF message.ending = "whole" THEN "complete" ELSE "invalid")

(* The stream's last chunk is empty: it makes zlib hand over one more step of
   what it owes, and adds nothing to a body.                                 *)
Close ==
  /\ place = "reading" /\ got = message.size
  /\ IF Bundle THEN Account(StepSize, "flushing")
               ELSE place' = "accepted" /\ UNCHANGED <<out, lineVars>>
  /\ UNCHANGED <<message, got>>

Finish ==
  /\ place = "flushing"
  /\ FinishBundle
  /\ UNCHANGED <<message, got>>

(* finish: a last line need not end in a newline. *)
TakeRest ==
  /\ place = "complete"
  /\ place' = "accepted"
  /\ records' = records \cup Records({<<start + 1, fed>>})
  /\ start' = fed
  /\ UNCHANGED <<message, got, out, fed>>

-----------------------------------------------------------------------------
Next == Open \/ Receive \/ Expand \/ Corrupt \/ Close \/ Finish \/ TakeRest

Spec == Init /\ [][Next]_vars

(* The inner loop does not await anything. *)
FairSpec == Spec /\ WF_vars(Expand \/ Corrupt)

-----------------------------------------------------------------------------
(* Properties *)

(* What is accepted was read to its last byte, all of it was decompressed and
   handed on, and it fits every bound, however it was cut into chunks
   (expansion.py: "returned only when the whole of it fitted inside every one
   of those bounds").                                                        *)
AcceptedFits ==
  place = "accepted" =>
    /\ got = message.size
    /\ Body => got <= MaxBody
    /\ Bundle =>
         LET all == message.output[message.size] IN
         /\ message.ending = "whole"
         /\ fed = all
         /\ got <= MaxImportBody
         /\ all <= MaxDecompressed
         /\ all >= RatioFloor => all <= got * MaxRatio

(* Nothing is refused as too large unless a bound was crossed by what had been
   received by then, or the caller said so itself: no cut into chunks, no step
   of the decompressor and no floor makes a message that fits look too large. *)
RefusedForCause ==
  place = "too_large" =>
    \/ Body /\ (got > MaxBody \/ message.declared > MaxBody)
    \/ Bundle /\ got > MaxImportBody
    \/ Bundle /\ LET received == message.output[got] IN
         \/ received > MaxDecompressed
         \/ received >= RatioFloor /\ received > got * MaxRatio

(* Whatever the caller sends, no more is ever decompressed than one step beyond
   the ceiling, and nothing beyond it, in bytes or in ratio, reaches the record
   parser (expansion.py: "the step is the enforcement interval").            *)
OvershootBounded ==
  /\ out <= MaxDecompressed + OutputChunk \/ out <= MaxDecompressed + MaxGrowth
  /\ fed <= MaxDecompressed
  /\ fed >= RatioFloor => fed <= got * MaxRatio

(* The lines a bundle holds: between newlines, not blank. *)
Lines ==
  LET all == message.output[message.size] IN
  {l \in (1..all) \X (1..all) :
     /\ l[1] <= l[2]
     /\ l[1] - 1 \in message.breaks \cup {0}
     /\ l[2] + 1 \in message.breaks \cup {all + 1}
     /\ \A i \in l[1]..l[2] : i \notin message.breaks}

(* Which records an import holds is decided by what it says and not by how it
   was cut into chunks on the way, or by the decompressor into steps: no line is
   ever parsed in part, and an accepted bundle has had every line parsed once
   (expansion.py _LineAssembler; a line parsed in part would be dropped without
   a word, and with it a record the caller believes imported).               *)
RecordsSurviveTheCut ==
  /\ records \subseteq Lines
  /\ place = "accepted" /\ Bundle => records = Lines

(* The inner loop comes to an end for every chunk: there is no chunk, however
   little or much it becomes, that keeps the event loop for good.            *)
ChunksEnd == place = "expanding" ~> place # "expanding"
=============================================================================
