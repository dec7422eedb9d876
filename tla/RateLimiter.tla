---------------------------- MODULE RateLimiter ----------------------------
(***************************************************************************)
(* Half fix 1: a sliding window of request times per key, in one process.  *)
(* Every request asks once; the clock is time.monotonic, so it may stand   *)
(* still between two requests and never goes back. "granted" remembers,    *)
(* for the properties alone, every time a key was ever let through; its    *)
(* indices tell remembered requests of the same moment apart.              *)
(***************************************************************************)
EXTENDS Naturals, Sequences, FiniteSets

CONSTANTS
  Keys,         (* tenants                                                  *)
  MaxRequests,  (* max_requests                                             *)
  Window,       (* window_seconds                                           *)
  MaxGrants,    (* bound: requests let through for one key                  *)
  MaxTime       (* bound: the clock                                         *)

ASSUME LimiterAssumption ==
  /\ MaxRequests \in Nat /\ Window \in Nat /\ MaxGrants \in Nat /\ MaxTime \in Nat

VARIABLES
  clock,     (* time.monotonic()                                            *)
  seen,      (* _seen: the requests the limiter remembers, and their times  *)
  granted    (* history: the times it let a request through, per key        *)

limiterVars == <<clock, seen, granted>>

Times == Seq(0..MaxTime)

LimiterTypeOK ==
  /\ clock \in 0..MaxTime
  /\ seen \in [Keys -> SUBSET (Nat \X (0..MaxTime))]
  /\ granted \in [Keys -> Times]

LimiterInit ==
  /\ clock = 0
  /\ seen = [k \in Keys |-> {}]
  /\ granted = [k \in Keys |-> <<>>]

(* Mutant: an entry is forgotten one moment early. *)
InWindowShort(entry) == clock - entry[2] + 1 < Window

(* "moment - at < window_seconds": an entry as old as the window is gone. *)
InWindow(entry) == clock - entry[2] < Window

Recent(k) == {entry \in seen[k] : InWindow(entry)}
Full(k)   == Cardinality(Recent(k)) >= MaxRequests

(* allow, without an await: prune, decide, remember. *)
Allow(k) ==
  /\ ~Full(k)
  /\ Len(granted[k]) < MaxGrants
  /\ seen' = [seen EXCEPT ![k] = Recent(k) \cup {<<Len(granted[k]) + 1, clock>>}]
  /\ granted' = [granted EXCEPT ![k] = Append(@, clock)]
  /\ UNCHANGED clock

Refuse(k) ==
  /\ Full(k)
  /\ seen' = [seen EXCEPT ![k] = Recent(k)]
  /\ UNCHANGED <<clock, granted>>

Tick == clock < MaxTime /\ clock' = clock + 1 /\ UNCHANGED <<seen, granted>>

LimiterNext == Tick \/ \E k \in Keys : Allow(k) \/ Refuse(k)

LimiterSpec == LimiterInit /\ [][LimiterNext]_limiterVars

-----------------------------------------------------------------------------
(* "Honoured exactly" (halffixes.py), although old entries are thrown away on
   every call. No window of Window moments, wherever it starts, holds more than
   MaxRequests requests of one key; and a key would be refused now if and only
   if MaxRequests of its requests were really let through within the window
   that ends now: neither another key's requests nor an earlier refusal counts,
   and none is forgotten.                                                    *)
WindowIsExact ==
  \A k \in Keys :
    /\ \A i \in 1..Len(granted[k]) :
         i + MaxRequests <= Len(granted[k]) =>
           granted[k][i + MaxRequests] - granted[k][i] >= Window
    /\ Full(k) <=>
         Cardinality({i \in 1..Len(granted[k]) : clock - granted[k][i] < Window}) >= MaxRequests
=============================================================================
