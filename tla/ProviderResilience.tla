------------------------- MODULE ProviderResilience -------------------------
(***************************************************************************)
(* One call of the provider the orchestrator is given when both resilience *)
(* and fallbackProviders are set (composeProvider, src/config.ts): a chain *)
(* of vendors (src/providers/withFallback.ts), each asked again on a       *)
(* retryable failure (src/providers/withRetry.ts).                         *)
(*                                                                         *)
(* A streamed call has deadlines and a signal its caller may abort; a      *)
(* structured one has neither.  A vendor may hang.  As the providers of    *)
(* this package do, it sends nothing, yields nothing and raises nothing    *)
(* once its signal is aborted (src/providers/bedrock/bedrockProvider.ts).  *)
(*                                                                         *)
(* Errors are told apart by what decides where they go.  The mask around   *)
(* the chain and the lengths of the delays are not modelled.               *)
(***************************************************************************)
EXTENDS Naturals, Sequences, FiniteSets, SequencesExt

CONSTANTS
    Vendors,       \* the primary and its fallbacks
    MaxAttempts,   \* resilience.maxAttempts
    MaxChunks      \* bound: the chunks of an answer

ASSUME ChainAssumption == Vendors \in Nat \ {0, 1} /\ MaxAttempts \in Nat \ {0}
ASSUME ChunksAssumption == MaxChunks \in Nat \ {0}

VARIABLES
    structured,  \* set once: generateStructured, not sendMessage
    aborted,     \* the caller's signal
    at,          \* where the call stands
    position,    \* the vendor being asked
    attempt,     \* and for how many times
    live,        \* the attempts that were not released: signal aborted, iterator returned
    outcome,     \* how the call ended
    sent,        \* the attempts a vendor was sent the conversation in, in order (history)
    received,    \* whose chunks the caller was given, in order (history)
    failures,    \* the attempts that failed before their first chunk, and why (history)
    reported     \* the vendors the host was told are given up, in order (history)

vars == <<structured, aborted, at, position, attempt, live, outcome, sent, received, failures, reported>>

Attempts == (1..Vendors) \X (1..MaxAttempts)

(* A code of OUTAGE_CODES, TIMEOUT apart, one of CONFIGURATION_FAULTS, or  *)
(* another; a throw that is no AIError has no code.                        *)
Codes == {"OUTAGE", "TIMEOUT", "FAULT", "OTHER"}
Errors == [code : Codes, retryable : BOOLEAN] \union {[code |-> "none", retryable |-> FALSE]}

TimedOut == [code |-> "TIMEOUT", retryable |-> TRUE]

TypeOK ==
    /\ structured \in BOOLEAN /\ aborted \in BOOLEAN
    /\ at \in {"start", "first", "reading", "streaming", "backoff", "hook", "over"}
    /\ position \in 1..Vendors
    /\ attempt \in 1..MaxAttempts
    /\ live \subseteq Attempts
    /\ outcome \in {"none", "returned", "raised"}
    /\ sent \in Seq(Attempts) /\ received \in Seq(Attempts)
    /\ failures \in Seq([of : Attempts, error : Errors])
    /\ reported \in Seq(1..Vendors)
    /\ structured => ~aborted /\ live = {} /\ received = <<>>
    /\ outcome = "none" <=> at # "over"

Init ==
    /\ structured \in BOOLEAN
    /\ aborted \in BOOLEAN /\ (structured => ~aborted)
    /\ at = "start"
    /\ position = 1 /\ attempt = 1
    /\ live = {}
    /\ outcome = "none"
    /\ sent = <<>> /\ received = <<>> /\ failures = <<>> /\ reported = <<>>

-----------------------------------------------------------------------------
Current == <<position, attempt>>

Becomes(place) == at' = place /\ UNCHANGED outcome
Finish(how) == at' = "over" /\ outcome' = how

(* abandon: an attempt is released however it ended.                       *)
Release == live' = live \ {Current}

(* An attempt starts, under a signal of its own composed with the caller's.*)
Begin(v, a) ==
    /\ Becomes("first")
    /\ position' = v /\ attempt' = a
    /\ live' = IF structured THEN live ELSE live \union {<<v, a>>}
    /\ sent' = IF aborted THEN sent ELSE Append(sent, <<v, a>>)

(* Slip: only a failed vendor's abort is looked at, not one that comes     *)
(* before the next vendor starts.                                          *)
AskAnyway(v) == Begin(v, 1)

(* The chain's loop.  An abort never starts the next vendor.               *)
Ask(v) ==
    IF aborted THEN Finish("returned") /\ UNCHANGED <<position, attempt, live, sent>>
    ELSE Begin(v, 1)

Start ==
    /\ at = "start"
    /\ Ask(1)
    /\ UNCHANGED <<structured, aborted, received, failures, reported>>

-----------------------------------------------------------------------------
AttemptsLeft == attempt < MaxAttempts

(* Slip: any error of a vendor routes onward.                              *)
FailsOverOnAny(e) == e.code # "none"

FailsOver(e) == e.code \notin {"none", "FAULT"} /\ (e.retryable \/ e.code \in {"OUTAGE", "TIMEOUT"})

(* reportFailover tells the host and waits for it; after the last vendor   *)
(* there is nothing to report, and its error is raised.                    *)
Route ==
    IF position = Vendors THEN Finish("raised") /\ UNCHANGED reported
    ELSE reported' = Append(reported, position) /\ Becomes("hook")

(* A vendor failed for good.  To a caller who aborted nothing is raised.   *)
GiveUp(e) ==
    IF aborted THEN Finish("returned") /\ UNCHANGED reported
    ELSE IF FailsOver(e) THEN Route
    ELSE Finish("raised") /\ UNCHANGED reported

(* An attempt failed before its first chunk.                               *)
Fails(e) ==
    /\ failures' = Append(failures, [of |-> Current, error |-> e])
    /\ IF e.retryable /\ AttemptsLeft THEN Becomes("backoff") /\ UNCHANGED reported ELSE GiveUp(e)

(* A vendor raises: a TIMEOUT of a stream's own is taken for the deadline. *)
VendorFails(e) ==
    /\ at = "first" /\ ~aborted
    /\ Fails(IF e.code = "TIMEOUT" /\ ~structured THEN TimedOut ELSE e)
    /\ Release
    /\ UNCHANGED <<structured, aborted, position, attempt, sent, received>>

(* firstChunkTimeoutMs: also when the vendor is slow to heed an abort.     *)
FirstChunkTimeout ==
    /\ at = "first" /\ ~structured
    /\ Fails(TimedOut)
    /\ Release
    /\ UNCHANGED <<structured, aborted, position, attempt, sent, received>>

(* The delay is not cut short by an abort.                                 *)
BackoffEnds ==
    /\ at = "backoff"
    /\ Begin(position, attempt + 1)
    /\ UNCHANGED <<structured, aborted, received, failures, reported>>

(* onFailover returns or throws.                                           *)
HookSettles ==
    /\ at = "hook"
    /\ Ask(position + 1)
    /\ UNCHANGED <<structured, aborted, received, failures, reported>>

-----------------------------------------------------------------------------
(* A structured answer.                                                    *)
Answers ==
    /\ structured /\ at = "first"
    /\ Finish("returned")
    /\ UNCHANGED <<structured, aborted, position, attempt, live, sent, received, failures, reported>>

(* A chunk is yielded, through both tiers.                                 *)
Chunk ==
    /\ ~structured /\ at \in {"first", "streaming"}
    /\ ~aborted /\ Len(received) < MaxChunks
    /\ Becomes("reading")
    /\ received' = Append(received, Current)
    /\ UNCHANGED <<structured, aborted, position, attempt, live, sent, failures, reported>>

(* The caller asks for what follows, or stops reading.                     *)
Read ==
    /\ at = "reading"
    /\ Becomes("streaming")
    /\ UNCHANGED <<structured, aborted, position, attempt, live, sent, received, failures, reported>>

StopsReading ==
    /\ at = "reading"
    /\ Finish("returned") /\ Release
    /\ UNCHANGED <<structured, aborted, position, attempt, sent, received, failures, reported>>

(* The stream ends, by itself or because its signal is aborted.            *)
StreamEnds ==
    /\ ~structured /\ at \in {"first", "streaming"}
    /\ Finish("returned") /\ Release
    /\ UNCHANGED <<structured, aborted, position, attempt, sent, received, failures, reported>>

(* Slip: a retryable failure is retried though chunks were given.          *)
StreamFailsRetried(e) ==
    /\ at = "streaming" /\ ~aborted
    /\ Fails(e)
    /\ Release
    /\ UNCHANGED <<structured, aborted, position, attempt, sent, received>>

(* Once a chunk was given a failure is the caller's.                       *)
StreamFails(e) ==
    /\ at = "streaming" /\ ~aborted
    /\ Finish("raised") /\ Release
    /\ UNCHANGED <<structured, aborted, position, attempt, sent, received, failures, reported>>

(* Slip: the timer between chunks is not set again.                        *)
IdleTimeoutOnce ==
    /\ at = "streaming" /\ Len(received) = 1
    /\ Finish("raised") /\ Release
    /\ UNCHANGED <<structured, aborted, position, attempt, sent, received, failures, reported>>

(* idleChunkTimeoutMs.                                                     *)
IdleTimeout ==
    /\ at = "streaming"
    /\ Finish("raised") /\ Release
    /\ UNCHANGED <<structured, aborted, position, attempt, sent, received, failures, reported>>

Abort ==
    /\ ~structured /\ ~aborted /\ at # "over"
    /\ aborted' = TRUE
    /\ UNCHANGED <<structured, at, position, attempt, live, outcome, sent, received, failures, reported>>

Proceed == Start \/ FirstChunkTimeout \/ BackoffEnds \/ HookSettles \/ Read \/ IdleTimeout

Next ==
    \/ Proceed \/ Answers \/ Chunk \/ StopsReading \/ StreamEnds \/ Abort
    \/ \E e \in Errors : VendorFails(e) \/ StreamFails(e)

(* Timers fire, the host's hook settles and the caller reads on or stops:  *)
(* nothing is assumed of a vendor.                                         *)
Spec == Init /\ [][Next]_vars /\ WF_vars(Proceed)

-----------------------------------------------------------------------------
(* What the caller is given comes of one attempt of one vendor, the last   *)
(* that was made: an answer is never begun again by another                *)
(* (withFallback.ts:62; specs/hal-engine-architecture/spec.md:544,562).    *)
OneVoice == \A i \in DOMAIN received : received[i] = Last(sent)

(* An attempt is released before the next one starts, before the host is   *)
(* told of a failover, and before the call is over, however it ended       *)
(* (withRetry.ts:65; specs/hal-engine-architecture/spec.md:540,546).       *)
Released ==
    live = IF at \in {"first", "reading", "streaming"} /\ ~structured THEN {Current} ELSE {}

FailuresOf(v) == {i \in DOMAIN failures : failures[i].of[1] = v}

(* What ended vendor v: its last failure, with no retry left for it.       *)
SpentOnOutage(v) ==
    \E last \in FailuresOf(v) :
        LET error == failures[last].error IN
        /\ \A i \in FailuresOf(v) : i <= last
        /\ error.code \notin {"none", "FAULT"}
        /\ error.code = "OTHER" => error.retryable
        /\ error.retryable => Cardinality(FailuresOf(v)) = MaxAttempts

(* Nobody is sent the conversation unless the vendors before failed for    *)
(* good: on an outage, after all its attempts if that was retryable, and   *)
(* not on a fault or a defect, which a second vendor would only repeat     *)
(* (withFallback.ts:30,93; specs/hal-engine-architecture/spec.md:563-565). *)
SentOnOutageOnly ==
    \A v \in 2..Vendors : <<v, 1>> \in Range(sent) => SpentOnOutage(v - 1)

(* Once the caller aborts, no vendor is moved on to, none is sent anything *)
(* more, nothing more is given to the caller, and unless its answer had    *)
(* begun nothing is raised to it (withFallback.ts:47;                      *)
(* specs/hal-engine-architecture/spec.md:569).                             *)
AbortIsQuiet ==
    [][aborted => /\ <<position', sent', received'>> = <<position, sent, received>>
                  /\ outcome' = "raised" => received # <<>>]_vars

(* A streamed call ends, however its vendors hang                          *)
(* (specs/hal-engine-architecture/spec.md:546-547).                        *)
StreamedCallEnds == ~structured ~> at = "over"
=============================================================================
