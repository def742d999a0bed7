------------------------------ MODULE ToolCall ------------------------------
(***************************************************************************)
(* One tool of the registry (harness/tools.py) and the calls made of it at *)
(* the same time: permits, attempts and back-off, the time limit, the      *)
(* cancellation of a run and that of the caller's own task, the result     *)
(* cache.  The handler is any coroutine: it ends when it likes, also some  *)
(* time after it was cancelled, and its effect comes before its end.       *)
(*                                                                         *)
(* Permissions, guardrails and schemas decide before the first await       *)
(* whether there is a call at all, and tools run by the sandbox have no    *)
(* handler here: both are left out.                                        *)
(***************************************************************************)
EXTENDS Naturals, FiniteSets

CONSTANTS
    ToolCalls,
    MaxConcurrency,     \* permits of the tool's semaphore
    MaxRetries,         \* attempts after the first
    Idempotent,         \* a failed attempt may be repeated
    Cacheable           \* idempotent, without side effects, with a time to live

ASSUME ToolAssumption ==
    /\ MaxConcurrency \in Nat \ {0} /\ MaxRetries \in Nat
    /\ Idempotent \in BOOLEAN /\ Cacheable \in BOOLEAN

VARIABLES
    calls,      \* what each call is doing, its attempt, its handler's task and its outcome
    cancelSet,  \* the calls whose run's cancel event is set
    cached      \* the cache holds an answer that has not expired

toolVars == <<calls, cancelSet, cached>>

Outcomes == {"none", "ok", "from_cache", "failed", "timeout", "cancelled", "abandoned"}
CallRecords ==
    [at : {"called", "waiting", "attempt", "running", "stopping", "sleeping", "ended"},
     attempt : 0..MaxRetries, handler : {"none", "running", "returned", "raised"},
     why : Outcomes, outcome : Outcomes]

ToolInit ==
    /\ calls = [c \in ToolCalls |-> [at |-> "called", attempt |-> 0, handler |-> "none",
                                     why |-> "none", outcome |-> "none"]]
    /\ cancelSet = {}
    /\ cached = FALSE

CallGoes(c, rec) == calls' = [calls EXCEPT ![c] = rec]
Ended(c, outcome) == [calls[c] EXCEPT !.at = "ended", !.outcome = outcome, !.why = "none"]

\* The semaphore is held from the first attempt to the end, back-off included.
Holds(c) == calls[c].at \in {"attempt", "running", "stopping", "sleeping"}
Permits == MaxConcurrency - Cardinality({c \in ToolCalls : Holds(c)})

\* invoke_with_meta: an answer of the cache, or a wait for a permit.
Invoke(c) ==
    /\ calls[c].at = "called"
    /\ CallGoes(c, IF Cacheable /\ cached THEN Ended(c, "from_cache") ELSE [calls[c] EXCEPT !.at = "waiting"])
    /\ UNCHANGED <<cancelSet, cached>>

\* Whoever waits for a permit does not listen to its cancel event.
Acquire(c) ==
    /\ calls[c].at = "waiting"
    /\ Permits > 0
    /\ CallGoes(c, [calls[c] EXCEPT !.at = "attempt"])
    /\ UNCHANGED <<cancelSet, cached>>

StartAttempt(c) ==
    /\ calls[c].at = "attempt"
    /\ CallGoes(c, IF c \in cancelSet THEN Ended(c, "cancelled")
                   ELSE [calls[c] EXCEPT !.at = "running", !.handler = "running"])
    /\ UNCHANGED <<cancelSet, cached>>

\* The handler's task, cancelled or not, comes to its end.
HandlerEnds(c) ==
    /\ calls[c].handler = "running"
    /\ \E end \in {"returned", "raised"} : CallGoes(c, [calls[c] EXCEPT !.handler = end])
    /\ UNCHANGED <<cancelSet, cached>>

\* After a failed attempt: back off and try again, or give up.
Retried(c, outcome) ==
    IF calls[c].attempt < MaxRetries /\ (outcome = "timeout" \/ Idempotent)
    THEN [calls[c] EXCEPT !.at = "sleeping", !.handler = "none", !.why = outcome]
    ELSE Ended(c, outcome)

\* Mutant: the task of a call that ran into its time limit is cancelled, and left alone.
Detach(c, why) ==
    /\ calls[c].at = "running"
    /\ CallGoes(c, Ended(c, why))

\* The task is cancelled, and its end awaited.
Stop(c, why) ==
    /\ calls[c].at = "running"
    /\ CallGoes(c, [calls[c] EXCEPT !.at = "stopping", !.why = why])

\* asyncio.wait has seen the cancel event, be the handler finished as well or not.
SeeCancel(c) == c \in cancelSet /\ Stop(c, "cancelled") /\ UNCHANGED <<cancelSet, cached>>

\* It has seen neither within the time limit.
TimeOut(c) ==
    /\ calls[c].handler = "running"
    /\ Stop(c, "timeout")
    /\ UNCHANGED <<cancelSet, cached>>

\* The task that makes the call is cancelled itself.  While it awaits the end of a handler it has
\* stopped before, that passes unnoticed.
Abandon(c) ==
    /\ \/ Stop(c, "abandoned")
       \/ calls[c].at \in {"waiting", "sleeping"} /\ CallGoes(c, Ended(c, "abandoned"))
    /\ UNCHANGED <<cancelSet, cached>>

\* It has seen the handler's end alone: an answer that is accepted goes to the cache; an error may be
\* retried, which a TimeoutError of the handler's own always is, and a tool_cancelled of it never.
SeeEnd(c) ==
    /\ calls[c].at = "running"
    /\ \/ /\ calls[c].handler = "returned"
          /\ \/ CallGoes(c, Ended(c, "ok")) /\ cached' = (cached \/ Cacheable)
             \/ CallGoes(c, Ended(c, "failed")) /\ UNCHANGED cached
       \/ /\ calls[c].handler = "raised"
          /\ \/ \E outcome \in {"failed", "timeout"} : CallGoes(c, Retried(c, outcome))
             \/ CallGoes(c, Ended(c, "cancelled"))
          /\ UNCHANGED cached
    /\ UNCHANGED cancelSet

Stopped(c) ==
    /\ calls[c].at = "stopping"
    /\ calls[c].handler # "running"
    /\ CallGoes(c, IF calls[c].why = "timeout" THEN Retried(c, "timeout") ELSE Ended(c, calls[c].why))
    /\ UNCHANGED <<cancelSet, cached>>

\* The back-off is over.
WakeUp(c) ==
    /\ calls[c].at = "sleeping"
    /\ CallGoes(c, IF c \in cancelSet THEN Ended(c, "cancelled")
                   ELSE [calls[c] EXCEPT !.at = "attempt", !.attempt = @ + 1, !.why = "none"])
    /\ UNCHANGED <<cancelSet, cached>>

CancelRun(c) ==
    /\ c \notin cancelSet
    /\ cancelSet' = cancelSet \cup {c}
    /\ UNCHANGED <<calls, cached>>

CacheExpires ==
    /\ cached
    /\ cached' = FALSE
    /\ UNCHANGED <<calls, cancelSet>>

ToolNext ==
    \/ \E c \in ToolCalls :
           \/ Invoke(c) \/ Acquire(c) \/ StartAttempt(c) \/ HandlerEnds(c)
           \/ SeeCancel(c) \/ TimeOut(c) \/ Abandon(c) \/ SeeEnd(c) \/ Stopped(c) \/ WakeUp(c)
           \/ CancelRun(c)
    \/ CacheExpires

ToolSpec == ToolInit /\ [][ToolNext]_toolVars

(***************************** Properties *********************************)

ToolTypeOK ==
    /\ calls \in [ToolCalls -> CallRecords]
    /\ cancelSet \subseteq ToolCalls
    /\ cached \in BOOLEAN

\* However a call ends, by its time limit, its run's cancellation or its own, no handler of it goes
\* on, and never do more handlers of the tool run than it has permits.
HandlersAreContained ==
    /\ \A c \in ToolCalls : calls[c].handler = "running" => calls[c].at \in {"running", "stopping"}
    /\ Cardinality({c \in ToolCalls : calls[c].handler = "running"}) <= MaxConcurrency
=============================================================================
