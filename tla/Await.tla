-------------------------------- MODULE Await --------------------------------
(***************************************************************************)
(* awaitAsyncProcessing (client.go): the poll loop every asynchronous      *)
(* write of the client waits in.                                           *)
(*                                                                         *)
(* A caller first probes without waiting.  If the probe does not report    *)
(* "settled" it starts a deadline timer and a ticker and selects over      *)
(* three channels: the context's Done, the deadline and the ticker.  Every *)
(* tick probes again.  The loop has three ways out: a settled probe        *)
(* (nil), an expired deadline (also nil: the write was acknowledged), and  *)
(* a finished context (ctx.Err()).                                         *)
(*                                                                         *)
(* What a probe does is left open here: ReadBack and AsyncDelete conjoin   *)
(* their own probes with the actions of this module.                       *)
(***************************************************************************)
EXTENDS Naturals

CONSTANTS
    Callers,      \* the goroutines that wait
    PollTimeout   \* asyncPollTimeout, counted in intervals of asyncPollInterval

ASSUME PollTimeoutAssumption == PollTimeout \in Nat \ {0}

VARIABLES
    loop,     \* where each caller is in the loop, or how it left it
    waited,   \* intervals elapsed since the timers were started; saturates
    tick,     \* the ticker's channel (capacity 1) holds a tick
    done      \* the caller's context is done

awaitVars == <<loop, waited, tick, done>>

\* "first" is the probe before the timers exist, "probe" any later one.
Polling  == {"first", "select", "probe"}
Returned == {"settled", "expired", "cancelled"}

AwaitTypeOK ==
    /\ loop \in [Callers -> {"idle"} \union Polling \union Returned]
    /\ waited \in [Callers -> 0..PollTimeout]
    /\ tick \in [Callers -> BOOLEAN]
    /\ done \in [Callers -> BOOLEAN]

AwaitInit ==
    /\ loop = [c \in Callers |-> "idle"]
    /\ waited = [c \in Callers |-> 0]
    /\ tick = [c \in Callers |-> FALSE]
    /\ done = [c \in Callers |-> FALSE]

Goto(c, from, to) ==
    /\ loop[c] \in from
    /\ loop' = [loop EXCEPT ![c] = to]

(***************************************************************************)
(* The steps of one caller.                                                *)
(***************************************************************************)
Enter(c) ==
    /\ Goto(c, {"idle"}, "first")
    /\ UNCHANGED <<waited, tick, done>>

\* settled(ctx) reported true.
ProbeSettles(c) ==
    /\ Goto(c, {"first", "probe"}, "settled")
    /\ UNCHANGED <<waited, tick, done>>

\* settled(ctx) reported false: start the timers, or go round the loop.
ProbeAgain(c) ==
    /\ Goto(c, {"first", "probe"}, "select")
    /\ UNCHANGED <<waited, tick, done>>

\* Mutation: time.After inside the loop, a new deadline for every round.
SelectTickRestartsDeadline(c) ==
    /\ tick[c]
    /\ Goto(c, {"select"}, "probe")
    /\ tick' = [tick EXCEPT ![c] = FALSE]
    /\ waited' = [waited EXCEPT ![c] = 0]
    /\ UNCHANGED done

\* The three cases of the select.  When several are ready Go picks one of
\* them at random, so none has priority over another.
SelectTick(c) ==
    /\ tick[c]
    /\ Goto(c, {"select"}, "probe")
    /\ tick' = [tick EXCEPT ![c] = FALSE]
    /\ UNCHANGED <<waited, done>>

\* Mutation: the deadline is one interval short.
SelectDeadlineEarly(c) ==
    /\ waited[c] >= PollTimeout - 1
    /\ Goto(c, {"select"}, "expired")
    /\ UNCHANGED <<waited, tick, done>>

\* Mutation: a break in the deadline's case leaves the select, not the loop.
SelectDeadlineBreaks(c) ==
    /\ waited[c] = PollTimeout
    /\ Goto(c, {"select"}, "probe")
    /\ UNCHANGED <<waited, tick, done>>

SelectDeadline(c) ==
    /\ waited[c] = PollTimeout
    /\ Goto(c, {"select"}, "expired")
    /\ UNCHANGED <<waited, tick, done>>

SelectDone(c) ==
    /\ done[c]
    /\ Goto(c, {"select"}, "cancelled")
    /\ UNCHANGED <<waited, tick, done>>

(***************************************************************************)
(* The steps of the runtime and of the caller's context.                   *)
(***************************************************************************)
\* One interval passes, in the select or while a probe's request is under
\* way.  A tick nobody has taken yet is not doubled.
Elapse(c) ==
    /\ loop[c] \in {"select", "probe"}
    /\ waited' = [waited EXCEPT ![c] = IF @ < PollTimeout THEN @ + 1 ELSE @]
    /\ tick' = [tick EXCEPT ![c] = TRUE]
    /\ UNCHANGED <<loop, done>>

Cancel(c) ==
    /\ ~done[c]
    /\ loop[c] \notin Returned
    /\ done' = [done EXCEPT ![c] = TRUE]
    /\ UNCHANGED <<loop, waited, tick>>

Select(c) == SelectTick(c) \/ SelectDeadline(c) \/ SelectDone(c)
Probe(c)  == ProbeSettles(c) \/ ProbeAgain(c)

AwaitNext ==
    \E c \in Callers :
        Enter(c) \/ Probe(c) \/ Select(c) \/ Elapse(c) \/ Cancel(c)

(***************************************************************************)
(* A probe is one HTTP request, bounded by the HTTP client's timeout, so   *)
(* it returns; time passes; the select takes a ready case, and a case that *)
(* is ready again and again is picked in the end (the choice is random).   *)
(***************************************************************************)
AwaitFairness ==
    \A c \in Callers :
        /\ WF_awaitVars(Probe(c))
        /\ WF_awaitVars(Elapse(c))
        /\ WF_awaitVars(Select(c))
        /\ SF_awaitVars(SelectDeadline(c))
        /\ SF_awaitVars(SelectDone(c))

AwaitSafetySpec == AwaitInit /\ [][AwaitNext]_awaitVars
AwaitSpec == AwaitSafetySpec /\ AwaitFairness

(***************************************************************************)
(* Properties.                                                             *)
(***************************************************************************)

\* The way a poll ends tells the truth about why: giving up means the whole
\* budget was waited out, a context error means the context was done, and
\* no timer has run for a caller that has not probed yet
\* (awaitAsyncProcessing, client.go).
ExitIsJustified ==
    \A c \in Callers :
        /\ loop[c] = "expired"   => waited[c] = PollTimeout
        /\ loop[c] = "cancelled" => done[c]
        /\ loop[c] \in {"idle", "first"} => waited[c] = 0
        /\ tick[c] => waited[c] > 0

\* A deadline is started once per poll: the budget is only ever spent, never
\* given back, however often the probe is repeated, and no timer of a poll
\* that has returned is still running.
BudgetOnlyShrinks ==
    [][\A c \in Callers :
          /\ waited'[c] >= waited[c]
          /\ loop[c] \in Returned => waited'[c] = waited[c]]_awaitVars
=============================================================================
