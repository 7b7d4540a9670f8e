------------------------------ MODULE AwaitProofs ------------------------------
(***************************************************************************)
(* Theorems about the poll loop and about the calls that wait in it, for   *)
(* any set of callers and any poll budget: the asynchronous Update methods *)
(* of any of the ten endpoints implement Await and AckedWrite, and hide no *)
(* failed read; the deletes implement Await, and report what is so.        *)
(***************************************************************************)
EXTENDS ReadBack, AsyncDelete, TLAPS

(***************************************************************************)
(* The poll loop, for any set of callers and any budget.  The invariant is *)
(* what the exits and the timers say of each other, which is inductive     *)
(* once the variables are known to have their types.                       *)
(***************************************************************************)
AwaitInv == AwaitTypeOK /\ ExitIsJustified

LEMMA AwaitInitInv == AwaitInit => AwaitInv
  BY PollTimeoutAssumption
     DEF AwaitInit, AwaitInv, AwaitTypeOK, ExitIsJustified, Polling, Returned

\* The types alone are kept too.
LEMMA AwaitStepTypeOK ==
  ASSUME AwaitTypeOK, [AwaitNext]_awaitVars
  PROVE  AwaitTypeOK'
<1> USE PollTimeoutAssumption DEF AwaitTypeOK, Goto, Polling, Returned
<1>1. ASSUME NEW c \in Callers, Enter(c) \/ Probe(c) \/ Select(c)
      PROVE  AwaitTypeOK'
  BY <1>1 DEF Enter, Probe, ProbeSettles, ProbeAgain, Select, SelectTick,
              SelectDeadline, SelectDone
<1>2. ASSUME NEW c \in Callers, Elapse(c)
      PROVE  AwaitTypeOK'
  <2>1. waited' \in [Callers -> 0..PollTimeout]
    BY <1>2 DEF Elapse
  <2>2. UNCHANGED <<loop, done>> /\ tick' \in [Callers -> BOOLEAN]
    BY <1>2 DEF Elapse
  <2> QED
    BY <2>1, <2>2
<1>3. ASSUME NEW c \in Callers, Cancel(c)
      PROVE  AwaitTypeOK'
  BY <1>3 DEF Cancel
<1>4. CASE UNCHANGED awaitVars
  BY <1>4 DEF awaitVars
<1> QED
  BY <1>1, <1>2, <1>3, <1>4 DEF AwaitNext

\* One step of one caller, or a stutter, keeps the invariant.
LEMMA AwaitStepInv ==
  ASSUME AwaitInv, [AwaitNext]_awaitVars
  PROVE  AwaitInv'
<1> USE PollTimeoutAssumption DEF AwaitInv, AwaitTypeOK, ExitIsJustified, Goto, Polling, Returned
<1>1. ASSUME NEW c \in Callers, Enter(c)
      PROVE  AwaitInv'
  BY <1>1 DEF Enter
<1>2. ASSUME NEW c \in Callers, Probe(c)
      PROVE  AwaitInv'
  BY <1>2 DEF Probe, ProbeSettles, ProbeAgain
<1>3. ASSUME NEW c \in Callers, SelectTick(c)
      PROVE  AwaitInv'
  BY <1>3 DEF SelectTick
<1>4. ASSUME NEW c \in Callers, SelectDeadline(c)
      PROVE  AwaitInv'
  BY <1>4 DEF SelectDeadline
<1>5. ASSUME NEW c \in Callers, SelectDone(c)
      PROVE  AwaitInv'
  BY <1>5 DEF SelectDone
<1>6. ASSUME NEW c \in Callers, Elapse(c)
      PROVE  AwaitInv'
  <2>1. AwaitTypeOK'
    BY <1>6, AwaitStepTypeOK DEF AwaitNext
  <2>2. ExitIsJustified'
    BY <1>6 DEF Elapse
  <2> QED
    BY <2>1, <2>2
<1>7. ASSUME NEW c \in Callers, Cancel(c)
      PROVE  AwaitInv'
  BY <1>7 DEF Cancel
<1>8. CASE UNCHANGED awaitVars
  BY <1>8 DEF awaitVars
<1> QED
  BY <1>1, <1>2, <1>3, <1>4, <1>5, <1>6, <1>7, <1>8 DEF AwaitNext, Select

\* The variables keep their types: no caller is in two places of the loop,
\* and no poll counts past its budget (awaitAsyncProcessing, client.go).
THEOREM AwaitTypeCorrect == AwaitSafetySpec => []AwaitTypeOK
<1>1. AwaitInv => AwaitTypeOK
  BY DEF AwaitInv
<1> QED
  BY AwaitInitInv, AwaitStepInv, <1>1, PTL DEF AwaitSafetySpec

\* A poll gives up only when its whole budget has been waited out, and
\* reports a context error only when the context was done.
THEOREM AwaitExitsJustified == AwaitSafetySpec => []ExitIsJustified
<1>1. AwaitInv => ExitIsJustified
  BY DEF AwaitInv
<1> QED
  BY AwaitInitInv, AwaitStepInv, <1>1, PTL DEF AwaitSafetySpec

\* The budget is only spent and never given back, whatever the probes do.
THEOREM AwaitBudgetShrinks == AwaitSafetySpec => BudgetOnlyShrinks
<1>1. ASSUME AwaitInv, [AwaitNext]_awaitVars
      PROVE  [\A c \in Callers :
                 /\ waited'[c] >= waited[c]
                 /\ loop[c] \in Returned => waited'[c] = waited[c]]_awaitVars
  <2> USE PollTimeoutAssumption DEF AwaitInv, AwaitTypeOK
  <2>1. CASE UNCHANGED awaitVars
    BY <2>1 DEF awaitVars
  <2>2. ASSUME NEW c \in Callers, Elapse(c)
        PROVE  \A d \in Callers :
                  /\ waited'[d] >= waited[d]
                  /\ loop[d] \in Returned => waited'[d] = waited[d]
    BY <1>1, <2>2 DEF Elapse, Returned
  <2>3. ASSUME NEW c \in Callers, Enter(c) \/ Probe(c) \/ Select(c) \/ Cancel(c)
        PROVE  waited' = waited
    BY <2>3 DEF Enter, Probe, ProbeSettles, ProbeAgain, Select, SelectTick,
                SelectDeadline, SelectDone, Cancel
  <2>4. \A d \in Callers : waited[d] >= waited[d]
    BY <1>1
  <2> QED
    BY <1>1, <2>1, <2>2, <2>3, <2>4 DEF AwaitNext
<1> QED
  BY AwaitInitInv, AwaitStepInv, <1>1, PTL DEF AwaitSafetySpec, BudgetOnlyShrinks

(***************************************************************************)
(* Every step of an Update is a step of the poll loop, or leaves the loop  *)
(* alone, so what has been shown of the loop holds here.                   *)
(***************************************************************************)
LEMMA StepIsAwaitStep == [Next]_vars => [AwaitNext]_awaitVars
<1> SUFFICES ASSUME [Next]_vars
             PROVE  [AwaitNext]_awaitVars
  OBVIOUS
<1>1. ASSUME NEW c \in Callers, PostAcked(c) \/ Read(c) \/ LeaveSelect(c) \/ Passing(c)
      PROVE  AwaitNext
  BY <1>1 DEF PostAcked, Read, ReadFails, ReadReflectsWrite, ReadIsStale,
              LeaveSelect, Passing, AwaitNext, Probe, Select
<1>2. ASSUME NEW c \in Callers, PostFails(c) \/ Apply(c)
      PROVE  UNCHANGED awaitVars
  BY <1>2 DEF PostFails, Apply, awaitVars
<1>3. CASE UNCHANGED vars
  BY <1>3 DEF vars, awaitVars
<1> QED
  BY <1>1, <1>2, <1>3 DEF Next

\* ReadBack implements the poll loop of Await (safety).
THEOREM ImplementsAwait == SafetySpec => AwaitSafetySpec
<1>1. Init => AwaitInit
  BY DEF Init
<1> QED
  BY <1>1, StepIsAwaitStep, PTL DEF SafetySpec, AwaitSafetySpec

(***************************************************************************)
(* The invariant.  Beside the types it says, for every place of the loop,  *)
(* what readBackAfterWrite's last and lastErr hold there: that is what     *)
(* makes the value of an expired poll, which is returned unchecked, one    *)
(* that was read.                                                          *)
(***************************************************************************)
ResultsFit ==
    \A c \in Callers :
        /\ loop[c] = "idle" <=> post[c] # "acked"
        /\ loop[c] \in {"idle", "first", "cancelled"} => last[c] = NoValue /\ ~readErr[c]
        /\ loop[c] \in {"select", "probe", "expired"} => last[c] # NoValue /\ ~readErr[c]
        /\ loop[c] = "settled" => (readErr[c] <=> last[c] = NoValue)

IInv == ReadBackTypeOK /\ ResultsFit

LEMMA EntitiesExcludeNoValue == ReadBackTypeOK => NoValue \notin Entities
  BY NoValueAssumption DEF ReadBackTypeOK, Entities

LEMMA StoredIsValue ==
  ASSUME NEW e, NEW f, NEW v \in Values \union {EmptyList}
  PROVE  Stored(e, f, v) \in Values \union {EmptyList}
  BY DEF Stored

LEMMA AppliedIsEntity ==
  ASSUME NEW e,
         NEW s \in [DOMAIN e -> Values \union {EmptyList}],
         NEW w \in Requests(e)
  PROVE  Applied(e, s, w) \in [DOMAIN e -> Values \union {EmptyList}]
<1>1. w \in [DOMAIN e -> Values \union {EmptyList}]
  BY DEF Requests
<1>2. \A f \in DOMAIN e : Stored(e, f, w[f]) \in Values \union {EmptyList}
  BY <1>1, StoredIsValue
<1> QED
  BY <1>1, <1>2 DEF Applied

LEMMA ReportedIsEntity ==
  ASSUME NEW e, NEW s \in [DOMAIN e -> Values \union {EmptyList}]
  PROVE  Reported(e, s) \in [DOMAIN e -> Values \union {EmptyList}]
  BY DEF Reported, Values

LEMMA InitInv == Init => IInv
<1> SUFFICES ASSUME Init
             PROVE  IInv
  OBVIOUS
<1>1. AwaitTypeOK
  BY AwaitInitInv DEF Init, AwaitInv
<1>2. server \in Entities
  BY StoredIsValue DEF Init, StoredEntities, Entities, Values
<1> QED
  BY <1>1, <1>2 DEF Init, AwaitInit, IInv, ReadBackTypeOK, ResultsFit

LEMMA StepInv ==
  ASSUME IInv, [Next]_vars
  PROVE  IInv'
<1>1. AwaitTypeOK'
  BY StepIsAwaitStep, AwaitStepTypeOK DEF IInv, ReadBackTypeOK
<1>2. Reported(ep, server) \in Entities /\ Reported(ep, server) # NoValue
  BY ReportedIsEntity, EntitiesExcludeNoValue DEF IInv, ReadBackTypeOK, Entities
<1> USE DEF IInv, ReadBackTypeOK, ResultsFit, AwaitTypeOK, Goto, Polling, Returned, Entities
<1>3. ASSUME NEW c \in Callers, PostAcked(c)
      PROVE  IInv'
  BY <1>1, <1>3 DEF PostAcked, Enter
<1>4. ASSUME NEW c \in Callers, PostFails(c)
      PROVE  IInv'
  BY <1>1, <1>4 DEF PostFails
<1>5. ASSUME NEW c \in Callers, Apply(c)
      PROVE  IInv'
  <2>1. Applied(ep, server, want[c]) \in Entities
    BY AppliedIsEntity
  <2> QED
    BY <1>1, <1>5, <2>1 DEF Apply
<1>6. ASSUME NEW c \in Callers, ReadFails(c)
      PROVE  IInv'
  BY <1>1, <1>6 DEF ReadFails, ProbeSettles
<1>7. ASSUME NEW c \in Callers, ReadReflectsWrite(c)
      PROVE  IInv'
  BY <1>1, <1>2, <1>7 DEF ReadReflectsWrite, ProbeSettles
<1>8. ASSUME NEW c \in Callers, ReadIsStale(c)
      PROVE  IInv'
  BY <1>1, <1>2, <1>8 DEF ReadIsStale, ProbeAgain
<1>9. ASSUME NEW c \in Callers, LeaveSelect(c)
      PROVE  IInv'
  BY <1>1, <1>9 DEF LeaveSelect, SelectTick, SelectDeadline, SelectDone
<1>10. ASSUME NEW c \in Callers, Passing(c)
       PROVE  IInv'
  BY <1>1, <1>10 DEF Passing, Elapse, Cancel
<1>11. CASE UNCHANGED vars
  BY <1>1, <1>11 DEF vars
<1> QED
  BY <1>3, <1>4, <1>5, <1>6, <1>7, <1>8, <1>9, <1>10, <1>11 DEF Next, Read

LEMMA Invariance == SafetySpec => []IInv
  BY InitInv, StepInv, PTL DEF SafetySpec

\* The variables keep their types: what is returned is an entity of the
\* endpoint, or the zero value.
THEOREM ReadBackTypeCorrect == SafetySpec => []ReadBackTypeOK
<1>1. IInv => ReadBackTypeOK
  BY DEF IInv
<1> QED
  BY Invariance, <1>1, PTL

\* No failed read is hidden: readBackAfterWrite returns its error, at once
\* and without a value.
THEOREM FailedReadAlwaysSurfaces == SafetySpec => []FailedReadSurfaces
<1>1. IInv => FailedReadSurfaces
  BY DEF IInv, ResultsFit, ReadBackTypeOK, AwaitTypeOK, FailedReadSurfaces,
         ReturnsError, Polling, Returned
<1> QED
  BY Invariance, <1>1, PTL

\* What awaitAsyncProcessing guarantees of its exits holds of every Update.
THEOREM UpdateExitsJustified == SafetySpec => []ExitIsJustified
  BY ImplementsAwait, AwaitExitsJustified, PTL

(***************************************************************************)
(* ReadBack implements AckedWrite.                                         *)
(***************************************************************************)
phaseBar == [c \in Callers |-> Phase(c)]

\* A step of one caller that takes its phase from one value to another, and
\* leaves the place in the loop, the POST and the error of the others alone.
OnlyCaller(c) ==
    \A d \in Callers \ {c} :
        loop'[d] = loop[d] /\ post'[d] = post[d] /\ readErr'[d] = readErr[d]

LEMMA PhaseStep ==
  ASSUME NEW c \in Callers, OnlyCaller(c), NEW p, Phase(c)' = p
  PROVE  phaseBar' = [phaseBar EXCEPT ![c] = p]
<1>1. \A d \in Callers \ {c} : Phase(d)' = Phase(d)
  BY DEF OnlyCaller, Phase, ReturnsError, ReturnsValue
<1> QED
  BY <1>1 DEF phaseBar

\* AckedWrite speaks of the same endpoints, requests and entities.
LEMMA SameEntities ==
    \A e, s, w :
        /\ Promise!StoredEntities(e) = StoredEntities(e)
        /\ Promise!Requests(e) = Requests(e)
        /\ Promise!Applied(e, s, w) = Applied(e, s, w)
        /\ Promise!Reported(e, s) = Reported(e, s)
  BY DEF StoredEntities, Requests, Applied, Reported, Stored, Written, IsEmpty,
         Values, Unset, EmptyList,
         Promise!StoredEntities, Promise!Requests, Promise!Applied, Promise!Reported,
         Promise!Stored, Promise!Written, Promise!IsEmpty,
         Promise!Values, Promise!Unset, Promise!EmptyList

LEMMA InitRefines == Init => Promise!AckedInit
<1> SUFFICES ASSUME Init
             PROVE  Promise!AckedInit
  OBVIOUS
<1>1. \A c \in Callers : Phase(c) = "idle"
  BY DEF Init, AwaitInit, Phase, ReturnsError, ReturnsValue
<1> QED
  BY <1>1, SameEntities DEF Init, Promise!AckedInit

LEMMA StepRefines ==
  ASSUME IInv, [Next]_vars
  PROVE  [Promise!AckedNext]_(Promise!absVars)
<1> USE DEF IInv, ReadBackTypeOK, ResultsFit, AwaitTypeOK, Goto, Polling, Returned
<1>1. ASSUME NEW c \in Callers, PostAcked(c)
      PROVE  Promise!Acknowledge(c)
  <2>1. Phase(c) = "idle" /\ Phase(c)' = "acked"
    BY <1>1 DEF PostAcked, Enter, Phase, ReturnsError, ReturnsValue
  <2>2. phaseBar' = [phaseBar EXCEPT ![c] = "acked"]
    BY <1>1, <2>1, PhaseStep DEF OnlyCaller, PostAcked, Enter
  <2> QED
    BY <1>1, <2>1, <2>2 DEF PostAcked, Promise!Acknowledge, phaseBar
<1>2. ASSUME NEW c \in Callers, PostFails(c)
      PROVE  Promise!Acknowledge(c) \/ Promise!Refuse(c)
  <2>1. Phase(c) = "idle" /\ Phase(c)' = "error"
    BY <1>2 DEF PostFails, Phase, ReturnsError, ReturnsValue
  <2>2. phaseBar' = [phaseBar EXCEPT ![c] = "error"]
    BY <1>2, <2>1, PhaseStep DEF OnlyCaller, PostFails
  <2> QED
    BY <1>2, <2>1, <2>2 DEF PostFails, Promise!Acknowledge, Promise!Refuse, phaseBar
<1>3. ASSUME NEW c \in Callers, Apply(c)
      PROVE  Promise!Apply(c)
  <2>1. phaseBar' = phaseBar
    BY <1>3 DEF Apply, phaseBar, Phase, ReturnsError, ReturnsValue
  <2> QED
    BY <1>3, <2>1, SameEntities DEF Apply, Promise!Apply, phaseBar
<1>4. ASSUME NEW c \in Callers, ReadFails(c)
      PROVE  Promise!Fail(c)
  <2>1. Phase(c) = "acked" /\ Phase(c)' = "error"
    BY <1>4 DEF ReadFails, ProbeSettles, Phase, ReturnsError, ReturnsValue
  <2>2. phaseBar' = [phaseBar EXCEPT ![c] = "error"]
    BY <1>4, <2>1, PhaseStep DEF OnlyCaller, ReadFails, ProbeSettles
  <2> QED
    BY <1>4, <2>1, <2>2 DEF ReadFails, Promise!Fail, phaseBar
<1>5. ASSUME NEW c \in Callers, ReadReflectsWrite(c)
      PROVE  Promise!ReturnNow(c)
  <2>1. Phase(c) = "acked" /\ Phase(c)' = "value"
    BY <1>5 DEF ReadReflectsWrite, ProbeSettles, Phase, ReturnsError, ReturnsValue
  <2>2. phaseBar' = [phaseBar EXCEPT ![c] = "value"]
    BY <1>5, <2>1, PhaseStep DEF OnlyCaller, ReadReflectsWrite, ProbeSettles
  <2> QED
    BY <1>5, <2>1, <2>2, SameEntities DEF ReadReflectsWrite, Promise!ReturnNow, phaseBar
<1>6. ASSUME NEW c \in Callers, ReadIsStale(c)
      PROVE  Promise!Observe(c)
  <2>1. Phase(c) = "acked" /\ Phase(c)' = "acked"
    BY <1>6 DEF ReadIsStale, ProbeAgain, Phase, ReturnsError, ReturnsValue
  <2>2. phaseBar' = [phaseBar EXCEPT ![c] = "acked"]
    BY <1>6, <2>1, PhaseStep DEF OnlyCaller, ReadIsStale, ProbeAgain
  <2> QED
    BY <1>6, <2>1, <2>2, SameEntities DEF ReadIsStale, Promise!Observe, phaseBar
<1>7. ASSUME NEW c \in Callers, LeaveSelect(c)
      PROVE  Promise!ReturnLast(c) \/ Promise!Fail(c) \/ UNCHANGED Promise!absVars
  <2>1. CASE SelectTick(c)
    <3>1. phaseBar' = phaseBar
      BY <1>7, <2>1 DEF LeaveSelect, SelectTick, phaseBar, Phase, ReturnsError, ReturnsValue
    <3>2. last' = last
      BY <1>7, <2>1 DEF LeaveSelect, SelectTick, SelectDeadline, SelectDone
    <3> QED
      BY <1>7, <3>1, <3>2 DEF LeaveSelect, Promise!absVars, phaseBar
  <2>2. CASE SelectDeadline(c)
    <3>1. Phase(c) = "acked" /\ Phase(c)' = "value"
      BY <1>7, <2>2 DEF LeaveSelect, SelectDeadline, Phase, ReturnsError, ReturnsValue
    <3>2. phaseBar' = [phaseBar EXCEPT ![c] = "value"]
      BY <1>7, <2>2, <3>1, PhaseStep DEF OnlyCaller, LeaveSelect, SelectDeadline
    <3>3. last' = last
      BY <1>7, <2>2 DEF LeaveSelect, SelectTick, SelectDeadline, SelectDone
    <3> QED
      BY <1>7, <2>2, <3>1, <3>2, <3>3
      DEF LeaveSelect, SelectDeadline, Promise!ReturnLast, phaseBar
  <2>3. CASE SelectDone(c)
    <3>1. Phase(c) = "acked" /\ Phase(c)' = "error"
      BY <1>7, <2>3 DEF LeaveSelect, SelectDone, Phase, ReturnsError, ReturnsValue
    <3>2. phaseBar' = [phaseBar EXCEPT ![c] = "error"]
      BY <1>7, <2>3, <3>1, PhaseStep DEF OnlyCaller, LeaveSelect, SelectDone
    <3>3. last' = [last EXCEPT ![c] = NoValue]
      BY <1>7, <2>3 DEF LeaveSelect, SelectTick, SelectDeadline, SelectDone
    <3> QED
      BY <1>7, <3>1, <3>2, <3>3 DEF LeaveSelect, Promise!Fail, phaseBar
  <2> QED
    BY <1>7, <2>1, <2>2, <2>3 DEF LeaveSelect
<1>8. ASSUME NEW c \in Callers, Passing(c)
      PROVE  UNCHANGED Promise!absVars
  <2>1. phaseBar' = phaseBar
    BY <1>8 DEF Passing, Elapse, Cancel, phaseBar, Phase, ReturnsError, ReturnsValue
  <2> QED
    BY <1>8, <2>1 DEF Passing, Promise!absVars, phaseBar
<1>9. CASE UNCHANGED vars
  BY <1>9 DEF vars, Promise!absVars, Phase, ReturnsError, ReturnsValue
<1> QED
  BY <1>1, <1>2, <1>3, <1>4, <1>5, <1>6, <1>7, <1>8, <1>9
  DEF Next, Read, Promise!AckedNext

\* Every Update keeps the promise of AckedWrite: it answers with an error, or
\* with a value the server served after it acknowledged the write.
THEOREM ImplementsAckedWrite == SafetySpec => KeepsPromise
  BY InitRefines, StepRefines, Invariance, PTL
  DEF SafetySpec, KeepsPromise, Promise!AckedSpec

(***************************************************************************)
(* What the comparison of the read-back is worth: a poll that has settled  *)
(* leaves no drift, and a write that is visible settles it.                *)
(***************************************************************************)
\* The zero value is only skipped where it is not sent (observedOrSkip).
LEMMA SkipIsNotSent ==
  ASSUME NEW e \in AllEndpoints, NEW f \in DOMAIN e, e[f].compared = "skip"
  PROVE  e[f].sent = "nonempty"
<1> USE DEF Field
<1>1. CASE e = GlobalSettings
  BY <1>1 DEF GlobalSettings
<1>2. CASE e = LocaleSettings
  BY <1>2 DEF LocaleSettings
<1>3. CASE e = RestSettings
  BY <1>3 DEF RestSettings
<1>4. CASE e = BackupSettings
  BY <1>4 DEF BackupSettings
<1>5. CASE e = AppearanceSettings
  BY <1>5 DEF AppearanceSettings
<1>6. CASE e = WorkTimeSettings
  BY <1>6 DEF WorkTimeSettings
<1>7. CASE e = Service
  BY <1>7 DEF Service
<1>8. CASE e = Role
  BY <1>8 DEF Role
<1>9. CASE e = OAuth2AuthModule
  BY <1>9 DEF OAuth2AuthModule
<1>10. CASE e = AzureAuthModule
  BY <1>10 DEF AzureAuthModule
<1> QED
  BY <1>1, <1>2, <1>3, <1>4, <1>5, <1>6, <1>7, <1>8, <1>9, <1>10 DEF AllEndpoints

LEMMA AgreesIs ==
  ASSUME NEW e, NEW f, NEW got, NEW w
  PROVE  /\ e[f].compared \in {"equal", "deep"} => (Agrees(e, f, got, w) <=> got[f] = w[f])
         /\ e[f].compared = "skip" => (Agrees(e, f, got, w) <=> w[f] = Unset \/ got[f] = w[f])
         /\ e[f].compared \in {"no", "unreadable"} => Agrees(e, f, got, w)
<1>1. CASE e[f].compared \in {"equal", "deep"}
  BY <1>1 DEF Agrees
<1>2. CASE e[f].compared = "skip"
  BY <1>2 DEF Agrees
<1>3. CASE e[f].compared \in {"no", "unreadable"}
  BY <1>3 DEF Agrees
<1> QED
  BY <1>1, <1>2, <1>3

\* The server holds the fields of s that w writes, as it stores them.
Holds(e, s, w) == \A f \in Written(e, w) : s[f] = Stored(e, f, w[f])

\* It holds at least those that the read-back waits for.
HoldsAwaited(e, s, w) ==
    \A f \in Written(e, w) \cap Awaited(e) : s[f] = Stored(e, f, w[f])

\* No list the server holds is null.
StoresLists(e, s) == \A f \in DOMAIN e : e[f].compared = "deep" => s[f] # Unset

LEMMA AppliedHolds ==
  ASSUME NEW e, NEW s, NEW w
  PROVE  /\ Holds(e, Applied(e, s, w), w)
         /\ StoresLists(e, s) => StoresLists(e, Applied(e, s, w))
  BY DEF Holds, StoresLists, Applied, Written, Stored, Unset, EmptyList

\* A read that reflects the write is one of a server that holds what is
\* waited for ...
LEMMA ReflectingIsHolding ==
  ASSUME NEW e \in AllEndpoints, NEW s, StoresLists(e, s),
         NEW w \in Requests(e), Reflects(e, Reported(e, s), w)
  PROVE  HoldsAwaited(e, s, w)
<1> SUFFICES ASSUME NEW f \in Written(e, w) \cap Awaited(e)
             PROVE  s[f] = Stored(e, f, w[f])
  BY DEF HoldsAwaited
<1>1. f \in DOMAIN e /\ e[f].compared \in {"equal", "deep", "skip"}
  BY DEF Awaited
<1>2. Agrees(e, f, Reported(e, s), w) /\ Reported(e, s)[f] = s[f]
  BY <1>1 DEF Reflects, Reported
<1>3. CASE e[f].compared \in {"equal", "deep"}
  BY <1>1, <1>2, <1>3, AgreesIs DEF Stored, StoresLists
<1>4. CASE e[f].compared = "skip"
  <2>1. e[f].sent = "nonempty"
    BY <1>1, <1>4, SkipIsNotSent
  <2>2. w[f] # Unset
    BY <2>1 DEF Written, IsEmpty
  <2> QED
    BY <1>2, <1>4, <2>2, AgreesIs DEF Stored
<1> QED
  BY <1>1, <1>3, <1>4

\* ... and a read of a server that holds the write reflects it.
LEMMA HoldingIsReflecting ==
  ASSUME NEW e \in AllEndpoints, ComparesOnlyWhatItSends(e), NEW s,
         NEW w \in Requests(e), Holds(e, s, w)
  PROVE  Reflects(e, Reported(e, s), w)
<1> SUFFICES ASSUME NEW f \in DOMAIN e
             PROVE  Agrees(e, f, Reported(e, s), w)
  BY DEF Reflects
<1>1. w[f] \in Values \union {EmptyList} /\ (w[f] = EmptyList => e[f].compared = "deep")
  BY DEF Requests
<1>2. CASE e[f] = Field("always", "equal")
  <2>1. e[f].sent = "always" /\ e[f].compared = "equal"
    BY <1>2 DEF Field
  <2>2. s[f] = w[f]
    BY <2>1 DEF Holds, Written, Stored
  <2>3. Reported(e, s)[f] = w[f]
    BY <2>1, <2>2 DEF Reported
  <2> QED
    BY <2>1, <2>3, AgreesIs
<1>3. CASE e[f].compared = "skip"
  <2>1. CASE w[f] = Unset
    BY <1>3, <2>1, AgreesIs
  <2>2. CASE w[f] # Unset
    <3>1. f \in Written(e, w)
      BY <1>1, <1>3, <2>2, SkipIsNotSent DEF Written, IsEmpty
    <3>2. Reported(e, s)[f] = w[f]
      BY <1>3, <3>1 DEF Holds, Stored, Reported
    <3> QED
      BY <1>3, <3>2, AgreesIs
  <2> QED
    BY <2>1, <2>2
<1>4. CASE e[f].compared \in {"no", "unreadable"}
  BY <1>4, AgreesIs
<1> QED
  BY <1>2, <1>3, <1>4 DEF ComparesOnlyWhatItSends

\* What a caller can rely on while nobody else writes: no write is under way
\* but its own, all of it is held once it is applied, and what is waited for
\* once the poll has settled.
VisibleFits ==
    /\ StoresLists(ep, server)
    /\ \A c \in pending : post[c] # "none"
    /\ \A c \in Callers :
          NobodyElseWrites(c) =>
              /\ post[c] = "acked" /\ c \notin pending => Holds(ep, server, want[c])
              /\ Settled(c) => HoldsAwaited(ep, server, want[c])

LEMMA VisibleInit == Init => VisibleFits
<1> SUFFICES ASSUME Init
             PROVE  VisibleFits
  OBVIOUS
<1>1. StoresLists(ep, server)
  BY DEF Init, StoredEntities, StoresLists, Stored, Unset, EmptyList
<1> QED
  BY <1>1 DEF Init, AwaitInit, VisibleFits, Settled

LEMMA VisibleStep ==
  ASSUME IInv, VisibleFits, [Next]_vars
  PROVE  VisibleFits'
<1> USE DEF AwaitTypeOK, Goto, Polling, Returned, Settled
<1>1. AwaitTypeOK /\ ResultsFit /\ ReadBackTypeOK
  BY DEF IInv, ReadBackTypeOK
<1>2. ASSUME NEW c \in Callers, PostAcked(c)
      PROVE  VisibleFits'
  <2>1. \A d \in Callers : NobodyElseWrites(d)' => d = c /\ NobodyElseWrites(d)
    BY <1>1, <1>2 DEF NobodyElseWrites, PostAcked, ReadBackTypeOK
  <2>2. c \in pending' /\ loop'[c] = "first" /\ \A d \in pending' : post'[d] # "none"
    BY <1>1, <1>2 DEF PostAcked, Enter, ReadBackTypeOK, VisibleFits
  <2> QED
    BY <1>2, <2>1, <2>2 DEF PostAcked, VisibleFits
<1>3. ASSUME NEW c \in Callers, PostFails(c)
      PROVE  VisibleFits'
  <2>1. \A d \in Callers : NobodyElseWrites(d)' => d = c
    BY <1>1, <1>3 DEF NobodyElseWrites, PostFails, ReadBackTypeOK
  <2>2. post'[c] = "failed" /\ loop'[c] = "idle" /\ \A d \in pending' : post'[d] # "none"
    BY <1>1, <1>3 DEF PostFails, ReadBackTypeOK, ResultsFit, VisibleFits
  <2> QED
    BY <1>3, <2>1, <2>2 DEF PostFails, VisibleFits
<1>4. ASSUME NEW c \in Callers, Apply(c)
      PROVE  VisibleFits'
  <2>1. /\ Holds(ep, server', want[c]) /\ HoldsAwaited(ep, server', want[c]) /\ StoresLists(ep, server')
        /\ UNCHANGED <<ep, want, post, loop, readErr>> /\ pending' \subseteq pending
        /\ c \in pending
    BY <1>4, AppliedHolds DEF Apply, VisibleFits, Holds, HoldsAwaited
  <2>2. \A d \in Callers : NobodyElseWrites(d)' => d = c
    BY <1>4, <2>1 DEF NobodyElseWrites, VisibleFits
  <2> QED
    BY <2>1, <2>2 DEF VisibleFits
<1>5. ASSUME UNCHANGED <<ep, server, pending, want, post>>,
             \A c \in Callers : Settled(c)' =>
                \/ Settled(c)
                \/ Reflects(ep, Reported(ep, server), want[c])
      PROVE  VisibleFits'
  <2>1. \A c \in Callers : NobodyElseWrites(c)' <=> NobodyElseWrites(c)
    BY <1>5 DEF NobodyElseWrites
  <2>2. ASSUME NEW c \in Callers, Reflects(ep, Reported(ep, server), want[c])
        PROVE  HoldsAwaited(ep, server, want[c])
    BY <1>1, <2>2, ReflectingIsHolding, EndpointsAssumption DEF ReadBackTypeOK, VisibleFits
  <2> QED
    BY <1>5, <2>1, <2>2 DEF VisibleFits
<1>6. ASSUME NEW c \in Callers, ReadFails(c)
      PROVE  VisibleFits'
  BY <1>1, <1>5, <1>6 DEF ReadFails, ProbeSettles, ReadBackTypeOK
<1>7. ASSUME NEW c \in Callers, ReadReflectsWrite(c)
      PROVE  VisibleFits'
  BY <1>1, <1>5, <1>7 DEF ReadReflectsWrite, ProbeSettles
<1>8. ASSUME NEW c \in Callers, ReadIsStale(c)
      PROVE  VisibleFits'
  BY <1>1, <1>5, <1>8 DEF ReadIsStale, ProbeAgain
<1>9. ASSUME NEW c \in Callers, LeaveSelect(c)
      PROVE  VisibleFits'
  BY <1>1, <1>5, <1>9 DEF LeaveSelect, SelectTick, SelectDeadline, SelectDone
<1>10. ASSUME NEW c \in Callers, Passing(c)
       PROVE  VisibleFits'
  BY <1>1, <1>5, <1>10 DEF Passing, Elapse, Cancel
<1>11. CASE UNCHANGED vars
  BY <1>5, <1>11 DEF vars
<1> QED
  BY <1>2, <1>3, <1>4, <1>6, <1>7, <1>8, <1>9, <1>10, <1>11 DEF Next, Read

LEMMA VisibleInvariance == SafetySpec => []VisibleFits
  BY VisibleInit, VisibleStep, Invariance, PTL DEF SafetySpec

\* An Update that settles leaves no drift behind at any of the endpoints:
\* nobody else having written, the server agrees with the request from then
\* on, but for the fields the projection leaves out, and for these once the
\* write has landed (readBackAfterWrite and the projections of
\* async_state.go).
THEOREM SettledNeverDrifts == SafetySpec => []SettledLeavesNoDrift
<1>1. IInv /\ VisibleFits => SettledLeavesNoDrift
  <2> SUFFICES ASSUME IInv, VisibleFits, NEW c \in Callers, Settled(c), NobodyElseWrites(c),
                      NEW f \in Written(ep, want[c]), server[f] # Stored(ep, f, want[c][f])
               PROVE  f \notin Awaited(ep) /\ c \in pending
    BY DEF SettledLeavesNoDrift
  <2>1. post[c] = "acked"
    BY DEF IInv, ResultsFit, Settled
  <2>2. c \in pending
    BY <2>1 DEF VisibleFits, Holds
  <2> QED
    BY <2>2 DEF VisibleFits, HoldsAwaited
<1> QED
  BY <1>1, Invariance, VisibleInvariance, PTL

\* No Update spends its poll budget on a write that is visible already, at
\* the endpoints that compare only what they send.
THEOREM VisibleWriteSettles == SafetySpec => ExactReadBackSettles
<1>1. IInv /\ VisibleFits /\ [Next]_vars =>
         [\A c \in Callers : WaitsForNothing(c) => ~ComparesOnlyWhatItSends(ep)]_vars
  <2> SUFFICES ASSUME IInv, VisibleFits, NEW c \in Callers, WaitsForNothing(c),
                      ComparesOnlyWhatItSends(ep)
               PROVE  FALSE
    OBVIOUS
  <2>1. NobodyElseWrites(c) /\ c \notin pending /\ ~Reflects(ep, Reported(ep, server), want[c])
        /\ loop[c] \in {"first", "probe"}
    BY DEF WaitsForNothing, NobodyElseWrites, ReadIsStale, ProbeAgain, Goto
  <2>2. post[c] = "acked" /\ want[c] \in Requests(ep)
    BY <2>1 DEF IInv, ResultsFit, ReadBackTypeOK
  <2>3. Holds(ep, server, want[c])
    BY <2>1, <2>2 DEF VisibleFits
  <2>4. ep \in AllEndpoints
    BY EndpointsAssumption DEF IInv, ReadBackTypeOK
  <2> QED
    BY <2>1, <2>2, <2>3, <2>4, HoldingIsReflecting
<1> QED
  BY <1>1, Invariance, VisibleInvariance, PTL DEF SafetySpec, ExactReadBackSettles

(***************************************************************************)
(* Every step of a delete is a step of the poll loop, or leaves it alone.  *)
(***************************************************************************)
LEMMA DeleteStepIsAwaitStep == [DeleteNext]_deleteVars => [AwaitNext]_awaitVars
<1> SUFFICES ASSUME [DeleteNext]_deleteVars
             PROVE  [AwaitNext]_awaitVars
  OBVIOUS
<1>1. ASSUME NEW c \in Callers, StartBundle(c) \/ RequestAcked(c)
      PROVE  AwaitNext
  BY <1>1 DEF StartBundle, RequestAcked, AwaitNext
<1>2. ASSUME NEW c \in Callers, ProbeStep(c)
      PROVE  AwaitNext
  BY <1>2 DEF ProbeStep, DeleteGranted, DeleteRefused, DeleteFails, ValueUnlisted, ValueListed,
              ValueReadFails, UserGone, UserNotGone, AwaitNext, Probe
<1>3. ASSUME NEW c \in Callers, DeleteLeavesSelect(c) \/ DeletePasses(c)
      PROVE  AwaitNext
  BY <1>3 DEF DeleteLeavesSelect, DeletePasses, AwaitNext
<1>4. ASSUME NEW c \in Callers, RequestAbsent(c) \/ RequestFails(c)
      PROVE  UNCHANGED awaitVars
  BY <1>4 DEF RequestAbsent, RequestFails, awaitVars
<1>5. CASE Settle \/ RemoveField \/ UNCHANGED deleteVars
  BY <1>5 DEF Settle, RemoveField, deleteVars, awaitVars
<1> QED
  BY <1>1, <1>2, <1>3, <1>4, <1>5 DEF DeleteNext, Start

\* The deletes wait in awaitAsyncProcessing and nowhere else: AsyncDelete
\* implements the poll loop of Await (safety).
THEOREM DeletesWaitInTheLoop == DeleteSafetySpec => AwaitSafetySpec
<1>1. DeleteInit => AwaitInit
  BY DEF DeleteInit
<1> QED
  BY <1>1, DeleteStepIsAwaitStep, PTL DEF DeleteSafetySpec, AwaitSafetySpec

(***************************************************************************)
(* The invariant.  Beside the types it says what the last error is at      *)
(* every place of the loop, and what has become of the thing to delete     *)
(* where the loop has settled.  Nothing that is gone comes back.           *)
(***************************************************************************)
BundleFits(c) ==
    op[c] = "bundle" =>
        /\ request[c] # "absent"
        /\ loop[c] \in {"select", "probe", "expired"} => lastErr[c] = "inUse"
        /\ loop[c] = "settled" /\ lastErr[c] = "nil" => bundle = "gone"

ValueFits(c) ==
    op[c] = "value" /\ loop[c] = "settled" /\ lastErr[c] # "other" =>
        bundle = "gone" \/ value = "gone"

UserFits(c) ==
    op[c] = "user" /\ loop[c] = "settled" => user = "gone"

CallFits(c) ==
    /\ BundleFits(c)
    /\ ValueFits(c)
    /\ UserFits(c)
    /\ loop[c] = "cancelled" => done[c]

DeleteInv == AsyncDeleteTypeOK /\ \A c \in Callers : CallFits(c)

NothingComesBack ==
    /\ bundle = "gone" => bundle' = "gone"
    /\ value = "gone" => value' = "gone"
    /\ user = "gone" => user' = "gone"

LEMMA DeleteInitInv == DeleteInit => DeleteInv
<1> SUFFICES ASSUME DeleteInit
             PROVE  DeleteInv
  OBVIOUS
<1>1. AsyncDeleteTypeOK
  BY PollTimeoutAssumption DEF DeleteInit, AwaitInit, AsyncDeleteTypeOK, AwaitTypeOK, Presence
<1>2. \A c \in Callers : loop[c] = "idle" /\ request[c] = "none"
  BY DEF DeleteInit, AwaitInit
<1> QED
  BY <1>1, <1>2 DEF DeleteInv, CallFits, BundleFits, ValueFits, UserFits

LEMMA GoneStays ==
  ASSUME AsyncDeleteTypeOK, [DeleteNext]_deleteVars
  PROVE  NothingComesBack
<1> USE DEF NothingComesBack
<1>1. ASSUME NEW c \in Callers, Start(c)
      PROVE  NothingComesBack
  BY <1>1 DEF Start, StartBundle, RequestAcked, RequestAbsent, RequestFails, Deletable, removals
<1>2. ASSUME NEW c \in Callers, ProbeStep(c)
      PROVE  NothingComesBack
  BY <1>2 DEF ProbeStep, DeleteGranted, DeleteRefused, DeleteFails, ValueUnlisted, ValueListed,
              ValueReadFails, UserGone, UserNotGone, removals
<1>3. ASSUME NEW c \in Callers, DeleteLeavesSelect(c) \/ DeletePasses(c)
      PROVE  NothingComesBack
  BY <1>3 DEF DeleteLeavesSelect, DeletePasses, removals
<1>4. CASE Settle \/ RemoveField \/ UNCHANGED deleteVars
  BY <1>4 DEF Settle, RemoveField, deleteVars, removals
<1> QED
  BY <1>1, <1>2, <1>3, <1>4 DEF DeleteNext

LEMMA DeleteStepTypeOK ==
  ASSUME AsyncDeleteTypeOK, [DeleteNext]_deleteVars
  PROVE  AsyncDeleteTypeOK'
<1> USE PollTimeoutAssumption
    DEF AsyncDeleteTypeOK, AwaitTypeOK, Presence, Polling, Returned, Goto, removals, Fails
<1>1. ASSUME NEW c \in Callers, Start(c)
      PROVE  AsyncDeleteTypeOK'
  <2>1. CASE StartBundle(c)
    BY <2>1 DEF StartBundle, Enter
  <2>2. CASE RequestAcked(c)
    BY <2>2 DEF RequestAcked, Enter
  <2>3. CASE RequestAbsent(c)
    BY <2>3 DEF RequestAbsent
  <2>4. CASE RequestFails(c)
    BY <2>4 DEF RequestFails
  <2> QED
    BY <1>1, <2>1, <2>2, <2>3, <2>4 DEF Start
<1>2. ASSUME NEW c \in Callers, ProbeStep(c)
      PROVE  AsyncDeleteTypeOK'
  <2>1. /\ loop[c] # "idle"
        /\ \/ loop' = [loop EXCEPT ![c] = "settled"]
           \/ loop' = [loop EXCEPT ![c] = "select"]
        /\ UNCHANGED <<waited, tick, done, op, field, value, user, request>>
        /\ bundle' \in {"there", "gone"}
    BY <1>2 DEF ProbeStep, DeleteGranted, DeleteRefused, DeleteFails, ValueUnlisted, ValueListed,
                ValueReadFails, UserGone, UserNotGone, ProbeSettles, ProbeAgain
  <2>2. lastErr' \in [Callers -> {"nil", "inUse", "notFound", "other"}]
    BY <1>2 DEF ProbeStep, DeleteGranted, DeleteRefused, DeleteFails, ValueUnlisted, ValueListed,
                ValueReadFails, UserGone, UserNotGone
  <2> QED
    BY <2>1, <2>2
<1>3. ASSUME NEW c \in Callers, DeleteLeavesSelect(c)
      PROVE  AsyncDeleteTypeOK'
  BY <1>3 DEF DeleteLeavesSelect, Select, SelectTick, SelectDeadline, SelectDone
<1>4. ASSUME NEW c \in Callers, DeletePasses(c)
      PROVE  AsyncDeleteTypeOK'
  <2>1. waited' \in [Callers -> 0..PollTimeout]
    BY <1>4 DEF DeletePasses, Elapse, Cancel
  <2> QED
    BY <1>4, <2>1 DEF DeletePasses, Elapse, Cancel
<1>5. CASE Settle \/ RemoveField \/ UNCHANGED deleteVars
  BY <1>5 DEF Settle, RemoveField, deleteVars
<1> QED
  BY <1>1, <1>2, <1>3, <1>4, <1>5 DEF DeleteNext

\* A step that leaves a call where it is leaves what fits it.
LEMMA RestKeepsFitting ==
  ASSUME NEW d \in Callers, CallFits(d), NothingComesBack,
         op' = op, loop'[d] = loop[d], lastErr'[d] = lastErr[d],
         request'[d] = request[d], done[d] => done'[d]
  PROVE  CallFits(d)'
  BY DEF CallFits, BundleFits, ValueFits, UserFits, NothingComesBack

\* What the call that takes a step is left with.
LEMMA DeleteStepFits ==
  ASSUME DeleteInv, NEW c \in Callers, Start(c) \/ ProbeStep(c) \/ DeleteLeavesSelect(c)
  PROVE  CallFits(c)'
<1> USE DEF DeleteInv, AsyncDeleteTypeOK, AwaitTypeOK, CallFits, BundleFits, ValueFits, UserFits,
            Goto, Fails, removals
<1>1. CASE Start(c)
  <2>1. op' = op /\ (loop'[c] = "first" \/ loop'[c] = loop[c]) /\ request[c] = "none"
    BY <1>1 DEF Start, StartBundle, RequestAcked, RequestAbsent, RequestFails, Enter
  <2>2. loop[c] = "idle"
    BY <2>1
  <2>3. op[c] = "bundle" => request'[c] # "absent"
    BY <1>1 DEF Start, StartBundle, RequestAcked, RequestAbsent, RequestFails, Absent
  <2> QED
    BY <2>1, <2>2, <2>3
<1>2. CASE DeleteGranted(c)
  BY <1>2 DEF DeleteGranted, ProbeSettles
<1>3. CASE DeleteRefused(c)
  BY <1>3 DEF DeleteRefused, ProbeAgain
<1>4. CASE DeleteFails(c)
  BY <1>4 DEF DeleteFails, ProbeSettles
<1>5. CASE ValueUnlisted(c)
  BY <1>5 DEF ValueUnlisted, ProbeSettles
<1>6. CASE ValueListed(c)
  BY <1>6 DEF ValueListed, ProbeAgain
<1>7. CASE ValueReadFails(c)
  BY <1>7 DEF ValueReadFails, ProbeSettles
<1>8. CASE UserGone(c)
  BY <1>8 DEF UserGone, ProbeSettles
<1>9. CASE UserNotGone(c)
  BY <1>9 DEF UserNotGone, ProbeAgain
<1>10. CASE DeleteLeavesSelect(c)
  BY <1>10 DEF DeleteLeavesSelect, Select, SelectTick, SelectDeadline, SelectDone
<1> QED
  BY <1>1, <1>2, <1>3, <1>4, <1>5, <1>6, <1>7, <1>8, <1>9, <1>10 DEF ProbeStep

\* A caller's step is no other caller's.
LEMMA DeleteStepOfOne ==
  ASSUME AsyncDeleteTypeOK, NEW c \in Callers,
         Start(c) \/ ProbeStep(c) \/ DeleteLeavesSelect(c) \/ DeletePasses(c),
         NEW d \in Callers, d # c
  PROVE  /\ op' = op
         /\ loop'[d] = loop[d] /\ lastErr'[d] = lastErr[d]
         /\ request'[d] = request[d] /\ done'[d] = done[d]
<1> USE DEF AsyncDeleteTypeOK, AwaitTypeOK, Goto, Fails, removals
<1>1. CASE Start(c)
  BY <1>1 DEF Start, StartBundle, RequestAcked, RequestAbsent, RequestFails, Enter
<1>2. CASE ProbeStep(c)
  BY <1>2 DEF ProbeStep, DeleteGranted, DeleteRefused, DeleteFails, ValueUnlisted, ValueListed,
              ValueReadFails, UserGone, UserNotGone, ProbeSettles, ProbeAgain
<1>3. CASE DeleteLeavesSelect(c) \/ DeletePasses(c)
  BY <1>3 DEF DeleteLeavesSelect, Select, SelectTick, SelectDeadline, SelectDone, DeletePasses, Elapse, Cancel
<1> QED
  BY <1>1, <1>2, <1>3

LEMMA DeleteStep ==
  ASSUME DeleteInv, [DeleteNext]_deleteVars
  PROVE  DeleteInv'
<1>1. AsyncDeleteTypeOK' /\ NothingComesBack
  BY DeleteStepTypeOK, GoneStays DEF DeleteInv
<1>2. ASSUME NEW c \in Callers, Start(c) \/ ProbeStep(c) \/ DeleteLeavesSelect(c), NEW d \in Callers
      PROVE  CallFits(d)'
  <2>1. CASE d = c
    BY <1>2, <2>1, DeleteStepFits
  <2>2. CASE d # c
    BY <1>1, <1>2, <2>2, DeleteStepOfOne, RestKeepsFitting DEF DeleteInv
  <2> QED
    BY <2>1, <2>2
<1>3. ASSUME NEW c \in Callers, DeletePasses(c), NEW d \in Callers
      PROVE  CallFits(d)'
  <2>1. UNCHANGED <<op, loop, lastErr, request>> /\ (done[d] => done'[d])
    BY <1>3 DEF DeletePasses, Elapse, Cancel, DeleteInv, AsyncDeleteTypeOK, AwaitTypeOK
  <2> QED
    BY <1>1, <2>1, RestKeepsFitting DEF DeleteInv
<1>4. ASSUME Settle \/ RemoveField \/ UNCHANGED deleteVars, NEW d \in Callers
      PROVE  CallFits(d)'
  <2>1. UNCHANGED <<op, loop, lastErr, request, done>>
    BY <1>4 DEF Settle, RemoveField, deleteVars
  <2> QED
    BY <1>1, <2>1, RestKeepsFitting DEF DeleteInv
<1> QED
  BY <1>1, <1>2, <1>3, <1>4 DEF DeleteNext, DeleteInv

LEMMA DeleteInvariance == DeleteSafetySpec => []DeleteInv
  BY DeleteInitInv, DeleteStep, PTL DEF DeleteSafetySpec

\* The variables keep their types, and no delete polls for a removal that no
\* server has acknowledged.
THEOREM DeleteTypeCorrect == DeleteSafetySpec => []AsyncDeleteTypeOK
<1>1. DeleteInv => AsyncDeleteTypeOK
  BY DEF DeleteInv
<1> QED
  BY DeleteInvariance, <1>1, PTL

\* deleteBundleByID returns nil only for a bundle that is gone and gives up
\* only with the server's refusal in hand; DeleteUser settles only on a user
\* that is gone, and errs after the acknowledgement only when the context is
\* done: whatever the callers delete side by side, in any order.
THEOREM DeletesAlwaysTrue == DeleteSafetySpec => []DeletesAreTrue
<1>1. DeleteInv => DeletesAreTrue
  <2> SUFFICES ASSUME DeleteInv, NEW c \in Callers
               PROVE  BundleDeleteIsTrue(c) /\ UserDeleteIsTrue(c)
    BY DEF DeletesAreTrue
  <2>1. CallFits(c) /\ loop[c] \in {"idle"} \union Polling \union Returned
    BY DEF DeleteInv, AsyncDeleteTypeOK, AwaitTypeOK
  <2>2. BundleDeleteIsTrue(c)
    BY <2>1 DEF BundleDeleteIsTrue, DeleteReturnsNil, CallFits, BundleFits
  <2>3. UserDeleteIsTrue(c)
    BY <2>1 DEF UserDeleteIsTrue, DeleteReturnsNil, DeleteReturnsError, CallFits, UserFits, Returned
  <2> QED
    BY <2>2, <2>3
<1> QED
  BY DeleteInvariance, <1>1, PTL

\* Once deleteBundleValue has settled, no delete of the bundle is refused on
\* account of the value.
THEOREM ValueDeleteAlwaysUnblocks == DeleteSafetySpec => ValueDeleteUnblocksBundle
<1>1. ASSUME DeleteInv, [DeleteNext]_deleteVars
      PROVE  [\A c, d \in Callers :
                 /\ op[d] = "value" /\ loop[d] = "settled" /\ DeleteReturnsNil(d)
                 /\ DeleteRefused(c)
                 => field # "gone"]_deleteVars
  <2> SUFFICES ASSUME NEW c \in Callers, NEW d \in Callers,
                      op[d] = "value", loop[d] = "settled", DeleteReturnsNil(d), DeleteRefused(c)
               PROVE  field # "gone"
    OBVIOUS
  <2>1. lastErr[d] # "other"
    BY <1>1 DEF DeleteReturnsNil, DeleteInv, AsyncDeleteTypeOK
  <2>2. bundle = "there"
    BY DEF DeleteRefused
  <2>3. value = "gone"
    BY <1>1, <2>1, <2>2 DEF DeleteInv, CallFits, ValueFits
  <2> QED
    BY <2>3 DEF DeleteRefused, InUse
<1> QED
  BY DeleteInvariance, <1>1, PTL DEF DeleteSafetySpec, ValueDeleteUnblocksBundle
=============================================================================
