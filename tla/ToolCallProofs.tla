----------------------------- MODULE ToolCallProofs -----------------------------
(***************************************************************************)
(* Proofs about the calls of coding agents: the preset is kept, and what   *)
(* was changed is on record, for any number of calls, processes, deaths    *)
(* and changes of the preset.                                              *)
(***************************************************************************)
EXTENDS ToolCalls, FiniteSetTheorems, TLAPS

IsAsked(a) == a \in [action : {a.action}, dry : {a.dry}, meant : {a.meant}]
IsCall(r) ==
  /\ r \in [at : {r.at}, asks : {r.asks}, policy : {r.policy}, did : {r.did}, changed : {r.changed}, fd : {r.fd}]
  /\ IsAsked(r.asks)
CallsOK == call = [c \in Calls |-> call[c]] /\ \A c \in Calls : IsCall(call[c])

(* A call between guard and handler was permitted by the policy it bears,  *)
(* and that is still the user's unless the preset was changed.             *)
Policies == Presets \ {"unknown", "broken"}
GuardIsKept ==
  /\ preset \in Presets /\ changes \in Nat
  /\ \A c \in Calls : call[c].at = "handler" =>
       /\ call[c].asks \in Asks /\ call[c].policy \in Policies
       /\ Permits(call[c].asks, call[c].policy)
       /\ changes = 0 => call[c].policy = EffectivePolicy(preset)

PresetInv == CallsOK /\ GuardIsKept /\ PresetIsKept

LEMMA CallOf ==
  ASSUME CallsOK, NEW c \in Calls, NEW r, Becomes(c, r), IsCall(r)
  PROVE  CallsOK' /\ call'[c] = r /\ \A d \in Calls \ {c} : call'[d] = call[d]
<1>1. call' = [d \in Calls |-> IF d = c THEN r ELSE call[d]]
  BY DEF CallsOK, Becomes
<1>2. call'[c] = r /\ \A d \in Calls \ {c} : call'[d] = call[d]
  BY <1>1
<1> QED BY <1>1, <1>2 DEF CallsOK

LEMMA IdleIsCall == IsCall(Idle) /\ Idle.did = NoName /\ Idle.at = "idle" /\ Idle.changed = FALSE
BY DEF Idle, IsCall, Nothing, IsAsked

(* The registry, and what each preset denies.                              *)
LEMMA Registry ==
  /\ DOMAIN ActionRegistry = {"docs.create", "memo.update", "validate.fix", "docs.delete", "memo.delete",
                              "tasks.hard_delete", "tasks.archive", "templates.run", "project.set", "docs.get"}
  /\ \A a \in {"docs.create", "memo.update", "validate.fix"} : ActionRegistry[a] = "write"
  /\ \A a \in {"docs.delete", "memo.delete", "tasks.hard_delete"} : ActionRegistry[a] = "delete"
  /\ ActionRegistry["tasks.archive"] = "archive" /\ ActionRegistry["templates.run"] = "generate"
  /\ ActionRegistry["project.set"] = "admin" /\ ActionRegistry["docs.get"] = "read"
BY DEF ActionRegistry

LEMMA PolicyOf == ASSUME preset \in Presets PROVE EffectivePolicy(preset) \in Policies
BY DEF EffectivePolicy, Presets, Policies, DefaultPreset

(* A handler that fails leaves the call as it was not, or a link without   *)
(* its images.                                                             *)
Failed == [Idle EXCEPT !.at = "done"]
Bared(c) == [call[c] EXCEPT !.at = "done", !.did = "delete", !.changed = TRUE]
LEMMA FailedIsCall ==
  ASSUME CallsOK, NEW c \in Calls
  PROVE  /\ IsCall(Failed) /\ Failed.at = "done" /\ Failed.did = NoName /\ ~Failed.changed
         /\ IsCall(Bared(c)) /\ Bared(c).at = "done" /\ Bared(c).asks = call[c].asks
<1>1. IsCall(Failed) /\ Failed.at = "done" /\ Failed.did = NoName /\ ~Failed.changed
  BY IdleIsCall DEF IsCall, Failed
<1>2. IsCall(Bared(c)) /\ Bared(c).at = "done" /\ Bared(c).asks = call[c].asks
  BY DEF IsCall, CallsOK, Bared
<1> QED BY <1>1, <1>2

(* What a permitted handler does is promised, or one of the known ways.    *)
LEMMA PermittedIsPromised ==
  ASSUME preset \in Presets, NEW asks \in Asks, NEW policy \in Policies, Permits(asks, policy),
         Change(asks) /= NoName,
         IsPublicTaskLifecycleAction(asks.action) => policy = EffectivePolicy(preset)
  PROVE  \/ Change(asks) \in Promised(policy) /\ (Change(asks) = "delete" => asks.meant)
         \/ Change(asks) = "selection" \/ asks.action \in Unlisted
         \/ asks.action = "memo.delete" /\ asks.dry = "true" /\ policy = "read-write"
<1>0. /\ asks.action \in Actions /\ asks.meant \in BOOLEAN /\ asks.dry \in {"absent", "true", "false"}
      /\ asks.dry /= "absent" => asks.action \in Previewed
      /\ asks.meant => asks.action \in Confirmed
  BY DEF Asks
<1>1. policy \in {"read-only", "read-write", "read-write-no-delete", "generate-dry-run"}
  BY DEF Policies, Presets
<1>2. CASE asks.action \in {"docs.create", "memo.update", "validate.fix"}
  <2>1. Change(asks) = "write" /\ ClassifyAction(asks.action) = "write" /\ Guarded(asks)
    BY <1>2, Registry DEF Change, ClassifyAction, Guarded, IsBootstrapAction, IsPublicTaskLifecycleAction
  <2>2. "write" \notin Denied(policy)
    BY <2>1 DEF Permits, CheckCapability
  <2> QED BY <1>1, <2>1, <2>2 DEF Denied, Promised
<1>3. CASE asks.action \in {"docs.delete", "memo.delete"}
  <2>1. ClassifyAction(asks.action) = "delete" /\ Guarded(asks) /\ Change(asks) = "delete"
        /\ (asks.action = "docs.delete" => asks.dry = "false")
    BY <1>3, Registry DEF Change, ClassifyAction, Guarded, IsBootstrapAction, IsPublicTaskLifecycleAction, NoName
  <2>2. "delete" \notin Denied(policy) /\ ~(policy = "read-write" /\ ~(asks.dry = "true" \/ asks.meant))
    BY <2>1 DEF Permits, CheckCapability
  <2>3. policy = "read-write"
    BY <1>1, <2>2 DEF Denied
  <2> QED BY <1>3, <2>1, <2>2, <2>3 DEF Promised
<1>4. CASE asks.action \in {"tasks.archive", "tasks.hard_delete"}
  <2>1. policy = EffectivePolicy(preset)
    BY <1>4 DEF IsPublicTaskLifecycleAction
  <2>2. CASE asks.action = "tasks.archive"
    <3>1. asks.meant /\ LifecycleAllows("archive") /\ Change(asks) = "archive"
      BY <2>2 DEF Change, NoName
    <3> QED BY <1>1, <2>1, <3>1 DEF LifecycleAllows, Denied, Promised
  <2>3. CASE asks.action = "tasks.hard_delete"
    <3>1. asks.meant /\ LifecycleAllows("delete") /\ Change(asks) = "delete"
      BY <2>3 DEF Change, NoName
    <3> QED BY <1>1, <2>1, <3>1 DEF LifecycleAllows, Denied, Promised
  <2> QED BY <1>4, <2>2, <2>3
<1>5. CASE asks.action \in {"project.set", "templates.run", "docs.get"}
  BY <1>5 DEF Change, NoName
<1> QED BY <1>0, <1>2, <1>3, <1>4, <1>5, Registry DEF Actions

LEMMA PresetStep == ASSUME PresetInv, [ToolNext]_toolVars PROVE PresetInv'
<1> USE DEF PresetInv
<1>1. ASSUME NEW c \in Calls, Call(c) PROVE PresetInv'
  <2>1. PICK asks \in (IF c \in Plain THEN {[Nothing EXCEPT !.action = "docs.create"]} ELSE Asks) :
          /\ Becomes(c, IF Permits(asks, EffectivePolicy(preset))
                     THEN [Idle EXCEPT !.at = "handler", !.asks = asks, !.policy = EffectivePolicy(preset)]
                     ELSE [Idle EXCEPT !.at = "hook"])
          /\ UNCHANGED <<preset, changes>>
    BY <1>1 DEF Call
  <2>2. asks \in Asks /\ IsAsked(asks)
    BY <2>1, Registry DEF Asks, Nothing, Actions, Unlisted, IsAsked
  <2> DEFINE r == IF Permits(asks, EffectivePolicy(preset))
                  THEN [Idle EXCEPT !.at = "handler", !.asks = asks, !.policy = EffectivePolicy(preset)]
                  ELSE [Idle EXCEPT !.at = "hook"]
  <2>3. IsCall(r) /\ r.did = NoName
    BY <2>2, IdleIsCall DEF IsCall
  <2>4. r.at = "handler" => /\ r.asks = asks /\ r.policy = EffectivePolicy(preset)
                            /\ Permits(asks, EffectivePolicy(preset))
    BY IdleIsCall DEF IsCall
  <2> HIDE DEF r
  <2>5. CallsOK' /\ call'[c] = r /\ \A d \in Calls \ {c} : call'[d] = call[d]
    BY <2>1, <2>3, CallOf DEF r
  <2>6. GuardIsKept'
    <3>1. ASSUME NEW d \in Calls, call'[d].at = "handler"
          PROVE  /\ call'[d].asks \in Asks /\ call'[d].policy \in Policies
                 /\ Permits(call'[d].asks, call'[d].policy)
                 /\ changes = 0 => call'[d].policy = EffectivePolicy(preset)
      <4>1. CASE d = c
        BY <3>1, <4>1, <2>2, <2>4, <2>5, PolicyOf DEF GuardIsKept
      <4>2. CASE d /= c
        BY <3>1, <4>2, <2>5 DEF GuardIsKept
      <4> QED BY <4>1, <4>2
    <3> QED BY <3>1, <2>1 DEF GuardIsKept, Permits, EffectivePolicy
  <2>7. PresetIsKept'
    BY <2>1, <2>3, <2>5 DEF PresetIsKept
  <2> QED BY <2>5, <2>6, <2>7
<1>2. ASSUME NEW c \in Calls, Handle(c) PROVE PresetInv'
  <2> DEFINE r == [call[c] EXCEPT !.at = "hook", !.did = Change(call[c].asks), !.changed = Change(call[c].asks) /= NoName]
  <2>1. Becomes(c, r) /\ UNCHANGED <<preset, changes>> /\ call[c].at = "handler"
    BY <1>2 DEF Handle
  <2>2. /\ IsCall(r) /\ r.at = "hook" /\ r.did = Change(call[c].asks) /\ r.asks = call[c].asks
        /\ r.policy = call[c].policy
    BY DEF IsCall, CallsOK
  <2> HIDE DEF r
  <2>3. CallsOK' /\ call'[c] = r /\ \A d \in Calls \ {c} : call'[d] = call[d]
    BY <2>1, <2>2, CallOf
  <2>4. GuardIsKept'
    BY <2>1, <2>2, <2>3 DEF GuardIsKept, Permits
  <2>5. PresetIsKept'
    <3>1. ASSUME r.did /= NoName, ~(IsPublicTaskLifecycleAction(r.asks.action) /\ changes > 0)
          PROVE \/ r.did \in Promised(r.policy) /\ (r.did = "delete" => r.asks.meant)
                \/ r.did = "selection" \/ r.asks.action \in Unlisted
                \/ r.asks.action = "memo.delete" /\ r.asks.dry = "true" /\ r.policy = "read-write"
      <4>1. IsPublicTaskLifecycleAction(r.asks.action) => changes = 0
        BY <3>1 DEF GuardIsKept
      <4> QED BY <2>1, <2>2, <3>1, <4>1, PermittedIsPromised DEF GuardIsKept
    <3> QED BY <2>1, <2>3, <3>1 DEF PresetIsKept
  <2> QED BY <2>3, <2>4, <2>5
<1>3. ASSUME NEW c \in Calls,
             AfterCall(c) \/ RotateIfNeeded(c) \/ OpenLog(c) \/ WriteEvent(c) \/ AppendFails(c)
      PROVE  PresetInv'
  <2>1. PICK r : /\ Becomes(c, r) /\ IsCall(r) /\ r.at /= "handler" /\ UNCHANGED <<preset, changes>>
                 /\ r.did = NoName \/ (r.did = call[c].did /\ r.asks = call[c].asks /\ r.policy = call[c].policy)
    <3>0. IsCall(call[c])
      BY DEF CallsOK
    <3>1. CASE AppendFails(c)
      <4> WITNESS [call[c] EXCEPT !.at = "done", !.fd = 0]
      <4> QED BY <3>1, <3>0 DEF AppendFails, IsCall
    <3>2. CASE AfterCall(c)
      <4> DEFINE at == IF Full THEN "drop" ELSE "open"
                 changed == call[c].changed
      <4>1. Becomes(c, [Idle EXCEPT !.at = at, !.changed = changed])
        BY <3>2 DEF AfterCall
      <4>2. UNCHANGED <<preset, changes>>
        BY <3>2 DEF AfterCall
      <4> WITNESS [Idle EXCEPT !.at = at, !.changed = changed]
      <4> QED BY <4>1, <4>2, IdleIsCall DEF IsCall
    <3>3. CASE RotateIfNeeded(c)
      <4>1. PICK at \in {"shift", "rename", "open"} : Becomes(c, [call[c] EXCEPT !.at = at])
        BY <3>3 DEF RotateIfNeeded
      <4>2. UNCHANGED <<preset, changes>>
        BY <3>3 DEF RotateIfNeeded
      <4> WITNESS [call[c] EXCEPT !.at = at]
      <4> QED BY <3>0, <4>1, <4>2 DEF IsCall
    <3>4. CASE OpenLog(c)
      <4>1. PICK f : Becomes(c, [call[c] EXCEPT !.at = "write", !.fd = f])
        BY <3>4 DEF OpenLog
      <4>2. UNCHANGED <<preset, changes>>
        BY <3>4 DEF OpenLog
      <4> WITNESS [call[c] EXCEPT !.at = "write", !.fd = f]
      <4> QED BY <3>0, <4>1, <4>2 DEF IsCall
    <3>5. CASE WriteEvent(c)
      <4> WITNESS [call[c] EXCEPT !.at = "done", !.fd = 0]
      <4> QED BY <3>5, <3>0 DEF WriteEvent, IsCall
    <3> QED BY <1>3, <3>1, <3>2, <3>3, <3>4, <3>5
  <2>2. CallsOK' /\ call'[c] = r /\ \A d \in Calls \ {c} : call'[d] = call[d]
    BY <2>1, CallOf
  <2> QED BY <2>1, <2>2 DEF GuardIsKept, PresetIsKept, Permits
<1>7. ASSUME NEW c \in Calls, HandlerError(c) PROVE PresetInv'
  <2>1. /\ UNCHANGED <<preset, changes>>
        /\ \/ Becomes(c, Failed)
           \/ Becomes(c, Bared(c)) /\ call[c].asks.action = "link.delete"
    BY <1>7 DEF HandlerError, Failed, Bared
  <2>2. PICK r : /\ Becomes(c, r) /\ IsCall(r) /\ r.at = "done"
                 /\ r.did = NoName \/ r.asks.action \in Unlisted
    BY <2>1, FailedIsCall DEF Unlisted
  <2>3. CallsOK' /\ call'[c] = r /\ \A d \in Calls \ {c} : call'[d] = call[d]
    BY <2>2, CallOf
  <2> QED BY <2>1, <2>2, <2>3 DEF GuardIsKept, PresetIsKept, Permits
<1>4. CASE SetPreset
  <2>1. changes' = changes + 1 /\ preset' \in Presets /\ call' = call
    BY <1>4 DEF SetPreset
  <2> QED BY <2>1 DEF GuardIsKept, PresetIsKept, CallsOK, Permits
<1>5. ASSUME NEW p \in Processes, ProcessDies(p) PROVE PresetInv'
  <2>1. PICK lost \in SUBSET Calls :
          call' = [c \in Calls |-> IF c \in lost THEN [Idle EXCEPT !.at = "done", !.changed = call[c].changed] ELSE call[c]]
    BY <1>5 DEF ProcessDies
  <2>2. UNCHANGED <<preset, changes>>
    BY <1>5 DEF ProcessDies
  <2>3. \A c \in Calls : call'[c] = IF c \in lost THEN [Idle EXCEPT !.at = "done", !.changed = call[c].changed] ELSE call[c]
    BY <2>1
  <2>4. \A c \in Calls : IsCall(call'[c]) /\ (call'[c] = call[c] \/ (call'[c].did = NoName /\ call'[c].at = "done"))
    BY <2>3, IdleIsCall DEF CallsOK, IsCall
  <2>5. CallsOK'
    BY <2>1, <2>4 DEF CallsOK
  <2> QED BY <2>2, <2>4, <2>5 DEF GuardIsKept, PresetIsKept, Permits
<1>6. CASE UNCHANGED toolVars
  BY <1>6 DEF toolVars, CallsOK, GuardIsKept, PresetIsKept, Permits
<1> QED BY <1>1, <1>2, <1>3, <1>4, <1>5, <1>6, <1>7 DEF ToolNext

(* A handler changes the store only as the preset its guard read promises, *)
(* or in one of the known ways (NewGuardMiddleware).                       *)
THEOREM PresetKept == ToolSpec => []PresetIsKept
<1>1. ToolInit => PresetInv
  <2> SUFFICES ASSUME ToolInit PROVE PresetInv
    OBVIOUS
  <2>1. call = [c \in Calls |-> Idle] /\ preset \in Presets /\ changes = 0
    BY DEF ToolInit
  <2>2. \A c \in Calls : call[c] = Idle
    BY <2>1
  <2> QED BY <2>1, <2>2, IdleIsCall DEF PresetInv, CallsOK, GuardIsKept, PresetIsKept
<1>2. PresetInv /\ [ToolNext]_toolVars => PresetInv'
  BY PresetStep
<1>3. PresetInv => PresetIsKept
  BY DEF PresetInv
<1> QED BY <1>1, <1>2, <1>3, PTL DEF ToolSpec

-------------------------------------------------------------------------------
(* The log.  A file holds events of before, and each call's event at most  *)
(* once; the calls' events are in the order they were written.             *)
Names == {NoName, "before"}
LogOK ==
  /\ home \in [Calls -> Processes] /\ appending = [p \in Processes |-> appending[p]]
  /\ holds \in Seq(Seq(Calls \union {"before"})) /\ order \in Seq(Calls)
  /\ slot = [s \in 0..2 |-> slot[s]] /\ \A s \in 0..2 : slot[s] \in 0..Len(holds)
  /\ \A s, t \in 0..2 : slot[s] = slot[t] /\ slot[s] /= 0 => s = t
  /\ \A c \in Calls : call[c].at = "write" => call[c].fd \in 1..Len(holds)

In(e, f) == f /= 0 /\ \E i \in DOMAIN holds[f] : holds[f][i] = e
Written(c) == \E i \in DOMAIN order : order[i] = c
After(d, c) == \E i, j \in DOMAIN order : i < j /\ order[i] = c /\ order[j] = d
WrittenOnce ==
  /\ \A c \in Calls : Written(c) => call[c].at = "done"
  /\ \A c \in Calls, f \in 1..Len(holds) : In(c, f) => Written(c)
  /\ \A c \in Calls, f, g \in 1..Len(holds) : In(c, f) /\ In(c, g) => f = g

(* One call of a process at a time appends, and while nothing crossed one  *)
(* process at a time renames; the log stays full until it is renamed, and  *)
(* the name it or the younger backup takes is free.                        *)
OneAppends == \A c \in Calls : call[c].at \notin {"idle", "handler", "hook", "done"} => appending[home[c]] = c
OneRotates ==
  /\ \A c, d \in Calls : call[c].at \in Rotating /\ call[d].at \in Rotating => c = d
  /\ \A c \in Calls : call[c].at \in Rotating => Full
  /\ \A c \in Calls : call[c].at = "shift" => slot[2] = 0
  /\ \A c \in Calls : call[c].at = "rename" => slot[1] = 0

(* Where the event of a changed call is, from the log to the oldest backup:*)
(* what is in the log by then is newer, and so is an event of the backup   *)
(* between them.                                                           *)
Filed(c) == call[c].at = "done" /\ call[c].changed /\ c \notin unfiled
LogIsNewer(c) == slot[0] /= 0 => \A i \in DOMAIN holds[slot[0]] : After(holds[slot[0]][i], c)
NewerBetween(c) == slot[1] /= 0 /\ \E d \in Calls : In(d, slot[1]) /\ After(d, c)
Renaming == \E r \in Calls : call[r].at = "rename"
TwoNewer(c) == \E d, e \in Calls : d /= e /\ After(d, c) /\ After(e, c)
Kept(c) ==
  \/ In(c, slot[0])
  \/ In(c, slot[1]) /\ LogIsNewer(c)
  \/ In(c, slot[2]) /\ LogIsNewer(c) /\ (Renaming \/ NewerBetween(c))
  \/ TwoNewer(c)
FiledAreKept == \A c \in Calls : Filed(c) => Written(c) /\ Kept(c)

LogInv ==
  /\ CallsOK /\ LogOK /\ WrittenOnce /\ OneAppends
  /\ ~crossed => OneRotates /\ FiledAreKept

LEMMA HoldsAreSeqs ==
  ASSUME LogOK, NEW f \in 1..Len(holds)
  PROVE  holds[f] \in Seq(Calls \union {"before"}) /\ DOMAIN holds[f] = 1..Len(holds[f])
BY DEF LogOK

LEMMA IdleElsewhere ==
  /\ IsCall(Idle) /\ "idle" \notin Rotating \union {"open", "write", "done", "rename", "shift"}
  /\ Rotating = {"drop", "shift", "rename"}
BY IdleIsCall DEF Rotating

(* A step that leaves the log and what was written to it alone.            *)
LEMMA LogStays ==
  ASSUME LogInv, CallsOK', UNCHANGED <<home, slot, holds, order>>,
         appending' = [p \in Processes |-> appending'[p]],
         \A c \in Calls : call[c].at = "done" => call'[c].at = "done",
         \A c \in Calls : call'[c].at = "write" => call'[c].fd = call[c].fd /\ call[c].at = "write"
  PROVE  LogOK' /\ WrittenOnce'
<1>1. LogOK'
  BY DEF LogInv, LogOK
<1>2. WrittenOnce'
  BY DEF LogInv, LogOK, WrittenOnce, In, Written
<1> QED BY <1>1, <1>2

LEMMA KeptStays ==
  ASSUME UNCHANGED <<slot, holds, order>>, Renaming => Renaming', NEW c, Written(c) /\ Kept(c)
  PROVE  (Written(c) /\ Kept(c))'
BY DEF Kept, In, LogIsNewer, NewerBetween, TwoNewer, After, Written

(* Steps of the guard and the handler.                                     *)
LEMMA HandlingKeepsLog ==
  ASSUME LogInv, NEW c \in Calls, Call(c) \/ Handle(c) PROVE LogInv'
<1>1. UNCHANGED <<home, slot, holds, order, appending, unfiled, crossed>>
  BY DEF Call, Handle
<1>2. PICK r : Becomes(c, r) /\ IsCall(r) /\ r.at \in {"handler", "hook"}
  <2>1. CASE Call(c)
    <3>1. PICK asks : \/ Becomes(c, [Idle EXCEPT !.at = "handler", !.asks = asks, !.policy = EffectivePolicy(preset)]) /\ IsAsked(asks)
                      \/ Becomes(c, [Idle EXCEPT !.at = "hook"])
      <4>1. PICK asks \in (IF c \in Plain THEN {[Nothing EXCEPT !.action = "docs.create"]} ELSE Asks) :
              Becomes(c, IF Permits(asks, EffectivePolicy(preset))
                     THEN [Idle EXCEPT !.at = "handler", !.asks = asks, !.policy = EffectivePolicy(preset)]
                     ELSE [Idle EXCEPT !.at = "hook"])
        BY <2>1 DEF Call
      <4>2. IsAsked(asks)
        BY <4>1 DEF Asks, IsAsked, Nothing
      <4> QED BY <4>1, <4>2
    <3> DEFINE r1 == [Idle EXCEPT !.at = "handler", !.asks = asks, !.policy = EffectivePolicy(preset)]
               r2 == [Idle EXCEPT !.at = "hook"]
    <3>2. IsCall(r2) /\ r2.at = "hook" /\ (IsAsked(asks) => IsCall(r1) /\ r1.at = "handler")
      BY IdleIsCall DEF IsCall
    <3> HIDE DEF r1, r2
    <3>3. (Becomes(c, r1) /\ IsAsked(asks)) \/ Becomes(c, r2)
      BY <3>1 DEF r1, r2
    <3> QED BY <3>2, <3>3
  <2>2. CASE Handle(c)
    <3> DEFINE r == [call[c] EXCEPT !.at = "hook", !.did = Change(call[c].asks), !.changed = Change(call[c].asks) /= NoName]
    <3>1. Becomes(c, r)
      BY <2>2 DEF Handle
    <3>2. IsCall(r) /\ r.at = "hook"
      BY DEF LogInv, CallsOK, IsCall
    <3> HIDE DEF r
    <3> QED BY <3>1, <3>2
  <2> QED BY <2>1, <2>2
<1>3. call[c].at \in {"idle", "handler"}
  BY IdleIsCall DEF Call, Handle
<1>4. CallsOK' /\ call'[c] = r /\ \A d \in Calls \ {c} : call'[d] = call[d]
  BY <1>2, CallOf DEF LogInv
<1>5. LogOK' /\ WrittenOnce'
  BY <1>1, <1>2, <1>3, <1>4, LogStays DEF LogInv, LogOK
<1>6. OneAppends'
  BY <1>1, <1>2, <1>4 DEF LogInv, OneAppends
<1>7. ASSUME ~crossed PROVE OneRotates'
  BY <1>1, <1>2, <1>4, <1>7, IdleElsewhere DEF LogInv, OneRotates, Full
<1>8. ASSUME ~crossed PROVE FiledAreKept'
  <2>1. Renaming => Renaming'
    BY <1>3, <1>4 DEF Renaming
  <2>2. ASSUME NEW d \in Calls, Filed(d)' PROVE Filed(d)
    BY <1>1, <1>2, <1>4, <2>2 DEF Filed
  <2> QED BY <1>1, <1>8, <2>1, <2>2, KeptStays DEF LogInv, FiledAreKept
<1> QED BY <1>1, <1>4, <1>5, <1>6, <1>7, <1>8 DEF LogInv

(* A call that ends without an event in the log, and has changed nothing or*)
(* is noted for it.                                                        *)
LEMMA UnfiledKeepsLog ==
  ASSUME LogInv, NoName \notin Calls, NEW c \in Calls, HandlerError(c) \/ AppendFails(c) PROVE LogInv'
<1>1. /\ UNCHANGED <<home, slot, holds, order, crossed>>
      /\ call[c].at \in {"handler", "open", "write"}
      /\ \/ appending' = appending /\ call[c].at = "handler"
         \/ appending' = [appending EXCEPT ![home[c]] = NoName] /\ call[c].at \in {"open", "write"}
  BY DEF HandlerError, AppendFails
<1>2. PICK r : /\ Becomes(c, r) /\ IsCall(r) /\ r.at = "done" /\ unfiled \subseteq unfiled'
               /\ ~r.changed \/ c \in unfiled'
  <2>1. CASE HandlerError(c)
    <3>1. \/ Becomes(c, Failed) /\ unfiled' = unfiled
          \/ Becomes(c, Bared(c)) /\ unfiled' = unfiled \union {c}
      BY <2>1 DEF HandlerError, Failed, Bared
    <3>2. CallsOK
      BY DEF LogInv
    <3> QED BY <3>1, <3>2, FailedIsCall
  <2>2. CASE AppendFails(c)
    <3> DEFINE r == [call[c] EXCEPT !.at = "done", !.fd = 0]
    <3>1. Becomes(c, r) /\ unfiled' = (IF call[c].changed THEN unfiled \union {c} ELSE unfiled)
      BY <2>2 DEF AppendFails
    <3>2. IsCall(r) /\ r.at = "done" /\ r.changed = call[c].changed
      BY DEF LogInv, CallsOK, IsCall
    <3> HIDE DEF r
    <3> QED BY <3>1, <3>2
  <2> QED BY <2>1, <2>2
<1>3. CallsOK' /\ call'[c] = r /\ \A d \in Calls \ {c} : call'[d] = call[d]
  BY <1>2, CallOf DEF LogInv
<1> USE DEF LogInv
<1>4. /\ appending' = [p \in Processes |-> appending'[p]]
      /\ \A p \in Processes : appending'[p] = IF p = home[c] /\ call[c].at \in {"open", "write"} THEN NoName
                                              ELSE appending[p]
  BY <1>1 DEF LogOK
<1>5. LogOK' /\ WrittenOnce'
  BY <1>1, <1>2, <1>3, <1>4, LogStays
<1>6. OneAppends'
  <2> SUFFICES ASSUME NEW d \in Calls, call'[d].at \notin {"idle", "handler", "hook", "done"}
               PROVE appending'[home[d]] = d
    BY <1>1 DEF OneAppends
  <2>1. d /= c /\ call'[d] = call[d] /\ appending[home[d]] = d /\ home[d] \in Processes
    BY <1>2, <1>3 DEF OneAppends, LogOK
  <2>2. call[c].at \in {"open", "write"} => appending[home[c]] = c
    BY DEF OneAppends
  <2> QED BY <1>4, <2>1, <2>2
<1>7. ASSUME ~crossed PROVE OneRotates'
  <2>1. \A d \in Calls : call'[d].at \in Rotating => d /= c /\ call'[d] = call[d]
    BY <1>2, <1>3, IdleElsewhere
  <2>2. Full' <=> Full
    BY <1>1 DEF Full
  <2> QED BY <1>1, <1>2, <1>3, <1>7, <2>1, <2>2, IdleElsewhere DEF OneRotates
<1>8. ASSUME ~crossed PROVE FiledAreKept'
  <2>1. Renaming => Renaming'
    BY <1>1, <1>3 DEF Renaming
  <2>2. ASSUME NEW d \in Calls, Filed(d)' PROVE Filed(d)
    BY <1>1, <1>2, <1>3, <2>2 DEF Filed
  <2> QED BY <1>1, <1>8, <2>1, <2>2, KeptStays DEF FiledAreKept
<1> QED BY <1>1, <1>3, <1>5, <1>6, <1>7, <1>8

LEMMA AfterCallKeepsLog == ASSUME LogInv, NoName \notin Calls, NEW c \in Calls, AfterCall(c) PROVE LogInv'
<1> DEFINE r == [Idle EXCEPT !.at = IF Full THEN "drop" ELSE "open", !.changed = call[c].changed]
<1>1. /\ Becomes(c, r) /\ call[c].at = "hook" /\ appending[home[c]] = NoName
      /\ appending' = [appending EXCEPT ![home[c]] = c]
      /\ crossed' = (crossed \/ (Full /\ \E d \in Calls : call[d].at \in Rotating))
      /\ UNCHANGED <<home, slot, holds, order, unfiled>>
  BY DEF AfterCall
<1>2. IsCall(r) /\ r.at = IF Full THEN "drop" ELSE "open"
  BY IdleIsCall DEF IsCall
<1> HIDE DEF r
<1>3. CallsOK' /\ call'[c] = r /\ \A d \in Calls \ {c} : call'[d] = call[d]
  BY <1>1, <1>2, CallOf DEF LogInv
<1>4. appending' = [p \in Processes |-> IF p = home[c] THEN c ELSE appending[p]]
  BY <1>1 DEF LogInv, LogOK
<1>5. LogOK' /\ WrittenOnce'
  BY <1>1, <1>2, <1>3, <1>4, LogStays
<1>6. OneAppends'
  <2>1. \A d \in Calls : home[d] \in Processes
    BY DEF LogInv, LogOK
  <2> QED BY <1>1, <1>2, <1>3, <1>4, <2>1 DEF LogInv, OneAppends
<1>7. ASSUME ~crossed' PROVE ~crossed /\ OneRotates'
  <2>1. ~crossed /\ (Full => \A d \in Calls : call[d].at \notin Rotating)
    BY <1>1, <1>7
  <2>2. Full' <=> Full
    BY <1>1 DEF Full
  <2> QED BY <1>1, <1>2, <1>3, <2>1, <2>2, IdleElsewhere DEF LogInv, OneRotates
<1>8. ASSUME ~crossed' PROVE FiledAreKept'
  <2>1. Renaming => Renaming'
    BY <1>1, <1>3 DEF Renaming
  <2>2. ASSUME NEW d \in Calls, Filed(d)' PROVE Filed(d)
    BY <1>1, <1>2, <1>3, <2>2 DEF Filed
  <2> QED BY <1>1, <1>7, <1>8, <2>1, <2>2, KeptStays DEF LogInv, FiledAreKept
<1> QED BY <1>3, <1>5, <1>6, <1>7, <1>8 DEF LogInv

(* The three renames.                                                      *)
LEMMA RotationKeepsLog == ASSUME LogInv, NEW c \in Calls, RotateIfNeeded(c) PROVE LogInv'
<1> DEFINE at == call[c].at
           r == [call[c] EXCEPT !.at = IF @ = "drop" THEN "shift" ELSE IF @ = "shift" THEN "rename" ELSE "open"]
<1>1. /\ Becomes(c, r) /\ at \in {"drop", "shift", "rename"} /\ slot' = Renamed(at)
      /\ UNCHANGED <<home, holds, order, appending, unfiled, crossed>>
  BY DEF RotateIfNeeded, Rotating
<1>2. IsCall(r) /\ r.at = IF at = "drop" THEN "shift" ELSE IF at = "shift" THEN "rename" ELSE "open"
  BY DEF LogInv, CallsOK, IsCall
<1> HIDE DEF r
<1>3. CallsOK' /\ call'[c] = r /\ \A d \in Calls \ {c} : call'[d] = call[d]
  BY <1>1, <1>2, CallOf DEF LogInv
<1>4. /\ slot = [s \in 0..2 |-> slot[s]] /\ \A s \in 0..2 : slot[s] \in 0..Len(holds)
      /\ \A s, t \in 0..2 : slot[s] = slot[t] /\ slot[s] /= 0 => s = t
      /\ 0 \in 0..2 /\ 1 \in 0..2 /\ 2 \in 0..2 /\ Len(holds) \in Nat
  BY DEF LogInv, LogOK
<1>5. at = "drop" => slot'[2] = 0 /\ slot'[1] = slot[1] /\ slot'[0] = slot[0]
  BY <1>1, <1>4 DEF Renamed
<1>6. at = "shift" => /\ slot'[0] = slot[0] /\ slot'[1] = 0
                      /\ slot'[2] = IF slot[1] = 0 THEN slot[2] ELSE slot[1]
  BY <1>1, <1>4 DEF Renamed, Moved
<1>7. at = "rename" => /\ slot'[0] = 0 /\ slot'[2] = slot[2]
                       /\ slot'[1] = IF slot[0] = 0 THEN slot[1] ELSE slot[0]
  BY <1>1, <1>4 DEF Renamed, Moved
<1>8. slot' = [s \in 0..2 |-> slot'[s]]
  BY <1>1, <1>4 DEF Renamed, Moved
<1>9. LogOK'
  <2>1. \A s \in 0..2 : s = 0 \/ s = 1 \/ s = 2
    OBVIOUS
  <2>2. \A s \in 0..2 : slot'[s] \in 0..Len(holds)
    BY <1>1, <1>4, <1>5, <1>6, <1>7, <2>1
  <2>3. \A s, t \in 0..2 : slot'[s] = slot'[t] /\ slot'[s] /= 0 => s = t
    BY <1>1, <1>4, <1>5, <1>6, <1>7, <2>1
  <2>4. \A d \in Calls : call'[d].at = "write" => call'[d].fd \in 1..Len(holds)
    BY <1>1, <1>2, <1>3 DEF LogInv, LogOK
  <2> QED BY <1>1, <1>8, <2>2, <2>3, <2>4 DEF LogInv, LogOK
<1>10. WrittenOnce'
  BY <1>1, <1>3 DEF LogInv, WrittenOnce, In, Written
<1>11. OneAppends'
  BY <1>1, <1>2, <1>3 DEF LogInv, OneAppends
<1> USE DEF LogInv
<1>12. ASSUME ~crossed PROVE OneRotates'
  <2>1. \A d \in Calls : call[d].at \in Rotating => d = c
    BY <1>1, <1>12, IdleElsewhere DEF OneRotates
  <2>2. \A d \in Calls : call'[d].at \in Rotating => d = c /\ at \in {"drop", "shift"}
    BY <1>1, <1>2, <1>3, <2>1, IdleElsewhere
  <2>3. at \in {"drop", "shift"} => Full'
    BY <1>1, <1>5, <1>6, <1>12, IdleElsewhere DEF OneRotates, Full
  <2>4. \A d \in Calls : (call'[d].at = "shift" => slot'[2] = 0) /\ (call'[d].at = "rename" => slot'[1] = 0)
    BY <1>2, <1>3, <1>5, <1>6, <2>2, IdleElsewhere
  <2> QED BY <2>2, <2>3, <2>4, IdleElsewhere DEF OneRotates
<1>13. ASSUME ~crossed PROVE FiledAreKept'
  <2>1. ASSUME NEW d \in Calls, Filed(d)' PROVE Written(d) /\ Kept(d)
    BY <1>1, <1>2, <1>3, <1>13, <2>1 DEF FiledAreKept, Filed
  <2>2. slot[0] /= 0 /\ Len(holds[slot[0]]) >= 1
    BY <1>1, <1>13, IdleElsewhere DEF OneRotates, Full, auditMaxFileSize
  <2>3. ASSUME NEW d \in Calls, LogIsNewer(d)
        PROVE  \E e \in Calls : In(e, slot[0]) /\ After(e, d)
    <3>1. 1 \in DOMAIN holds[slot[0]]
      BY <1>4, <2>2, HoldsAreSeqs
    <3>2. After(holds[slot[0]][1], d)
      BY <2>2, <2>3, <3>1 DEF LogIsNewer
    <3>3. holds[slot[0]][1] \in Calls
      BY <3>2 DEF After, LogOK
    <3> QED BY <2>2, <3>1, <3>2, <3>3 DEF In
  <2>4. ASSUME NEW d \in Calls, Written(d), Kept(d) PROVE Kept(d)'
    <3>1. CASE TwoNewer(d)
      BY <1>1, <3>1 DEF Kept, TwoNewer, After
    <3>2. CASE at = "drop" /\ ~TwoNewer(d)
      <4>1. ~Renaming
        BY <1>13, <3>2, IdleElsewhere DEF OneRotates, Renaming
      <4>2. ~In(d, slot[2]) \/ ~LogIsNewer(d) \/ ~NewerBetween(d)
        <5> SUFFICES ASSUME LogIsNewer(d), NewerBetween(d) PROVE FALSE
          OBVIOUS
        <5>1. PICK e \in Calls : In(e, slot[1]) /\ After(e, d)
          BY DEF NewerBetween
        <5>2. PICK f \in Calls : In(f, slot[0]) /\ After(f, d)
          BY <2>3
        <5>3. e = f
          BY <3>2, <5>1, <5>2 DEF TwoNewer
        <5> QED BY <1>4, <2>2, <5>1, <5>2, <5>3 DEF WrittenOnce, In
      <4>3. In(d, slot[0]) \/ (In(d, slot[1]) /\ LogIsNewer(d))
        BY <2>4, <3>2, <4>1, <4>2 DEF Kept
      <4> QED BY <1>1, <1>5, <3>2, <4>3 DEF Kept, In, LogIsNewer, After
    <3>3. CASE at = "shift"
      <4>1. slot[2] = 0
        BY <1>13, <3>3 DEF OneRotates
      <4>2. Renaming'
        BY <1>2, <1>3, <3>3 DEF Renaming
      <4>3. In(d, slot[0]) \/ (In(d, slot[1]) /\ LogIsNewer(d)) \/ TwoNewer(d)
        BY <2>4, <4>1 DEF Kept, In
      <4> QED BY <1>1, <1>6, <3>1, <3>3, <4>2, <4>3 DEF Kept, In, LogIsNewer, After
    <3>4. CASE at = "rename"
      <4>1. slot[1] = 0
        BY <1>13, <3>4 DEF OneRotates
      <4>2. slot'[0] = 0 /\ slot'[1] = slot[0] /\ slot'[2] = slot[2]
        BY <1>7, <2>2, <3>4
      <4>3. LogIsNewer(d)'
        BY <4>2 DEF LogIsNewer
      <4>4. CASE In(d, slot[0])
        BY <1>1, <4>2, <4>3, <4>4 DEF Kept, In
      <4>5. CASE In(d, slot[2]) /\ LogIsNewer(d)
        <5>1. PICK e \in Calls : In(e, slot[0]) /\ After(e, d)
          BY <2>3, <4>5
        <5>2. NewerBetween(d)'
          BY <1>1, <2>2, <4>2, <5>1 DEF NewerBetween, In, After
        <5> QED BY <1>1, <4>2, <4>3, <4>5, <5>2 DEF Kept, In
      <4> QED BY <2>4, <3>1, <4>1, <4>4, <4>5 DEF Kept, In
    <3> QED BY <1>1, <3>1, <3>2, <3>3, <3>4
  <2> QED BY <1>1, <2>1, <2>4 DEF FiledAreKept, Written
<1> QED BY <1>1, <1>3, <1>9, <1>10, <1>11, <1>12, <1>13

(* The log is made again; what is in none of the files is newer than       *)
(* everything in them.                                                     *)
LEMMA OpenKeepsLog == ASSUME LogInv, NEW c \in Calls, OpenLog(c) PROVE LogInv'
<1> DEFINE f == IF slot[0] /= 0 THEN slot[0] ELSE Len(holds) + 1
           r == [call[c] EXCEPT !.at = "write", !.fd = f]
<1>1. /\ Becomes(c, r) /\ call[c].at = "open" /\ slot' = [slot EXCEPT ![0] = f]
      /\ holds' = IF f > Len(holds) THEN Append(holds, <<>>) ELSE holds
      /\ UNCHANGED <<home, order, appending, unfiled, crossed>>
  BY DEF OpenLog
<1>2. IsCall(r) /\ r.at = "write" /\ r.fd = f
  BY DEF LogInv, CallsOK, IsCall
<1>0. (slot[0] /= 0 => f = slot[0]) /\ (slot[0] = 0 => f = Len(holds) + 1)
  OBVIOUS
<1> HIDE DEF r, f
<1>3. CallsOK' /\ call'[c] = r /\ \A d \in Calls \ {c} : call'[d] = call[d]
  BY <1>1, <1>2, CallOf DEF LogInv
<1>4. /\ slot = [s \in 0..2 |-> slot[s]] /\ \A s \in 0..2 : slot[s] \in 0..Len(holds)
      /\ \A s, t \in 0..2 : slot[s] = slot[t] /\ slot[s] /= 0 => s = t
      /\ 0 \in 0..2 /\ 1 \in 0..2 /\ 2 \in 0..2 /\ Len(holds) \in Nat
      /\ holds \in Seq(Seq(Calls \union {"before"}))
  BY DEF LogInv, LogOK
<1>5. slot'[0] = f /\ slot'[1] = slot[1] /\ slot'[2] = slot[2] /\ slot' = [s \in 0..2 |-> slot'[s]]
  <2>1. slot' = [s \in 0..2 |-> IF s = 0 THEN f ELSE slot[s]]
    BY <1>1, <1>4
  <2> QED BY <2>1
<1>6. /\ holds' \in Seq(Seq(Calls \union {"before"})) /\ Len(holds') \in Nat /\ Len(holds') >= Len(holds)
      /\ \A g \in 1..Len(holds) : holds'[g] = holds[g]
      /\ \A g \in 1..Len(holds') : g \in 1..Len(holds) \/ holds'[g] = <<>>
      /\ f \in 1..Len(holds')
      /\ slot[0] = 0 => holds'[f] = <<>> /\ f = Len(holds) + 1
  <2>1. CASE slot[0] = 0
    BY <1>0, <1>1, <1>4, <2>1
  <2>2. CASE slot[0] /= 0
    BY <1>0, <1>1, <1>4, <2>2
  <2> QED BY <2>1, <2>2
<1>7. LogOK'
  <2>1. \A s \in 0..2 : s = 0 \/ s = 1 \/ s = 2
    OBVIOUS
  <2>2. \A s \in 0..2 : slot'[s] \in 0..Len(holds')
    BY <1>4, <1>5, <1>6, <2>1
  <2>3. \A s, t \in 0..2 : slot'[s] = slot'[t] /\ slot'[s] /= 0 => s = t
    BY <1>0, <1>4, <1>5, <2>1
  <2>4. ASSUME NEW d \in Calls, call'[d].at = "write" PROVE call'[d].fd \in 1..Len(holds')
    <3>1. CASE d = c
      BY <1>2, <1>3, <1>6, <3>1
    <3>2. CASE d /= c
      <4>1. call[d].fd \in 1..Len(holds)
        BY <1>3, <2>4, <3>2 DEF LogInv, LogOK
      <4> QED BY <1>3, <1>4, <1>6, <3>2, <4>1
    <3> QED BY <3>1, <3>2
  <2> QED BY <1>1, <1>5, <1>6, <2>2, <2>3, <2>4 DEF LogInv, LogOK
<1>8. \A e, g : g \in 1..Len(holds') /\ In(e, g)' => g \in 1..Len(holds) /\ In(e, g)
  BY <1>6 DEF In
<1>9. ASSUME NEW e, NEW g \in 0..Len(holds), In(e, g) PROVE In(e, g)'
  <2>1. g \in 1..Len(holds)
    BY <1>4, <1>9 DEF In
  <2>2. holds'[g] = holds[g]
    BY <1>6, <2>1
  <2> QED BY <1>9, <2>2 DEF In
<1> USE DEF LogInv
<1>10. WrittenOnce'
  BY <1>1, <1>3, <1>8 DEF WrittenOnce, Written
<1>11. OneAppends'
  BY <1>1, <1>2, <1>3 DEF OneAppends
<1>12. ASSUME ~crossed PROVE OneRotates'
  <2>1. \A d \in Calls : call'[d].at \in Rotating => d /= c /\ call[d].at \in Rotating
    BY <1>2, <1>3, IdleElsewhere
  <2>2. \A d \in Calls : call'[d].at \in Rotating => Full'
    <3> SUFFICES ASSUME NEW d \in Calls, call'[d].at \in Rotating PROVE Full'
      OBVIOUS
    <3>1. slot[0] /= 0 /\ Len(holds[slot[0]]) >= auditMaxFileSize
      BY <1>12, <2>1 DEF OneRotates, Full
    <3>2. slot'[0] = slot[0] /\ slot[0] \in 1..Len(holds)
      BY <1>0, <1>4, <1>5, <3>1
    <3>3. holds'[slot[0]] = holds[slot[0]]
      BY <1>6, <3>2
    <3> QED BY <3>1, <3>2, <3>3 DEF Full
  <2>3. \A d \in Calls : (call'[d].at = "shift" => slot'[2] = 0) /\ (call'[d].at = "rename" => slot'[1] = 0)
    BY <1>2, <1>3, <1>5, <1>12 DEF OneRotates
  <2> QED BY <1>3, <1>12, <2>1, <2>2, <2>3 DEF OneRotates
<1>13. ASSUME ~crossed PROVE FiledAreKept'
  <2>1. ASSUME NEW d \in Calls, Filed(d)' PROVE Written(d) /\ Kept(d)
    BY <1>1, <1>2, <1>3, <1>13, <2>1 DEF FiledAreKept, Filed
  <2>2. Renaming => Renaming'
    BY <1>1, <1>3 DEF Renaming
  <2>3. ASSUME NEW d \in Calls, Kept(d) PROVE Kept(d)'
    <3>1. LogIsNewer(d) => LogIsNewer(d)'
      <4>1. CASE slot[0] = 0
        BY <1>0, <1>5, <1>6, <4>1 DEF LogIsNewer
      <4>2. CASE slot[0] /= 0
        BY <1>0, <1>1, <1>4, <1>5, <1>6, <4>2 DEF LogIsNewer, After
      <4> QED BY <4>1, <4>2
    <3>2. NewerBetween(d) => NewerBetween(d)'
      BY <1>1, <1>4, <1>5, <1>9 DEF NewerBetween, After
    <3>3. TwoNewer(d) => TwoNewer(d)'
      BY <1>1 DEF TwoNewer, After
    <3>4. ASSUME NEW s \in 0..2, In(d, slot[s]) PROVE In(d, slot[s])'
      <4>1. slot[0] /= 0 => slot'[0] = slot[0]
        BY <1>0, <1>5
      <4>2. slot'[s] = slot[s]
        BY <1>5, <3>4, <4>1 DEF In
      <4>3. slot[s] \in 1..Len(holds)
        BY <1>4, <3>4 DEF In
      <4>4. holds'[slot[s]] = holds[slot[s]]
        BY <1>6, <4>3
      <4> QED BY <3>4, <4>2, <4>4 DEF In
    <3> QED BY <1>4, <2>2, <2>3, <3>1, <3>2, <3>3, <3>4 DEF Kept
  <2> QED BY <1>1, <2>1, <2>3 DEF FiledAreKept, Written
<1> QED BY <1>1, <1>3, <1>7, <1>10, <1>11, <1>12, <1>13

(* An event is newer than all that were written before it.                 *)
LEMMA WriteKeepsLog == ASSUME LogInv, NoName \notin Calls, NEW c \in Calls, WriteEvent(c) PROVE LogInv'
<1> DEFINE f == call[c].fd
           r == [call[c] EXCEPT !.at = "done", !.fd = 0]
<1>1. /\ Becomes(c, r) /\ call[c].at = "write"
      /\ holds' = [holds EXCEPT ![f] = Append(@, c)] /\ order' = Append(order, c)
      /\ appending' = [appending EXCEPT ![home[c]] = NoName]
      /\ unfiled' = (IF call[c].changed /\ f /= slot[0] THEN unfiled \union {c} ELSE unfiled)
      /\ UNCHANGED <<home, slot, crossed>>
  BY DEF WriteEvent
<1>2. IsCall(r) /\ r.at = "done" /\ r.changed = call[c].changed
  BY DEF LogInv, CallsOK, IsCall
<1>3. f \in 1..Len(holds)
  BY <1>1 DEF LogInv, LogOK
<1> HIDE DEF r, f
<1>4. CallsOK' /\ call'[c] = r /\ \A d \in Calls \ {c} : call'[d] = call[d]
  BY <1>1, <1>2, CallOf DEF LogInv
<1> USE DEF LogInv
<1>5. /\ slot = [s \in 0..2 |-> slot[s]] /\ \A s \in 0..2 : slot[s] \in 0..Len(holds)
      /\ \A s, t \in 0..2 : slot[s] = slot[t] /\ slot[s] /= 0 => s = t
      /\ 0 \in 0..2 /\ 1 \in 0..2 /\ 2 \in 0..2 /\ Len(holds) \in Nat
      /\ holds \in Seq(Seq(Calls \union {"before"})) /\ order \in Seq(Calls)
  BY DEF LogOK
<1>6. holds[f] \in Seq(Calls \union {"before"}) /\ DOMAIN holds = 1..Len(holds)
  BY <1>3, <1>5
<1>7. /\ holds' \in Seq(Seq(Calls \union {"before"})) /\ Len(holds') = Len(holds)
      /\ holds'[f] = Append(holds[f], c) /\ \A g \in 1..Len(holds) : g /= f => holds'[g] = holds[g]
  <2>1. Append(holds[f], c) \in Seq(Calls \union {"before"})
    BY <1>6
  <2> QED BY <1>1, <1>3, <1>5, <1>6, <2>1
<1>8. /\ DOMAIN Append(holds[f], c) = 1..(Len(holds[f]) + 1) /\ DOMAIN holds[f] = 1..Len(holds[f])
      /\ Len(holds[f]) \in Nat /\ Len(Append(holds[f], c)) = Len(holds[f]) + 1
      /\ \A i \in 1..Len(holds[f]) : Append(holds[f], c)[i] = holds[f][i]
      /\ Append(holds[f], c)[Len(holds[f]) + 1] = c
  BY <1>6
<1>80. /\ DOMAIN holds'[f] = 1..(Len(holds[f]) + 1) /\ f /= 0 /\ Len(holds[f]) + 1 \in DOMAIN holds'[f]
       /\ \A i \in DOMAIN holds[f] : i \in DOMAIN holds'[f] /\ holds'[f][i] = holds[f][i]
       /\ \A i \in DOMAIN holds'[f] : i \in DOMAIN holds[f] \/ holds'[f][i] = c
       /\ holds'[f][Len(holds[f]) + 1] = c
  BY <1>3, <1>7, <1>8
<1>9. /\ order' \in Seq(Calls) /\ DOMAIN order' = 1..(Len(order) + 1) /\ DOMAIN order = 1..Len(order)
      /\ Len(order) \in Nat /\ order'[Len(order) + 1] = c /\ \A i \in 1..Len(order) : order'[i] = order[i]
  BY <1>1, <1>5
<1>10. ASSUME NEW e, NEW g \in 1..Len(holds) PROVE In(e, g)' <=> (In(e, g) \/ (e = c /\ g = f))
  <2>1. CASE g = f
    BY <1>80, <2>1 DEF In
  <2>2. CASE g /= f
    BY <1>7, <2>2 DEF In
  <2> QED BY <2>1, <2>2
<1>11. ASSUME NEW d \in Calls PROVE Written(d)' <=> Written(d) \/ d = c
  BY <1>9 DEF Written
<1>12. \A d, e : After(d, e) => After(d, e)'
  BY <1>9 DEF After
<1>13. ASSUME NEW e, Written(e) PROVE After(c, e)'
  <2>1. PICK i \in 1..Len(order) : order[i] = e
    BY <1>9, <1>13 DEF Written
  <2>2. i < Len(order) + 1 /\ order'[i] = e /\ order'[Len(order) + 1] = c
        /\ i \in DOMAIN order' /\ Len(order) + 1 \in DOMAIN order'
    BY <1>9, <2>1
  <2> QED BY <2>2 DEF After
<1>14. appending' = [p \in Processes |-> IF p = home[c] THEN NoName ELSE appending[p]]
  BY <1>1 DEF LogOK
<1>15. LogOK'
  BY <1>1, <1>2, <1>4, <1>5, <1>7, <1>9, <1>14 DEF LogOK
<1>16. WrittenOnce'
  <2>1. ~Written(c)
    BY <1>1 DEF WrittenOnce
  <2>2. \A d \in Calls : Written(d)' => call'[d].at = "done"
    BY <1>2, <1>4, <1>11 DEF WrittenOnce
  <2>3. \A d \in Calls, g \in 1..Len(holds) : In(d, g)' => Written(d)'
    BY <1>10, <1>11 DEF WrittenOnce
  <2>4. \A d \in Calls, g, h \in 1..Len(holds) : In(d, g)' /\ In(d, h)' => g = h
    BY <1>10, <2>1 DEF WrittenOnce
  <2> QED BY <1>7, <2>2, <2>3, <2>4 DEF WrittenOnce
<1>17. OneAppends'
  <2> SUFFICES ASSUME NEW d \in Calls, call'[d].at \notin {"idle", "handler", "hook", "done"}
               PROVE appending'[home[d]] = d
    BY <1>1 DEF OneAppends
  <2>1. d /= c /\ call'[d] = call[d] /\ appending[home[d]] = d
    BY <1>2, <1>4 DEF OneAppends
  <2>2. appending[home[c]] = c /\ home[d] \in Processes
    BY <1>1 DEF OneAppends, LogOK
  <2> QED BY <1>14, <2>1, <2>2
<1>18. ASSUME ~crossed PROVE OneRotates'
  <2>1. \A d \in Calls : call'[d].at \in Rotating => d /= c /\ call[d].at \in Rotating
    BY <1>2, <1>4, IdleElsewhere
  <2>2. Full => Full'
    <3>1. CASE slot[0] = f
      BY <1>1, <1>3, <1>7, <1>8, <3>1 DEF Full, auditMaxFileSize
    <3>2. CASE slot[0] /= f
      BY <1>1, <1>5, <1>7, <3>2 DEF Full
    <3> QED BY <3>1, <3>2
  <2> QED BY <1>1, <1>2, <1>4, <1>18, <2>1, <2>2 DEF OneRotates
<1>19. ASSUME ~crossed PROVE FiledAreKept'
  <2>1. Renaming => Renaming'
    BY <1>1, <1>4 DEF Renaming
  <2>2. ASSUME NEW d \in Calls, Written(d), Kept(d) PROVE Kept(d)'
    <3>1. LogIsNewer(d) => LogIsNewer(d)'
      <4>1. CASE slot[0] = f
        <5>1. After(c, d)'
          BY <1>13, <2>2
        <5> QED BY <1>1, <1>7, <1>8, <1>12, <4>1, <5>1 DEF LogIsNewer
      <4>2. CASE slot[0] /= f
        BY <1>1, <1>5, <1>7, <1>12, <4>2 DEF LogIsNewer
      <4> QED BY <4>1, <4>2
    <3>2. \A e, s : s \in 0..2 /\ In(e, slot[s]) => In(e, slot[s])'
      <4> SUFFICES ASSUME NEW e, NEW s \in 0..2, In(e, slot[s]) PROVE In(e, slot[s])'
        OBVIOUS
      <4>1. slot[s] \in 1..Len(holds) /\ slot'[s] = slot[s]
        BY <1>1, <1>5 DEF In
      <4>2. CASE slot[s] = f
        BY <1>80, <4>1, <4>2 DEF In
      <4>3. CASE slot[s] /= f
        BY <1>7, <4>1, <4>3 DEF In
      <4> QED BY <4>2, <4>3
    <3>3. NewerBetween(d) => NewerBetween(d)'
      BY <1>1, <1>5, <1>12, <3>2 DEF NewerBetween
    <3>4. TwoNewer(d) => TwoNewer(d)'
      BY <1>12 DEF TwoNewer
    <3> QED BY <1>5, <2>1, <2>2, <3>1, <3>2, <3>3, <3>4 DEF Kept
  <2>3. ASSUME Filed(c)' PROVE Kept(c)'
    <3>1. f = slot[0]
      BY <1>1, <1>2, <1>4, <2>3 DEF Filed
    <3>2. In(c, slot[0])'
      BY <1>1, <1>80, <3>1 DEF In
    <3> QED BY <3>2 DEF Kept
  <2>4. ASSUME NEW d \in Calls \ {c}, Filed(d)' PROVE Filed(d)
    BY <1>1, <1>4, <2>4 DEF Filed
  <2> SUFFICES ASSUME NEW d \in Calls, Filed(d)' PROVE Written(d)' /\ Kept(d)'
    BY DEF FiledAreKept
  <2>5. CASE d = c
    BY <1>11, <2>3, <2>5
  <2>6. CASE d /= c
    <3>1. Written(d) /\ Kept(d)
      BY <1>19, <2>4, <2>6 DEF FiledAreKept
    <3> QED BY <1>11, <2>2, <3>1
  <2> QED BY <2>5, <2>6
<1> QED BY <1>1, <1>4, <1>15, <1>16, <1>17, <1>18, <1>19

LEMMA DeathKeepsLog == ASSUME LogInv, NEW p \in Processes, ProcessDies(p) PROVE LogInv'
<1> DEFINE lost == {c \in Calls : home[c] = p /\ call[c].at \notin {"idle", "done"}}
           gone(c) == [Idle EXCEPT !.at = "done", !.changed = call[c].changed]
<1>1. /\ call' = [c \in Calls |-> IF c \in lost THEN gone(c) ELSE call[c]]
      /\ unfiled' = unfiled \union {c \in lost : call[c].changed}
      /\ appending' = [appending EXCEPT ![p] = NoName]
      /\ crossed' = (crossed \/ \E c \in lost : call[c].at = "rename")
      /\ UNCHANGED <<home, order, slot, holds>>
  BY DEF ProcessDies
<1>2. \A c : IsCall(gone(c)) /\ gone(c).at = "done" /\ gone(c).changed = call[c].changed
  BY IdleIsCall DEF IsCall
<1> HIDE DEF gone
<1>3. \A c \in Calls : call'[c] = IF c \in lost THEN gone(c) ELSE call[c]
  BY <1>1
<1>4. CallsOK'
  BY <1>1, <1>2, <1>3 DEF LogInv, CallsOK
<1>5. appending' = [q \in Processes |-> IF q = p THEN NoName ELSE appending[q]]
  BY <1>1 DEF LogInv, LogOK
<1>6. LogOK' /\ WrittenOnce'
  BY <1>1, <1>2, <1>3, <1>4, <1>5, LogStays
<1> USE DEF LogInv
<1>7. OneAppends'
  BY <1>1, <1>2, <1>3, <1>5 DEF OneAppends, LogOK
<1>8. ASSUME ~crossed' PROVE ~crossed /\ OneRotates'
  <2>1. ~crossed
    BY <1>1, <1>8
  <2>2. \A c \in Calls : call'[c].at \in Rotating => call'[c] = call[c]
    BY <1>2, <1>3, IdleElsewhere
  <2>3. Full' <=> Full
    BY <1>1 DEF Full
  <2> QED BY <1>1, <2>1, <2>2, <2>3, IdleElsewhere DEF OneRotates
<1>9. ASSUME ~crossed' PROVE FiledAreKept'
  <2>1. Renaming => Renaming'
    BY <1>1, <1>3, <1>9 DEF Renaming
  <2>2. ASSUME NEW d \in Calls, Filed(d)' PROVE Filed(d)
    BY <1>1, <1>2, <1>3, <2>2 DEF Filed
  <2> QED BY <1>1, <1>8, <1>9, <2>1, <2>2, KeptStays DEF FiledAreKept
<1> QED BY <1>4, <1>6, <1>7, <1>8, <1>9

LEMMA TwoAreNewer ==
  ASSUME LogOK, NEW c \in Calls, TwoNewer(c) PROVE Newer(c) >= 2 * auditMaxFileSize
<1> DEFINE newer == {d \in Calls : \E i, j \in DOMAIN order : i < j /\ order[i] = c /\ order[j] = d}
<1>1. PICK d \in Calls, e \in Calls : d /= e /\ After(d, c) /\ After(e, c)
  BY DEF TwoNewer
<1>2. {d, e} \subseteq newer
  BY <1>1 DEF After
<1>3. IsFiniteSet(newer)
  <2> DEFINE written == {order[j] : j \in 1..Len(order)}
  <2>1. IsFiniteSet(1..Len(order))
    <3>1. Len(order) \in Int /\ 1 \in Int
      BY DEF LogOK
    <3> QED BY <3>1, FS_Interval
  <2>2. IsFiniteSet(written)
    <3>1. order \in [1..Len(order) -> written] /\ \A x \in written : \E j \in 1..Len(order) : order[j] = x
      BY DEF LogOK
    <3>2. order \in Surjection(1..Len(order), written)
      BY <3>1 DEF Surjection
    <3> QED BY <2>1, <3>2, FS_Surjection
  <2>3. newer \subseteq written
    <3>1. DOMAIN order = 1..Len(order)
      BY DEF LogOK
    <3> QED BY <3>1
  <2> QED BY <2>2, <2>3, FS_Subset
<1>4. Cardinality({d, e}) = 2
  <2>1. IsFiniteSet({d}) /\ Cardinality({d}) = 1
    BY FS_Singleton
  <2>2. Cardinality({d} \union {e}) = 2
    BY <1>1, <2>1, FS_AddElement
  <2>3. {d, e} = {d} \union {e}
    OBVIOUS
  <2> QED BY <2>2, <2>3
<1>5. Cardinality({d, e}) <= Cardinality(newer) /\ Cardinality(newer) \in Nat
  BY <1>2, <1>3, FS_Subset, FS_CardinalityType
<1> QED BY <1>4, <1>5 DEF Newer, auditMaxFileSize

(* A change whose call has ended is on record until as many newer events   *)
(* as fill two files, but for the known ways of losing it (audit_store.go  *)
(* Append), for any number of calls, processes and deaths.                 *)
THEOREM ChangesStayOnRecord == ASSUME Names \intersect Calls = {} PROVE ToolSpec => []ChangesAreOnRecord
<1>0. NoName \notin Calls /\ "before" \notin Calls
  BY DEF Names
<1>1. ToolInit => LogInv
  <2> SUFFICES ASSUME ToolInit PROVE LogInv
    OBVIOUS
  <2>1. /\ home \in [Calls -> Processes] /\ call = [c \in Calls |-> Idle] /\ order = <<>>
        /\ slot = [s \in 0..2 |-> s + 1] /\ holds = [f \in 1..3 |-> <<"before">>]
        /\ appending = [p \in Processes |-> NoName]
    BY DEF ToolInit
  <2>2. /\ \A c \in Calls : call[c] = Idle
        /\ Idle.at = "idle" /\ IsCall(Idle)
    BY <2>1, IdleIsCall
  <2>3. holds \in Seq(Seq(Calls \union {"before"})) /\ Len(holds) = 3 /\ order \in Seq(Calls)
    BY <2>1
  <2>4. CallsOK
    BY <2>1, <2>2 DEF CallsOK
  <2>5. LogOK
    BY <2>1, <2>2, <2>3 DEF LogOK
  <2>6. \A c \in Calls, f \in 1..3 : ~In(c, f)
    <3>1. \A f \in 1..3 : holds[f] = <<"before">>
      BY <2>1
    <3> QED BY <1>0, <3>1 DEF In
  <2>7. WrittenOnce /\ OneAppends
    BY <2>1, <2>2, <2>3, <2>6 DEF WrittenOnce, OneAppends, Written
  <2>8. OneRotates /\ FiledAreKept
    BY <2>2, IdleElsewhere DEF OneRotates, FiledAreKept, Filed
  <2> QED BY <2>4, <2>5, <2>7, <2>8 DEF LogInv
<1>2. LogInv /\ [ToolNext]_toolVars => LogInv'
  <2> SUFFICES ASSUME LogInv, [ToolNext]_toolVars PROVE LogInv'
    OBVIOUS
  <2>1. CASE SetPreset \/ UNCHANGED toolVars
    <3>1. UNCHANGED <<home, call, order, slot, holds, appending, unfiled, crossed>>
      BY <2>1 DEF SetPreset, toolVars
    <3>2. CallsOK' /\ LogOK'
      BY <3>1 DEF LogInv, CallsOK, LogOK
    <3>3. WrittenOnce' /\ OneAppends'
      BY <3>1, <3>2, LogStays DEF LogInv, LogOK, OneAppends
    <3>4. ~crossed => OneRotates'
      BY <3>1 DEF LogInv, OneRotates, Full
    <3>5. ~crossed => FiledAreKept'
      <4>1. Renaming => Renaming'
        BY <3>1 DEF Renaming
      <4>2. \A d \in Calls : Filed(d)' => Filed(d)
        BY <3>1 DEF Filed
      <4> QED BY <3>1, <4>1, <4>2, KeptStays DEF LogInv, FiledAreKept
    <3> QED BY <3>1, <3>2, <3>3, <3>4, <3>5 DEF LogInv
  <2>2. CASE ToolNext
    BY <1>0, <2>1, <2>2, HandlingKeepsLog, UnfiledKeepsLog, AfterCallKeepsLog, RotationKeepsLog, OpenKeepsLog,
       WriteKeepsLog, DeathKeepsLog DEF ToolNext
  <2> QED BY <2>1, <2>2
<1>3. LogInv => ChangesAreOnRecord
  <2> SUFFICES ASSUME LogInv, NEW c \in Calls, call[c].at = "done" /\ call[c].changed, c \notin unfiled, ~crossed
               PROVE  OnRecord(c) \/ Newer(c) >= 2 * auditMaxFileSize
    BY DEF ChangesAreOnRecord
  <2>1. Kept(c)
    BY DEF LogInv, FiledAreKept, Filed
  <2>2. CASE TwoNewer(c)
    BY <2>2, TwoAreNewer DEF LogInv
  <2>3. CASE In(c, slot[0]) \/ In(c, slot[1]) \/ In(c, slot[2])
    BY <2>3 DEF In, OnRecord
  <2> QED BY <2>1, <2>2, <2>3 DEF Kept
<1> QED BY <1>1, <1>2, <1>3, PTL DEF ToolSpec
=================================================================================
