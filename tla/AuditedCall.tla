------------------------------ MODULE AuditedCall ------------------------------
(***************************************************************************)
(* The calls of a wrapped memory tool, on top of the store of AuditChain:  *)
(* Auditor.recordCommand (src/auditor.ts) and the runAudited functions of  *)
(* the adapters, which all have its shape: record the intent, run the      *)
(* host's handler, record the result.                                      *)
(*                                                                         *)
(* A host process runs many calls at once, on one thread: a call keeps the *)
(* thread from the moment it records until its next await, which is the    *)
(* handler. Every record is a whole write path of AuditChain, with all its *)
(* ways to fail; a record that throws unwinds its call.                    *)
(*                                                                         *)
(* The handlers are the hosts' and external: one changes the memory store  *)
(* at some moment while it runs, and then returns or throws.               *)
(***************************************************************************)
EXTENDS ChainVerify

CONSTANTS Owner,    \* the host process that makes each call
          NoCall

ASSUME OwnerAssumption  == Owner \in [Calls -> {p \in Proc : Kind[p] = "sdk"}]
ASSUME NoCallAssumption == NoCall \notin Calls
ASSUME RowAssumption    == {"intent", "result"} \subseteq Phases

VARIABLES stage,    \* how far each call has come
          turn,     \* the call a process is recording for, if any
          effects   \* the calls whose change reached the memory store

callVars == <<stage, turn, effects>>
allVars  == <<events, meta, segments, archives, head, lock, pc, draft, seen,
              path, target, sealer, result, faults, stage, turn, effects>>

\* recording the intent, inside the handler, recording one of three results
Recording == {"rejected", "returning", "throwing"}
Open      == {"intent", "running"} \cup Recording
Final     == {"returned", "threw", "lost"}

IntentRow(c) == [call |-> c, phase |-> "intent"]
ResultRow(c) == [call |-> c, phase |-> "result"]

Stage(c, s) == stage' = [stage EXCEPT ![c] = s]
Turn(c, t)  == turn' = [turn EXCEPT ![Owner[c]] = t]
Recorded(c) == turn[Owner[c]] = c /\ pc[Owner[c]] = "idle"
Idle(c)     == turn[Owner[c]] = NoCall /\ pc[Owner[c]] = "idle"

CallInit == /\ Init
            /\ stage = [c \in Calls |-> "new"]
            /\ turn = [p \in Proc |-> NoCall]
            /\ effects = {}

\* recordCommand up to its first record.
Invoke(c) ==
    /\ stage[c] = "new" /\ Idle(c)
    /\ Begin(Owner[c], IntentRow(c))
    /\ Stage(c, "intent") /\ Turn(c, c)
    /\ UNCHANGED effects

\* Mutant: an audit failure is only logged.
IntentRefusedIgnored(c) ==
    /\ stage[c] = "intent" /\ Recorded(c) /\ result[Owner[c]] # "ok"
    /\ Stage(c, "running") /\ Turn(c, NoCall)
    /\ UNCHANGED <<vars, effects>>

\* The intent could not be recorded: the error reaches the caller.
IntentRefused(c) ==
    /\ stage[c] = "intent" /\ Recorded(c) /\ result[Owner[c]] # "ok"
    /\ Stage(c, "threw") /\ Turn(c, NoCall)
    /\ UNCHANGED <<vars, effects>>

\* Identity, path or handler turn out to be invalid: a result row says so and
\* the handler is not called.
Reject(c) ==
    /\ stage[c] = "intent" /\ Recorded(c) /\ result[Owner[c]] = "ok"
    /\ Begin(Owner[c], ResultRow(c))
    /\ Stage(c, "rejected")
    /\ UNCHANGED <<turn, effects>>

CallHandler(c) ==
    /\ stage[c] = "intent" /\ Recorded(c) /\ result[Owner[c]] = "ok"
    /\ Stage(c, "running") /\ Turn(c, NoCall)
    /\ UNCHANGED <<vars, effects>>

\* The handler changes the memory store.
Mutate(c) ==
    /\ stage[c] = "running" /\ c \notin effects
    /\ effects' = effects \cup {c}
    /\ UNCHANGED <<vars, stage, turn>>

\* The await is over; a redactor that fails only changes the row's outcome.
HandlerReturns(c) ==
    /\ stage[c] = "running" /\ c \in effects /\ Idle(c)
    /\ Begin(Owner[c], ResultRow(c))
    /\ Stage(c, "returning") /\ Turn(c, c)
    /\ UNCHANGED effects

HandlerThrows(c) ==
    /\ stage[c] = "running" /\ Idle(c)
    /\ Begin(Owner[c], ResultRow(c))
    /\ Stage(c, "throwing") /\ Turn(c, c)
    /\ UNCHANGED effects

\* Mutant: a failing result row is swallowed.
ResultRecordedIgnored(c) ==
    /\ stage[c] \in Recording /\ Recorded(c)
    /\ Stage(c, IF stage[c] = "returning" THEN "returned" ELSE "threw")
    /\ Turn(c, NoCall)
    /\ UNCHANGED <<vars, effects>>
\* Mutant: nothing handles a result row that fails.
ResultRecordedOnlyOk(c) ==
    /\ stage[c] \in Recording /\ Recorded(c) /\ result[Owner[c]] = "ok"
    /\ Stage(c, IF stage[c] = "returning" THEN "returned" ELSE "threw")
    /\ Turn(c, NoCall)
    /\ UNCHANGED <<vars, effects>>
\* The caller gets the handler's result only when its row was recorded; an
\* error of record replaces whatever the handler did.
ResultRecorded(c) ==
    /\ stage[c] \in Recording /\ Recorded(c)
    /\ Stage(c, IF stage[c] = "returning" /\ result[Owner[c]] = "ok"
                THEN "returned" ELSE "threw")
    /\ Turn(c, NoCall)
    /\ UNCHANGED <<vars, effects>>

\* A host dies, and every call it had open with it.
HostCrash(p) ==
    /\ Crash(p)
    /\ stage' = [c \in Calls |-> IF Owner[c] = p /\ stage[c] \in Open
                                 THEN "lost" ELSE stage[c]]
    /\ turn' = [turn EXCEPT ![p] = NoCall]
    /\ UNCHANGED effects

\* The write path of AuditChain, and what else goes on in the store.
StoreStep(p) ==
    /\ \/ Step(p)
       \/ turn[p] = NoCall /\ RotateActiveSegment(p)
       \/ BootstrapFails(p) \/ RotationFails(p) \/ Busy(p) \/ IoError(p)
    /\ UNCHANGED callVars

CallStep(c) == IntentRefused(c) \/ Reject(c) \/ CallHandler(c) \/ ResultRecorded(c)

CallNext == \/ \E c \in Calls : \/ Invoke(c) \/ CallStep(c) \/ Mutate(c)
                                \/ HandlerReturns(c) \/ HandlerThrows(c)
            \/ \E p \in Proc : StoreStep(p) \/ HostCrash(p)

CallSpec == CallInit /\ [][CallNext]_allVars
                     /\ \A p \in Proc : WF_allVars(Step(p) /\ UNCHANGED callVars)
                     /\ \A c \in Calls : WF_allVars(CallStep(c))

-------------------------------------------------------------------------------
InStore(d) == \E r \in AllRows : r.draft = d

(* "If psy-core cannot write the intent row, the wrapped handler does not   *)
(* run": no change reaches the memory store without a committed intent,     *)
(* whichever way a record failed (recordCommand).                           *)
FailClosed == \A c \in effects : InStore(IntentRow(c))

(* The handler of a sealed host starts only when the head covers its        *)
(* intent: cutting off the tail of the store cannot hide a call that ran.   *)
RunsUnderSeal ==
    [][\A c \in Calls : stage[c] = "intent" /\ stage'[c] = "running" =>
          \/ sealer[Owner[c]] = "null"
          \/ \E r \in AllRows : r.draft = IntentRow(c) /\ r.seq <= head.seq]_allVars

(* A caller that saw success has an intent and a later result in the store, *)
(* with other calls of the process in between, rotations included.          *)
ReturnedIsRecorded ==
    \A c \in Calls : stage[c] = "returned" =>
        \E r, s \in AllRows : /\ r.draft = IntentRow(c) /\ s.draft = ResultRow(c)
                              /\ r.seq < s.seq

Ended(c) == stage[c] \in {"new"} \cup Final

\* Calls that changed the memory store, ended, and left no result row.
HalfRecorded == {c \in effects : Ended(c) /\ ~InStore(ResultRow(c))}

(* "If the result row cannot be written after the handler runs, verification *)
(* can still flag the orphaned intent": psy verify --all does.               *)
VerifyAllFlagsOrphans ==
    Quiet /\ HalfRecorded # {} => "orphaned_intent" \in VerifyIssues(TRUE)

(* A host's one thread never hangs in the audit code: the call that has it  *)
(* goes on to its handler or ends, and gives it back.                       *)
CallsGoOn ==
    \A p \in {Owner[c] : c \in Calls} : turn[p] # NoCall ~> turn[p] = NoCall
===============================================================================
