----------------------------- MODULE FfiClient -----------------------------
(***************************************************************************)
(* The client as a library: foreign threads call the C API of ffi.rs.      *)
(* Behaviours start after openaws_init has returned.  openaws_get_state,   *)
(* openaws_get_last_log and openaws_free_string change nothing modelled    *)
(* here.  A call that returns false before it touches the session          *)
(* (missing file, no instance) is a stuttering step.                       *)
(***************************************************************************)
EXTENDS Session

VARIABLES
  calls,        \* number of API calls so far
  op            \* the API function each caller is in

ffiVars == <<vars, calls, op>>

FfiInit ==
  /\ SessionInit
  /\ calls = 0
  /\ op = [c \in Callers |-> "none"]

-----------------------------------------------------------------------------
BeginCall(c, name, target) ==
  /\ up /\ appRoot
  /\ calls < MaxCalls /\ calls' = calls + 1
  /\ op' = [op EXCEPT ![c] = name]
  /\ Goto(c, "idle", target)
  /\ UNCHANGED <<processVars, state, mgr, appLock, slotVars,
                 authVars, postVars, consumerVars, connVars>>

openaws_connect(c)    == BeginCall(c, "connect", "resolve")
openaws_disconnect(c) == BeginCall(c, "disconnect", "lockDisconnect")
openaws_cleanup(c)    == BeginCall(c, "cleanup", "lockForce")

\* openaws_cleanup empties APP_INSTANCE before its guards are dropped.
ApiUnlock(c) ==
  /\ up
  /\ Goto(c, "returned", "leaving")
  /\ mgr' = NoThread
  /\ appRoot' = (appRoot /\ op[c] # "cleanup")
  /\ UNCHANGED <<up, addresses, poisoned, state, appLock, slotVars, authVars, postVars,
                 consumerVars, connVars, calls, op>>

\* The call's own Rc<VpnApp> is dropped last.
ApiReturn(c) ==
  /\ up
  /\ Goto(c, "leaving", "idle")
  /\ op' = [op EXCEPT ![c] = "none"]
  /\ UNCHANGED <<processVars, state, mgr, appLock, slotVars, authVars, postVars,
                 consumerVars, connVars, calls>>

CallerStep(c) == \/ (Resolve(c) \/ LockManager(c)) /\ UNCHANGED <<calls, op>>
                 \/ ApiUnlock(c) \/ ApiReturn(c)

FfiNext ==
  \/ \E c \in Callers :
       \/ openaws_connect(c) \/ openaws_disconnect(c) \/ openaws_cleanup(c)
       \/ CallerStep(c)
  \/ SessionNext /\ UNCHANGED <<calls, op>>

FfiSpec == FfiInit /\ [][FfiNext]_ffiVars

(* Callers need not call, browsers need not post and processes need not    *)
(* exit; what is under way goes on.                                        *)
FfiFairSpec ==
  /\ FfiSpec
  /\ SessionFairness
  /\ \A c \in Callers : WF_ffiVars(CallerStep(c))

-----------------------------------------------------------------------------
(* Properties.                                                             *)

\* The session's types, and the API calls: a caller is in a function exactly
\* while it is not idle.
FfiTypeOK ==
  /\ TypeOK
  /\ calls \in 0 .. MaxCalls
  /\ op \in [Callers -> {"none", "connect", "disconnect", "cleanup"}]
  /\ \A c \in Callers : op[c] = "none" <=> pc[c] = "idle"

\* Every call of the C API returns (or a panic ends the process), whatever the
\* other callers, the tasks and the consumer do meanwhile: a connect that finds
\* no address is the only thing that ever blocks the API.
CallsReturn ==
  \A c \in Callers : pc[c] # "idle" ~> pc[c] = "idle" \/ ~up \/ Wedged

\* What connect says when a lookup finds no address: the session is back to
\* Disconnected.
FailedLookupReported ==
  \A c \in Callers : pc[c] = "connectFail" ~> state = "Disconnected"

=============================================================================
