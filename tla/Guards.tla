------------------------------- MODULE Guards -------------------------------
(***************************************************************************)
(* The two in-process guards of DARM Guard, called by several threads of   *)
(* the agent's process: KernelGuard (kernel.py), which asks the kernel of  *)
(* module Kernel, and DARMGuard (guard.py, session.py, checker.py), which  *)
(* compares tool names and follows the scope of a session. A tool wrapped  *)
(* by guard_tools runs when its check admits.                              *)
(*                                                                         *)
(* Covered: OBSERVE and GOVERN, the order in which check decides, records  *)
(* and returns, the reads and writes of the session between which another  *)
(* thread may run, an expanded credential and one that expires.            *)
(*                                                                         *)
(* Abstracted: a deployment uses one of the guards; alerts and callbacks   *)
(* are left out; a process keeps its mode. M_ operators are mutated forms. *)
(***************************************************************************)
EXTENDS Kernel, SequencesExt

CONSTANTS
    Requested,      \* the tools each call asks DARMGuard for
    Authorized,     \* Policy.authorized_tools
    InitialTools,   \* Credential.tools
    Expansion,      \* the tools update_credential may add
    MaxAtOnce       \* bound: session checks in flight

ASSUME GuardsAssumption ==
    /\ DOMAIN Requested = Call /\ \A c \in Call : IsFiniteSet(Requested[c])
    /\ MaxAtOnce \in Nat \ {0}

VARIABLES
    guard,      \* "kernel" (KernelGuard) or "session" (DARMGuard)
    mode,       \* "observe" or "govern"
    result,     \* what check returned to the caller
    log,        \* KernelGuard.log: each call with the decision on it
    at,         \* where a check of DARMGuard is
    judged,     \* its TransferResult
    widened,    \* its new_scope
    scope,      \* Session.cumulative_scope
    events,     \* Session.log
    lines,      \* the lines of the log file: the call that wrote and the call it names
    tools,      \* Session.credential.tools
    fresh,      \* the credential has not expired
    serial      \* history: no check has overlapped another one or an expansion

session == <<at, judged, widened, scope, events, lines, tools, fresh, serial>>
gvars   == <<vars, guard, mode, result, log, session>>

Drift   == {"within", "drift", "violation"}
Judged  == [admitted : BOOLEAN, drift : Drift]

GTypeOK ==
    /\ TypeOK
    /\ guard \in {"kernel", "session"} /\ mode \in {"observe", "govern"}
    /\ result \in [Call -> {"none", "admit", "reject"}]
    /\ log \subseteq Call \X {"admit", "reject"}
    /\ at \in [Call -> {"idle", "judged", "read", "widened", "compared", "logged", "done"}]
    /\ judged \in [Call -> Judged] /\ serial \in BOOLEAN /\ fresh \in BOOLEAN
    /\ \A i \in DOMAIN events : events[i].call \in Call

GInit ==
    /\ Init
    /\ guard \in {"kernel", "session"} /\ mode \in {"observe", "govern"}
    /\ result = [c \in Call |-> "none"] /\ log = {}
    /\ at = [c \in Call |-> "idle"] /\ widened = [c \in Call |-> {}]
    /\ judged = [c \in Call |-> [admitted |-> FALSE, drift |-> "within"]]
    /\ scope = {} /\ events = <<>> /\ lines = <<>>
    /\ tools = InitialTools /\ fresh = TRUE /\ serial = TRUE

-----------------------------------------------------------------------------
(* KernelGuard.check: decide, then the log, then the mode.                 *)

\* OBSERVE lets everything through
Returned(a) == IF mode = "observe" THEN "admit" ELSE a

\* the log keeps the kernel's decision
Noted(c) == answer[c]

KernelCheckReturns(c) ==
    /\ guard = "kernel" /\ answer[c] # "none" /\ result[c] = "none"
    /\ log' = log \cup {<<c, Noted(c)>>}
    /\ result' = [result EXCEPT ![c] = Returned(answer[c])]
    /\ UNCHANGED <<vars, guard, mode, session>>

-----------------------------------------------------------------------------
(* DARMGuard.check and Session.check.                                      *)

InFlight == {c \in Call : at[c] \notin {"idle", "done"}}

SessionGoes(c, from, to) ==
    /\ guard = "session" /\ at[c] = from /\ at' = [at EXCEPT ![c] = to]
    /\ UNCHANGED <<vars, guard, mode, log>>

\* check_transfer: a tool that neither policy nor credential names, or an expired credential
Unknown(c) == Requested[c] \ (Authorized \cup tools)
Failing(c) == ~fresh \/ Unknown(c) # {}
Transfer(c) ==
    [admitted |-> ~Failing(c),
     drift    |-> IF Requested[c] \subseteq tools THEN "within"
                  ELSE IF Failing(c) THEN "violation" ELSE "drift"]

Judge(c) ==
    /\ SessionGoes(c, "idle", "judged") /\ Cardinality(InFlight) < MaxAtOnce
    /\ judged' = [judged EXCEPT ![c] = Transfer(c)]
    /\ serial' = (serial /\ InFlight = {})
    /\ UNCHANGED <<result, widened, scope, events, lines, tools, fresh>>

\* every requested tool widens the scope, also that of a refused call
M_OnlyAdmitted(c) == IF judged[c].admitted THEN scope \cup Requested[c] ELSE scope
NewScope(c) == scope \cup Requested[c]

ReadScope(c) ==
    /\ SessionGoes(c, "judged", "read")
    /\ widened' = [widened EXCEPT ![c] = NewScope(c)]
    /\ UNCHANGED <<result, judged, scope, events, lines, tools, fresh, serial>>

WriteScope(c) ==
    /\ SessionGoes(c, "read", "widened")
    /\ scope' = widened[c]
    /\ UNCHANGED <<result, judged, widened, events, lines, tools, fresh, serial>>

\* a call within its credential is drift when the session is not
Compare(c) ==
    /\ SessionGoes(c, "widened", "compared")
    /\ judged' = IF scope \subseteq tools \/ judged[c].drift # "within" THEN judged
                 ELSE [judged EXCEPT ![c].drift = "drift"]
    /\ UNCHANGED <<result, widened, scope, events, lines, tools, fresh, serial>>

AppendEvent(c) ==
    /\ SessionGoes(c, "compared", "logged")
    /\ events' = Append(events, [call |-> c, scope |-> scope, result |-> judged[c], tools |-> tools])
    /\ UNCHANGED <<result, judged, widened, scope, lines, tools, fresh, serial>>

\* _log_event writes the session's last event; then check returns
SessionCheckReturns(c) ==
    /\ SessionGoes(c, "logged", "done")
    /\ lines' = Append(lines, [by |-> c, names |-> Last(events).call])
    /\ result' = [result EXCEPT ![c] = Returned(IF judged[c].admitted THEN "admit" ELSE "reject")]
    /\ UNCHANGED <<judged, widened, scope, events, tools, fresh, serial>>

UpdateCredential(t) ==
    /\ guard = "session" /\ t \notin tools /\ tools' = tools \cup {t}
    /\ serial' = (serial /\ InFlight = {})
    /\ UNCHANGED <<vars, guard, mode, result, log, at, judged, widened, scope, events, lines, fresh>>

\* Credential.is_expired
Expire ==
    /\ guard = "session" /\ fresh /\ fresh' = FALSE
    /\ UNCHANGED <<vars, guard, mode, result, log, at, judged, widened, scope, events, lines,
                   tools, serial>>

SessionCheck(c) == \/ Judge(c) \/ ReadScope(c) \/ WriteScope(c) \/ Compare(c)
                   \/ AppendEvent(c) \/ SessionCheckReturns(c)

GNext ==
    \/ guard = "kernel" /\ Next /\ UNCHANGED <<guard, mode, result, log, session>>
    \/ \E c \in Call : KernelCheckReturns(c) \/ SessionCheck(c)
    \/ (\E t \in Expansion : UpdateCredential(t)) \/ Expire

GSpec == GInit /\ [][GNext]_gvars
GFairSpec == /\ GSpec
             /\ \A c \in Call : WF_gvars(/\ guard = "kernel" /\ Decides(c)
                                         /\ UNCHANGED <<guard, mode, result, log, session>>)

-----------------------------------------------------------------------------
(* Properties.                                                             *)

\* whether the guard's own record of a returned check says it was admitted
OnRecord(c) == IF guard = "kernel" THEN <<c, "admit">> \in log
               ELSE \E i \in DOMAIN events : events[i].call = c /\ events[i].result.admitted

\* Whatever threads, kernel failures and modes do: a record that says admitted is the
\* kernel's own answer to that call, in GOVERN a tool runs exactly when its record says
\* so, and OBSERVE lets it run and still keeps the refusal on record.
DecidedAsRecorded ==
    /\ AdmitsAreOwn
    /\ \A c \in Call :
        /\ guard = "kernel" /\ OnRecord(c) => c \in Admissible
        /\ result[c] # "none" /\ mode = "govern" => (result[c] = "admit" <=> OnRecord(c))

SoFar(i) == UNION {Requested[events[j].call] : j \in 1 .. i}

\* While checks do not overlap, the session's drift is exact over any sequence of calls,
\* refusals, expansions and expiry: an event says "within" exactly when nothing asked
\* for so far is outside the credential, and the scope is what was asked for.
DriftIsExact ==
    serial => \A i \in DOMAIN events :
        /\ events[i].result.drift = "within" <=> SoFar(i) \subseteq events[i].tools
        /\ events[i].scope = SoFar(i)

-----------------------------------------------------------------------------
(* What the documents say and the code does not do: each is refuted.       *)

\* docs/legacy-api.md:119: "Tracks cumulative scope across a session, within one process."
ScopeIsCumulative == InFlight = {} => scope = SoFar(Len(events))

\* guard.py:66: the line of a check is written from "self.session.log[-1]".
LinesNameTheirCall == \A i \in DOMAIN lines : lines[i].by = lines[i].names

=============================================================================
