------------------------------- MODULE Kernel -------------------------------
(***************************************************************************)
(* KernelClient in darm_guard/kernel.py: calls of several threads that     *)
(* share one kernel process over a pair of pipes, one line a request and   *)
(* one line a reply, each reply naming its request by a nonce (K7).        *)
(*                                                                         *)
(* Covered: the client's lock and what happens after it is released, the   *)
(* text buffer between the pipe and readline, the timeout, the restart of  *)
(* the process, one that cannot be started, and a kernel that is slow,     *)
(* dies, stops reading, repeats a reply, writes something else, or stops   *)
(* in the middle of a line.                                                *)
(*                                                                         *)
(* Abstracted: a request is its nonce, and the kernel's decision on it is  *)
(* whether it is Admissible; the kernel is external. M_ operators are      *)
(* mutated forms of the one that follows.                                  *)
(***************************************************************************)
EXTENDS Integers, Sequences, FiniteSets, FiniteSetsExt

CONSTANTS
    Call,           \* calls of decide, each with a fresh nonce
    Admissible,     \* those the kernel admits
    Large,          \* those whose request is more than a pipe holds
    None,
    Faults          \* what may go wrong with the kernel: a subset of FaultKinds

FaultKinds == {"start", "dies", "stuck", "repeats", "noise", "value", "half"}

Proc == 1 .. Cardinality(Call)      \* every call starts at most one process

ASSUME KernelAssumption ==
    /\ Admissible \subseteq Call /\ Large \subseteq Call /\ IsFiniteSet(Call) /\ None \notin Call \cup Proc
    /\ Faults \subseteq FaultKinds

Line == [kind : {"object", "value", "noise", "half"}, nonce : Call \cup {None}, admit : BOOLEAN]

VARIABLES
    lock,       \* KernelClient._lock
    current,    \* KernelClient._proc
    pc,
    reply,      \* the line each call has read
    answer,     \* what decide returned: "none", "admit" or "reject"
    buffer,     \* what readline has taken from the pipe and not returned
    life,       \* each process
    input, pipe,    \* its two pipes
    hit,        \* history: calls that timed out or whose kernel failed them
    stale       \* history: processes seen to answer something else

client  == <<lock, current, pc, reply, answer, buffer>>
vars    == <<client, life, input, pipe, hit, stale>>

TypeOK ==
    /\ lock \in Call \cup {None} /\ current \in Proc \cup {None}
    /\ pc \in [Call -> {"idle", "locked", "ready", "sent", "read", "closing", "forgetting", "done"}]
    /\ \A c \in Call : lock = c <=> pc[c] \in {"locked", "ready", "sent"}
    /\ reply \in [Call -> Line \cup {None}] /\ answer \in [Call -> {"none", "admit", "reject"}]
    /\ \A c \in Call : pc[c] = "done" <=> answer[c] # "none"
    /\ buffer \in Seq(Line) /\ life \in [Proc -> {"unborn", "alive", "hung", "dead"}]
    /\ input \in [Proc -> Seq(Call)] /\ pipe \in [Proc -> Seq(Line)]
    /\ hit \subseteq Call /\ stale \subseteq Proc

Init ==
    /\ lock = None /\ current = None /\ buffer = <<>>
    /\ pc = [c \in Call |-> "idle"] /\ reply = [c \in Call |-> None]
    /\ answer = [c \in Call |-> "none"]
    /\ life = [p \in Proc |-> "unborn"]
    /\ input = [p \in Proc |-> <<>>] /\ pipe = input
    /\ hit = {} /\ stale = {}

Running(p) == p \in Proc /\ life[p] \in {"alive", "hung"}

Goes(c, from, to) == pc[c] = from /\ pc' = [pc EXCEPT ![c] = to]

\* close: kill the process and forget it
Close ==
    /\ current' = None /\ buffer' = <<>>
    /\ life' = [p \in Proc |-> IF p = current THEN "dead" ELSE life[p]]
KeepProcess == UNCHANGED <<current, buffer, life>>

Returns(c, a) == pc' = [pc EXCEPT ![c] = "done"] /\ answer' = [answer EXCEPT ![c] = a]

RejectUnlocked(c) == Returns(c, "reject") /\ lock' = None /\ UNCHANGED reply

-----------------------------------------------------------------------------
(* decide, with the lock.                                                  *)

Acquire(c) ==
    /\ lock = None /\ Goes(c, "idle", "locked") /\ lock' = c
    /\ UNCHANGED <<current, reply, answer, buffer, life, input, pipe, hit, stale>>

EnsureStarted(c) ==
    /\ Goes(c, "locked", "ready")
    /\ IF Running(current) THEN KeepProcess
       ELSE LET p == Min({q \in Proc : life[q] = "unborn"})
            IN  current' = p /\ buffer' = <<>> /\ life' = [life EXCEPT ![p] = "alive"]
    /\ UNCHANGED <<lock, reply, answer, input, pipe, hit, stale>>

\* Popen raises, or there is no kernel to start
StartFails(c) ==
    /\ "start" \in Faults /\ pc[c] = "locked" /\ ~Running(current)
    /\ Close /\ RejectUnlocked(c) /\ hit' = hit \cup {c}
    /\ UNCHANGED <<input, pipe, stale>>

\* write blocks, with the lock held and no timeout, while the pipe is full
Fits(c) == c \notin Large \/ life[current] = "alive"

WriteRequest(c) ==
    /\ Running(current) /\ Fits(c) /\ Goes(c, "ready", "sent")
    /\ input' = [input EXCEPT ![current] = Append(@, c)]
    /\ UNCHANGED <<lock, current, reply, answer, buffer, life, pipe, hit, stale>>

\* another thread has closed the process, or it died before the request was written
ProcessGone(c) ==
    /\ \/ pc[c] = "ready" /\ ~Running(current)
       \/ pc[c] = "sent" /\ current = None
    /\ Close /\ RejectUnlocked(c)
    /\ UNCHANGED <<input, pipe, hit, stale>>

\* select looks at the pipe, not at what readline has already taken from it
Readable == current # None /\ (pipe[current] # <<>> \/ ~Running(current))

M_NoTimeout(c) == FALSE
TimesOut(c) == pc[c] = "sent" /\ current # None /\ ~Readable
M_Abandoned == KeepProcess
Abandoned == Close

Timeout(c) ==
    /\ TimesOut(c) /\ Abandoned /\ RejectUnlocked(c) /\ hit' = hit \cup {c}
    /\ UNCHANGED <<input, pipe, stale>>

NextLine == IF buffer # <<>> THEN Head(buffer) ELSE Head(pipe[current])
TakeLine ==
    IF buffer # <<>> THEN buffer' = Tail(buffer) /\ UNCHANGED pipe
                     ELSE buffer' = Tail(pipe[current]) /\ pipe' = [pipe EXCEPT ![current] = <<>>]

\* the reply is taken, and the lock released, before its nonce is looked at
ReadReply(c) ==
    /\ pc[c] = "sent" /\ Readable
    /\ buffer # <<>> \/ pipe[current] # <<>>
    /\ NextLine.kind \in {"object", "value"}
    /\ TakeLine /\ reply' = [reply EXCEPT ![c] = NextLine]
    /\ Goes(c, "sent", "read") /\ lock' = None
    /\ stale' = IF NextLine.nonce # c THEN stale \cup {current} ELSE stale
    /\ UNCHANGED <<current, answer, life, input, hit>>

\* end of file, or a line that is not JSON; half a line blocks readline until the kernel dies
ReadFails(c) ==
    /\ pc[c] = "sent" /\ Readable
    /\ IF buffer # <<>> \/ pipe[current] # <<>>
       THEN NextLine.kind = "noise" \/ (NextLine.kind = "half" /\ ~Running(current))
       ELSE TRUE
    /\ Close /\ RejectUnlocked(c)
    /\ UNCHANGED <<input, pipe, hit, stale>>

-----------------------------------------------------------------------------
(* decide, without the lock.                                               *)

M_AnyReply(c) == TRUE
AnswersThis(c) == reply[c].nonce = c

Decide(c) ==
    /\ pc[c] = "read"
    /\ \/ reply[c].kind = "value" /\ Returns(c, "reject")
       \/ reply[c].kind = "object" /\ AnswersThis(c)
          /\ Returns(c, IF reply[c].admit THEN "admit" ELSE "reject")
    /\ UNCHANGED <<lock, current, reply, buffer, life, input, pipe, hit, stale>>

\* a nonce mismatch: close, without the lock, whichever process is there by then
KillLate(c) ==
    /\ pc[c] = "read" /\ reply[c].kind = "object" /\ ~AnswersThis(c)
    /\ pc' = [pc EXCEPT ![c] = IF current = None THEN "closing" ELSE "forgetting"]
    /\ life' = [p \in Proc |-> IF p = current THEN "dead" ELSE life[p]]
    /\ UNCHANGED <<lock, current, reply, answer, buffer, input, pipe, hit, stale>>

ForgetLate(c) ==
    /\ pc[c] \in {"closing", "forgetting"} /\ Returns(c, "reject")
    /\ current' = IF pc[c] = "forgetting" THEN None ELSE current
    /\ UNCHANGED <<lock, reply, buffer, life, input, pipe, hit, stale>>

-----------------------------------------------------------------------------
(* The kernel process (external).                                          *)

Object(c) == [kind |-> "object", nonce |-> c, admit |-> c \in Admissible]
Other(k)  == [kind |-> k, nonce |-> None, admit |-> FALSE]

Kernel(p) ==
    /\ life[p] = "alive" /\ input[p] # <<>> /\ input' = [input EXCEPT ![p] = Tail(@)]
    /\ LET c == Head(input[p])
           Says(lines) == pipe' = [pipe EXCEPT ![p] = @ \o lines]
       IN  \/ Says(<<Object(c)>>) /\ UNCHANGED <<life, hit>>
           \/ "repeats" \in Faults /\ Says(<<Object(c), Object(c)>>) /\ UNCHANGED <<life, hit>>
           \/ \E k \in Faults \cap {"noise", "value"} :
                 Says(<<Other(k)>>) /\ hit' = hit \cup {c} /\ UNCHANGED life
           \/ /\ "half" \in Faults /\ Says(<<Other("half")>>)
              /\ life' = [life EXCEPT ![p] = "hung"] /\ hit' = hit \cup {c}
    /\ UNCHANGED <<client, stale>>

\* it runs and reads nothing more
Hangs(p) ==
    /\ "stuck" \in Faults /\ life[p] = "alive" /\ life' = [life EXCEPT ![p] = "hung"]
    /\ UNCHANGED <<client, input, pipe, hit, stale>>

Dies(p) ==
    /\ "dies" \in Faults /\ Running(p) /\ life' = [life EXCEPT ![p] = "dead"]
    /\ hit' = hit \cup ({lock} \ {None})
    /\ UNCHANGED <<client, input, pipe, stale>>

Decides(c) == \/ Acquire(c) \/ EnsureStarted(c) \/ StartFails(c) \/ WriteRequest(c)
              \/ ProcessGone(c) \/ Timeout(c) \/ ReadReply(c) \/ ReadFails(c)
              \/ Decide(c) \/ KillLate(c) \/ ForgetLate(c)

Next == (\E c \in Call : Decides(c)) \/ (\E p \in Proc : Kernel(p) \/ Hangs(p) \/ Dies(p))

Spec == Init /\ [][Next]_vars
FairSpec == Spec /\ \A c \in Call : WF_vars(Decides(c))

-----------------------------------------------------------------------------
(* Properties.                                                             *)

\* An admission is the kernel's own answer to this very request, whatever other calls
\* left in the pipe or in readline's buffer (K7, claims.json:799).
AdmitsAreOwn == \A c \in Call : answer[c] = "admit" => c \in Admissible

\* A timeout or a kernel that fails one call costs no other call its answer: until a
\* reply has answered another call, what the kernel admits is refused only when that
\* very call was slow or failed by its kernel.
RejectedForOwnReason ==
    stale = {} => \A c \in Admissible : answer[c] = "reject" => c \in hit

\* Every decide that has the lock returns, whatever the kernel does not do, with two
\* exceptions, and those only as long as a process that hangs is left running: a request
\* that does not fit in the pipe, and half a line (the timeout is on select alone).
Blocked(c) ==
    /\ current # None /\ life[current] = "hung"
    /\ \/ pc[c] = "ready" /\ c \in Large
       \/ pc[c] = "sent" /\ Readable /\ NextLine.kind = "half"
EndsUnlessBlocked == \A c \in Call : pc[c] = "locked" ~> (pc[c] = "done" \/ []Blocked(c))

-----------------------------------------------------------------------------
(* What comments say and the code does not do.                             *)

\* kernel.py:11: "any failure to obtain a kernel decision is a rejection".
EveryCallEnds == \A c \in Call : pc[c] = "locked" ~> pc[c] = "done"

\* decide: "out of step with the kernel: restart it before the next request".
RestartedFirst == [][\A c \in Call : WriteRequest(c) => current \notin stale]_vars

=============================================================================
