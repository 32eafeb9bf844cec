------------------------------ MODULE Evidence ------------------------------
(***************************************************************************)
(* darm-guard audit and report (darm_guard/evidence.py) and verify_world   *)
(* of broker.py, run by a second process while the broker of module Broker *)
(* goes on: the log is read first, then the workspace file by file and     *)
(* call by call, and at the end the paths the log says must exist.         *)
(*                                                                         *)
(* Covered: what changes between two of these steps, and what the report   *)
(* says of each request. Abstracted: the audit watches one path (the walk  *)
(* treats every path alike); a read of the log sees it up to some moment;  *)
(* keys and the chain are the subject of KeyStore and AuditLog.            *)
(***************************************************************************)
EXTENDS Broker

VARIABLES
    phase,      \* of the audit: idle, logRead, listed, attRead, walked, done or raised
    watched,    \* the path it looks at
    seen,       \* the log as the audit has read it
    look,       \* what it has found at the path: the attestation, then the content
    found,      \* the findings so far
    still       \* history: neither log nor path has changed since the audit began

audit == <<phase, watched, seen, look, found>>
evars == <<vars, audit, still>>

EInit ==
    /\ Init
    /\ phase = "idle" /\ watched \in Path /\ seen = <<>> /\ look = NoFile
    /\ found = {} /\ still = TRUE

\* the log as it was read
AsRead == INSTANCE Broker WITH log <- seen
LatestRead == AsRead!Latest(watched)
Says(tool) == LatestRead # None /\ Tool(LatestRead) = tool

-----------------------------------------------------------------------------
(* verify_world.                                                           *)

ReadLog ==
    /\ phase = "idle" /\ phase' = "logRead"
    /\ seen' = log
    /\ UNCHANGED <<watched, look, found>>

\* os.walk: what is not listed, a link and a private name are not looked at
List ==
    /\ phase = "logRead"
    /\ phase' = IF Looked(watched) THEN "listed" ELSE "walked"
    /\ UNCHANGED <<watched, seen, look, found>>

\* a file without an attestation is a finding only where the log knows the path
M_WritesOnly == {f \in {"unattested"} : Says("write")}
Unattested == {f \in {"unattested"} : Says("write")} \cup {f \in {"undeleted"} : Says("delete")}

\* getxattr by name, of a link put there meanwhile too: absent, moved, or this path's own
ReadAttestation ==
    LET att == files[watched].att
    IN  /\ phase = "listed"
        /\ look' = [look EXCEPT !.att = att]
        /\ IF att = None THEN phase' = "walked" /\ found' = found \cup Unattested
           ELSE IF att.target # watched THEN phase' = "walked" /\ found' = found \cup {"moved"}
           ELSE phase' = "attRead" /\ UNCHANGED found
        /\ UNCHANGED <<watched, seen>>

\* the content against the attested digest
M_AttestedIsEnough(content, att) == {}
Altered(content, att) == {f \in {"changed"} : content # att.digest}

\* the log's word on an attested file
Placed(att) ==
    IF att.rid \notin AsRead!Logged THEN {"missing"}
    ELSE IF Says("delete") THEN {"undeleted"}
    ELSE {f \in {"stale"} : LatestRead \notin {None, att.rid}}

\* open by name, a second time, and through a link: the file may be another one, or gone
\* (the audit raises)
ReadContent ==
    LET content == files[watched].content
    IN  /\ phase = "attRead"
        /\ IF content = Absent
           THEN phase' = "raised" /\ UNCHANGED <<look, found>>
           ELSE /\ phase' = "walked"
                /\ look' = [look EXCEPT !.content = content]
                /\ found' = found \cup Altered(content, look.att) \cup Placed(look.att)
        /\ UNCHANGED <<watched, seen>>

\* the second direction: what the log says was written must exist (os.path.exists
\* follows a link)
CheckGone ==
    /\ phase = "walked" /\ phase' = "done"
    /\ found' = found \cup {f \in {"gone"} : Says("write") /\ files[watched].content = Absent}
    /\ UNCHANGED <<watched, seen, look>>

Audit == ReadLog \/ List \/ ReadAttestation \/ ReadContent \/ CheckGone

ENext ==
    \/ Audit /\ UNCHANGED <<vars, still>>
    \/ /\ Next /\ UNCHANGED audit
       /\ still' = (still /\ (phase = "idle" \/ (log' = log /\ files'[watched] = files[watched])))

ESpec == EInit /\ [][ENext]_evars

-----------------------------------------------------------------------------
(* report: one row per request, from the log alone.                        *)

Records(r, events) == {i \in DOMAIN log : log[i].rid = r /\ log[i].event \in events}

\* the last effect a record of the request names; no record of the broker has a field
\* "verdict", so one closed at startup has the effect of its prepared record: none
RowEffect(r) ==
    LET named == {i \in Records(r, Event) : log[i].event \notin {"prepared", "reconciled"}}
    IN  IF named = {} THEN "?" ELSE log[Max(named)].effect

-----------------------------------------------------------------------------
(* Properties.                                                             *)

\* What a clean audit missed it did not look at, also while the broker serves, crashes
\* and restarts and the foreign actor is at work: the content it read is what the log it
\* read says of the path, or it read none, because the path changed after the audit had
\* begun, holds a link, or has a private name.
CleanAuditIsLogged ==
    phase = "done" /\ found = {} /\ LatestRead # None =>
        \/ look.content = Intended(LatestRead)
        \/ look = NoFile /\ (~still \/ files[watched].link \/ watched \in Private)

\* An audit of a path at rest reports what Broker takes as one look, and does not raise.
AuditAtRestIsFindings ==
    still => /\ phase # "raised"
             /\ phase = "done" => found = Findings(watched)

-----------------------------------------------------------------------------
(* What the documents say and the code does not do: each is refuted.       *)

\* assurance/claims.json:58 "Legitimate operations never flag", of an audit of a broker
\* that serves.
LiveAuditNeverAccuses ==
    phase = "done" /\ foreign = 0 => found \cap {"moved", "changed", "unattested", "missing"} = {}

\* evidence.py:6-7: report says "what happened, request by request, from the log alone".
ReportTellsWhatHappened ==
    \A r \in Req : Closed(r) # {} => RowEffect(r) # "?"

=============================================================================
