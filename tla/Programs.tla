------------------------------ MODULE Programs ------------------------------
(***************************************************************************)
(* The life of programs, rule versions, enrollments and rule assignments,  *)
(* and the rule set that reward processing reads while they change.        *)
(*                                                                         *)
(* Transactions run READ COMMITTED: each statement sees what was committed *)
(* when it started.  A call of several statements is several steps; one    *)
(* that takes a snapshot and writes later keeps what it saw in its record. *)
(* The groups and rules of a version are inserted with it and never        *)
(* changed, so a rule graph is its version.  Version numbers, which fail a *)
(* colliding creation, are left out; the dates of assignments are open.    *)
(***************************************************************************)
EXTENDS Naturals, FiniteSets

CONSTANTS
    Programs, Versions, Members,
    Enrollments,        \* names for the enrollments that may be made (a bound)
    Callers,            \* requests and jobs that run at the same time
    ProgramOf,          \* of each version
    BaseVersions,       \* scope program_base; the others are member_add_on
    ValidVersions,      \* those whose rule graph passes validation
    MaxClock            \* bounds the number of publications that begin

ASSUME ProgramAssumption == ProgramOf \in [Versions -> Programs]
ASSUME VersionAssumption ==
    BaseVersions \subseteq Versions /\ ValidVersions \subseteq Versions
ASSUME ClockAssumption == MaxClock \in Nat

VARIABLES
    program,            \* "none", "active" or "deleted"
    version,            \* program_rule_versions
    enrollment,         \* program_enrollments
    assignments,        \* member_rule_assignments
    cache,              \* the versions whose graphs the process has cached
    clock,
    call                \* of each caller, the call in progress

vars == <<program, version, enrollment, assignments, cache, clock, call>>

-----------------------------------------------------------------------------
NoRow == [status |-> "none", publishedAt |-> 0, before |-> {}]
Archived == [NoRow EXCEPT !.status = "archived"]   \* nothing reads its date again
Idle == [op |-> "idle"]

Published(p) == {v \in BaseVersions : ProgramOf[v] = p /\ version[v].status = "published"}

Made == {e \in Enrollments : enrollment[e].status # "none"}
Active(m) == {e \in Made : enrollment[e].member = m /\ enrollment[e].status = "active"}

Init ==
    /\ program = [p \in Programs |-> "none"]
    /\ version = [v \in Versions |-> NoRow]
    /\ enrollment = [e \in Enrollments |-> [status |-> "none"]]
    /\ assignments = {}
    /\ cache = {}
    /\ clock = 0
    /\ call = [c \in Callers |-> Idle]

Goto(c, record) == call' = [call EXCEPT ![c] = record]

\* A failed statement or a cancelled request rolls the transaction back.
Abandon(c) ==
    /\ call[c].op # "idle"
    /\ Goto(c, Idle)
    /\ UNCHANGED <<program, version, enrollment, assignments, cache, clock>>

-----------------------------------------------------------------------------
(* Programs and rule versions.                                             *)

CreateProgram(p) ==
    /\ program[p] = "none"
    /\ program' = [program EXCEPT ![p] = "active"]
    /\ UNCHANGED <<version, enrollment, assignments, cache, clock, call>>

CreateRuleVersion(v) ==
    /\ version[v].status = "none" /\ program[ProgramOf[v]] = "active"
    /\ version' = [version EXCEPT ![v].status = "draft"]
    /\ UNCHANGED <<program, enrollment, assignments, cache, clock, call>>

\* Seeded bug: the version's row is read without a lock.
Unlocked(v) == TRUE

\* FOR UPDATE: nobody else is publishing the version.
LockRuleVersion(v) ==
    \A c \in Callers : call[c].op \in {"publish", "archive"} => call[c].version # v

BeginPublish(c, v) ==
    /\ call[c].op = "idle" /\ clock < MaxClock
    /\ LockRuleVersion(v)
    /\ version[v].status = "draft" /\ v \in ValidVersions
    /\ clock' = clock + 1
    /\ Goto(c, [op |-> "publish", version |-> v, at |-> clock + 1,
                before |-> Published(ProgramOf[v])])
    /\ UNCHANGED <<program, version, enrollment, assignments, cache>>

\* Seeded bug: only add-ons are archived.
ToArchiveAddOns(v) ==
    {w \in Versions \ BaseVersions : ProgramOf[w] = ProgramOf[v] /\ version[w].status = "published"}

\* What the archiving statement sees: the published base versions, if the
\* version is a base version itself.
ToArchive(v) == IF v \in BaseVersions THEN Published(ProgramOf[v]) ELSE {}

\* Seeded bug: archiving is committed on its own.
ArchiveAtOnce(c) ==
    /\ call[c].op = "publish"
    /\ Goto(c, [op |-> "archive", version |-> call[c].version, at |-> call[c].at,
                before |-> call[c].before, seen |-> {}])
    /\ version' = [v \in Versions |-> IF v \in ToArchive(call[c].version)
                                     THEN Archived ELSE version[v]]
    /\ UNCHANGED <<program, enrollment, assignments, cache, clock>>

ArchivePublished(c) ==
    /\ call[c].op = "publish"
    /\ Goto(c, [op |-> "archive", version |-> call[c].version, at |-> call[c].at,
                before |-> call[c].before, seen |-> ToArchive(call[c].version)])
    /\ UNCHANGED <<program, version, enrollment, assignments, cache, clock>>

\* The update waits for rows that others are changing and skips those that do
\* not match any more; then the version is published and all is committed.
FinishPublish(c) ==
    /\ call[c].op = "archive"
    /\ LET v == call[c].version
           new == [status |-> "published", publishedAt |-> call[c].at, before |-> call[c].before]
           archived == {w \in call[c].seen : version[w].status = "published"}
       IN version' = [w \in Versions |-> CASE w = v -> new
                                           [] w \in archived -> Archived
                                           [] OTHER -> version[w]]
    /\ Goto(c, Idle)
    /\ UNCHANGED <<program, enrollment, assignments, cache, clock>>

\* ensureDraftDeletable, then one deletion after another.
BeginDelete(c, p) ==
    /\ call[c].op = "idle"
    /\ program[p] = "active"
    /\ \A v \in Versions : ProgramOf[v] = p => version[v].status \in {"none", "draft"}
    /\ \A e \in Made : enrollment[e].program # p
    /\ \A a \in assignments : ProgramOf[a.version] # p
    /\ Goto(c, [op |-> "delete", program |-> p])
    /\ UNCHANGED <<program, version, enrollment, assignments, cache, clock>>

\* Seeded bug: no foreign key keeps a program that is referred to.
Unreferenced(p) == TRUE

\* The foreign keys of program_enrollments and member_rule_assignments.
ForeignKeysAllow(p) ==
    /\ \A e \in Made : enrollment[e].program # p
    /\ \A a \in assignments : ProgramOf[a.version] # p

\* The deletions do not look at the status of a version again; they wait for
\* one that is being published.
FinishDelete(c) ==
    /\ call[c].op = "delete"
    /\ LET p == call[c].program
       IN /\ program[p] = "active" /\ ForeignKeysAllow(p)
          /\ \A v \in Versions : ProgramOf[v] = p => LockRuleVersion(v)
          /\ program' = [program EXCEPT ![p] = "deleted"]
          /\ version' = [v \in Versions |-> IF ProgramOf[v] = p THEN [NoRow EXCEPT !.status = "deleted"]
                                            ELSE version[v]]
    /\ Goto(c, Idle)
    /\ UNCHANGED <<enrollment, assignments, cache, clock>>

-----------------------------------------------------------------------------
(* Enrollments and assignments.                                            *)

\* enrollMember: the program is read, then the member's active enrollment is
\* ended as the statement sees it.
BeginEnroll(c, m, p) ==
    /\ call[c].op = "idle"
    /\ program[p] = "active"
    /\ Goto(c, [op |-> "enroll", member |-> m, program |-> p, seen |-> Active(m)])
    /\ UNCHANGED <<program, version, enrollment, assignments, cache, clock>>

\* Seeded bug: the index does not require a single active enrollment.
NoUniqueIndex(m, ended) == TRUE

\* program_enrollments_one_active_member
OneActive(m, ended) == Active(m) \subseteq ended

\* The new enrollment; a conflicting one, or the loss of the program, refuses it
\* and restores the one that was ended.
FinishEnroll(c) ==
    /\ call[c].op = "enroll"
    /\ program[call[c].program] = "active"
    /\ OneActive(call[c].member, call[c].seen)
    /\ \E new \in Enrollments \ Made :
          enrollment' = [e \in Enrollments |->
            CASE e = new -> [member |-> call[c].member, program |-> call[c].program, status |-> "active"]
              [] e \in call[c].seen -> [enrollment[e] EXCEPT !.status = "ended"]
              [] OTHER -> enrollment[e]]
    /\ Goto(c, Idle)
    /\ UNCHANGED <<program, version, assignments, cache, clock>>

ActiveAssignments(m, v) ==
    {a \in assignments : a.member = m /\ a.version = v /\ a.status = "active"}

\* One statement: the add-on must be published in the member's active program.
CreateRuleAssignment(m, v) ==
    /\ \E e \in Active(m) :
          /\ enrollment[e].program = ProgramOf[v]
          /\ v \notin BaseVersions /\ version[v].status = "published"
          /\ ActiveAssignments(m, v) = {}
          /\ assignments' = assignments \cup
                {[member |-> m, enrollment |-> e, version |-> v, status |-> "active"]}
    /\ UNCHANGED <<program, version, enrollment, cache, clock, call>>

\* Any status is taken as it is given: an ended assignment may become active,
\* if the unique index admits it.
UpdateRuleAssignment(a, status) ==
    /\ a \in assignments
    /\ status = "active" => ActiveAssignments(a.member, a.version) \subseteq {a}
    /\ assignments' = (assignments \ {a}) \cup {[a EXCEPT !.status = status]}
    /\ UNCHANGED <<program, version, enrollment, cache, clock, call>>

-----------------------------------------------------------------------------
(* Reward processing reads a rule set in three statements and its graphs.  *)

ReadProgram(c, m) ==
    /\ call[c].op = "idle"
    /\ \E e \in Active(m) :
          /\ program[enrollment[e].program] = "active"
          /\ Goto(c, [op |-> "base", member |-> m, program |-> enrollment[e].program])
    /\ UNCHANGED <<program, version, enrollment, assignments, cache, clock>>

\* The published base version whose publication began last.
ReadBase(c) ==
    /\ call[c].op = "base"
    /\ \E v \in Published(call[c].program) :
          /\ \A w \in Published(call[c].program) : version[w].publishedAt <= version[v].publishedAt
          /\ Goto(c, [op |-> "addons", member |-> call[c].member,
                      program |-> call[c].program, base |-> v])
    /\ UNCHANGED <<program, version, enrollment, assignments, cache, clock>>

\* Seeded bug: the add-ons of whatever program the member is in now.
AddOnsAnywhere(m, p) ==
    {a.version : a \in {b \in assignments :
        /\ b.member = m /\ b.status = "active"
        /\ enrollment[b.enrollment].status = "active"
        /\ version[b.version].status = "published"}}

AddOns(m, p) ==
    {a.version : a \in {b \in assignments :
        /\ b.member = m /\ b.status = "active"
        /\ enrollment[b.enrollment].status = "active" /\ enrollment[b.enrollment].program = p
        /\ version[b.version].status = "published"}}

\* Those of the assignments whose dates include the moment: which, is left open.
ReadAddOns(c) ==
    /\ call[c].op = "addons"
    /\ \E inForce \in SUBSET AddOns(call[c].member, call[c].program) :
          Goto(c, [op |-> "load", program |-> call[c].program,
                   versions |-> {call[c].base} \cup inForce])
    /\ UNCHANGED <<program, version, enrollment, assignments, cache, clock>>

\* getMany, LoadGraphs of the missing ones, putMany.
LoadGraphs(c) ==
    /\ call[c].op = "load"
    /\ cache' = cache \cup call[c].versions
    /\ Goto(c, Idle)
    /\ UNCHANGED <<program, version, enrollment, assignments, clock>>

Next ==
    \/ \E p \in Programs : CreateProgram(p)
    \/ \E v \in Versions : CreateRuleVersion(v)
    \/ \E c \in Callers :
          \/ \E v \in Versions : BeginPublish(c, v)
          \/ \E p \in Programs : BeginDelete(c, p)
          \/ \E m \in Members, p \in Programs : BeginEnroll(c, m, p)
          \/ \E m \in Members : ReadProgram(c, m)
          \/ ArchivePublished(c)
          \/ FinishPublish(c)
          \/ FinishDelete(c)
          \/ FinishEnroll(c)
          \/ ReadBase(c)
          \/ ReadAddOns(c)
          \/ LoadGraphs(c)
          \/ Abandon(c)
    \/ \E m \in Members, v \in Versions : CreateRuleAssignment(m, v)
    \/ \E a \in assignments, status \in {"active", "ended"} : UpdateRuleAssignment(a, status)

Spec == Init /\ [][Next]_vars
-----------------------------------------------------------------------------
(* Properties.                                                             *)

\* Types and references: what an assignment, an enrollment or a call refers to
\* has its row.
TypeOK ==
    /\ program \in [Programs -> {"none", "active", "deleted"}]
    /\ \A v \in Versions :
          /\ version[v].status \in {"none", "draft", "published", "archived", "deleted"}
          /\ version[v].status \in {"draft", "published", "archived"} => program[ProgramOf[v]] = "active"
    /\ \A e \in Made : /\ enrollment[e].member \in Members /\ enrollment[e].status \in {"active", "ended"}
                       /\ program[enrollment[e].program] = "active"
    /\ \A a \in assignments : /\ a.enrollment \in Made /\ a.member = enrollment[a.enrollment].member
                              /\ ProgramOf[a.version] = enrollment[a.enrollment].program

\* A rule version goes from draft to published to archived and never back: also
\* when it is published twice at the same time.
VersionLifecycle ==
    [][\A v \in Versions :
          \/ version'[v].status = version[v].status
          \/ <<version[v].status, version'[v].status>> \in
                {<<"none", "draft">>, <<"draft", "published">>, <<"published", "archived">>}
          \/ program'[ProgramOf[v]] = "deleted"]_vars

\* Once a program has a published base version it always has one, so that its
\* members' purchases can be processed while new versions are published.
PublishedBaseRemains ==
    \A p \in Programs :
        (\E v \in BaseVersions : ProgramOf[v] = p /\ version[v].status = "archived") =>
            Published(p) # {}

\* Two published base versions of a program can only be the outcome of
\* publications that overlapped: one that begins after another is committed
\* archives it.
OnlyOverlappingCoexist ==
    \A p \in Programs : \A v, w \in Published(p) : v \notin version[w].before

\* A member once enrolled has exactly one active enrollment ever after, however
\* changes of the program race and fail.
EnrolledStaysEnrolled ==
    \A m \in Members : (\E e \in Made : enrollment[e].member = m) => Cardinality(Active(m)) = 1

\* The base version and the add-ons of a calculation belong to one program, even
\* if the member changes programs between the statements that read them.
RuleSetOfOneProgram ==
    \A c \in Callers : call[c].op = "load" =>
        \A v \in call[c].versions : ProgramOf[v] = call[c].program

\* A version whose graph is cached, or about to be loaded, keeps its row: no
\* deletion of a draft program races with processing.  (For a version that is
\* gone LoadGraphs returns, and the cache keeps, an empty graph, which would
\* award nothing from then on.)
GraphsReadExist ==
    \A v \in cache \cup UNION {call[c].versions : c \in {d \in Callers : call[d].op = "load"}} :
        version[v].status \in {"published", "archived"}
=============================================================================
