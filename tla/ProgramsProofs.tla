--------------------------- MODULE ProgramsProofs ---------------------------
(***************************************************************************)
(* Proofs about Programs, for every value of its constants: any number of  *)
(* programs, versions, members and callers, and of publications.           *)
(***************************************************************************)
EXTENDS Programs, FiniteSetTheorems, TLAPS

(***************************************************************************)
(* The shapes of the rows and of the calls in progress.                    *)
(***************************************************************************)
Versionings == [status : {"none", "draft", "published", "archived", "deleted"},
                publishedAt : Nat, before : SUBSET Versions]

Enrolled == [member : Members, program : Programs, status : {"active", "ended"}]

Assigned == [member : Members, enrollment : Enrollments, version : Versions,
             status : {"active", "ended"}]

Publishes(c) == call[c].op \in {"publish", "archive"}

Calls ==
    {Idle}
    \cup [op : {"publish"}, version : Versions, at : Nat, before : SUBSET Versions]
    \cup [op : {"archive"}, version : Versions, at : Nat, before : SUBSET Versions,
          seen : SUBSET Versions]
    \cup [op : {"delete"}, program : Programs]
    \cup [op : {"enroll"}, member : Members, program : Programs, seen : SUBSET Enrollments]
    \cup [op : {"base"}, member : Members, program : Programs]
    \cup [op : {"addons"}, member : Members, program : Programs, base : Versions]
    \cup [op : {"load"}, program : Programs, versions : SUBSET Versions]

Shapes ==
    /\ program \in [Programs -> {"none", "active", "deleted"}]
    /\ version \in [Versions -> Versionings]
    /\ enrollment \in [Enrollments -> {[status |-> "none"]} \cup Enrolled]
    /\ assignments \subseteq Assigned
    /\ cache \subseteq Versions
    /\ clock \in Nat
    /\ call \in [Callers -> Calls]

(***************************************************************************)
(* The row lock of publication: the version is a draft until its           *)
(* publication is finished, and no one else is publishing it.              *)
(***************************************************************************)
PublishingDrafts ==
    /\ \A c \in Callers : Publishes(c) => version[call[c].version].status = "draft"
    /\ \A c, d \in Callers :
          Publishes(c) /\ Publishes(d) /\ call[c].version = call[d].version => c = d

(***************************************************************************)
(* What an enrollment in progress will end are enrollments of its member.  *)
(***************************************************************************)
SeenEnrollments ==
    \A c \in Callers : call[c].op = "enroll" =>
        \A e \in call[c].seen : e \in Made /\ enrollment[e].member = call[c].member

LEMMA InitShapes == Init => Shapes /\ PublishingDrafts /\ SeenEnrollments
<1> SUFFICES ASSUME Init PROVE Shapes /\ PublishingDrafts /\ SeenEnrollments
  OBVIOUS
<1>1. NoRow \in Versionings
  BY DEF NoRow, Versionings
<1> QED
  BY <1>1 DEF Init, Shapes, PublishingDrafts, SeenEnrollments, Publishes, Idle, Calls

(***************************************************************************)
(* What the end of an enrollment does to each enrollment.                  *)
(***************************************************************************)
LEMMA FinishedEnrollment ==
  ASSUME Shapes, SeenEnrollments, NEW c \in Callers, FinishEnroll(c)
  PROVE  \E new \in Enrollments \ Made :
            /\ enrollment' \in [Enrollments -> {[status |-> "none"]} \cup Enrolled]
            /\ call[c].member \in Members /\ call[c].program \in Programs
            /\ enrollment'[new].member = call[c].member
            /\ enrollment'[new].program = call[c].program
            /\ enrollment'[new].status = "active"
            /\ \A e \in call[c].seen : /\ enrollment'[e].member = enrollment[e].member
                                      /\ enrollment'[e].program = enrollment[e].program
                                      /\ enrollment'[e].status = "ended"
            /\ \A e \in Enrollments \ (call[c].seen \cup {new}) : enrollment'[e] = enrollment[e]
<1>1. call[c].member \in Members /\ call[c].program \in Programs
      /\ call[c].seen \subseteq Enrollments
  BY DEF Shapes, Calls, Idle, FinishEnroll
<1>2. PICK new \in Enrollments \ Made :
        enrollment' = [e \in Enrollments |->
            CASE e = new -> [member |-> call[c].member, program |-> call[c].program, status |-> "active"]
              [] e \in call[c].seen -> [enrollment[e] EXCEPT !.status = "ended"]
              [] OTHER -> enrollment[e]]
  BY DEF FinishEnroll
<1>3. new \notin call[c].seen
  BY DEF SeenEnrollments, FinishEnroll
<1>4. enrollment'[new] = [member |-> call[c].member, program |-> call[c].program,
                          status |-> "active"]
  BY <1>2, <1>3
<1>5. \A e \in Enrollments \ (call[c].seen \cup {new}) : enrollment'[e] = enrollment[e]
  BY <1>2
<1>6. ASSUME NEW e \in call[c].seen
      PROVE  /\ enrollment'[e].member = enrollment[e].member
             /\ enrollment'[e].program = enrollment[e].program
             /\ enrollment'[e].status = "ended"
             /\ enrollment'[e] \in Enrolled
  <2>1. enrollment'[e] = [enrollment[e] EXCEPT !.status = "ended"]
    BY <1>1, <1>2, <1>3
  <2>2. enrollment[e] \in Enrolled
    BY <1>1 DEF SeenEnrollments, FinishEnroll, Made, Shapes
  <2> QED
    BY <2>1, <2>2 DEF Enrolled
<1>7. \A e \in Enrollments : enrollment'[e] \in {[status |-> "none"]} \cup Enrolled
  <2>1. enrollment'[new] \in Enrolled
    BY <1>1, <1>4 DEF Enrolled
  <2>2. \A e \in Enrollments : enrollment[e] \in {[status |-> "none"]} \cup Enrolled
    BY DEF Shapes
  <2> QED
    BY <1>5, <1>6, <2>1, <2>2
<1>8. enrollment' \in [Enrollments -> {[status |-> "none"]} \cup Enrolled]
  <2>1. enrollment' = [e \in Enrollments |-> enrollment'[e]]
    BY <1>2
  <2> QED
    BY <1>7, <2>1
<1>9. /\ enrollment'[new].member = call[c].member
      /\ enrollment'[new].program = call[c].program
      /\ enrollment'[new].status = "active"
  BY <1>4
<1> QED
  BY <1>1, <1>5, <1>6, <1>8, <1>9

LEMMA NextShapes ==
  Shapes /\ PublishingDrafts /\ SeenEnrollments /\ [Next]_vars => Shapes' /\ PublishingDrafts'
<1> SUFFICES ASSUME Shapes, PublishingDrafts, SeenEnrollments, [Next]_vars
             PROVE  Shapes' /\ PublishingDrafts'
  OBVIOUS
<1> USE ProgramAssumption, VersionAssumption, ClockAssumption
<1>1. ASSUME NEW p \in Programs, CreateProgram(p)
      PROVE  Shapes' /\ PublishingDrafts'
  BY <1>1 DEF CreateProgram, Shapes, PublishingDrafts, Publishes
<1>2. ASSUME NEW v \in Versions, CreateRuleVersion(v)
      PROVE  Shapes' /\ PublishingDrafts'
  BY <1>2 DEF CreateRuleVersion, Shapes, PublishingDrafts, Publishes, Versionings
<1>3. ASSUME NEW c \in Callers, NEW v \in Versions, BeginPublish(c, v)
      PROVE  Shapes' /\ PublishingDrafts'
  BY <1>3 DEF BeginPublish, Goto, Shapes, PublishingDrafts, Publishes, LockRuleVersion,
              Published, Calls, Idle
<1>4. ASSUME NEW c \in Callers, NEW p \in Programs, BeginDelete(c, p)
      PROVE  Shapes' /\ PublishingDrafts'
  BY <1>4 DEF BeginDelete, Goto, Shapes, PublishingDrafts, Publishes, Calls, Idle
<1>5. ASSUME NEW c \in Callers, NEW m \in Members, NEW p \in Programs, BeginEnroll(c, m, p)
      PROVE  Shapes' /\ PublishingDrafts'
  BY <1>5 DEF BeginEnroll, Goto, Shapes, PublishingDrafts, Publishes, Calls, Idle, Active, Made
<1>6. ASSUME NEW c \in Callers, NEW m \in Members, ReadProgram(c, m)
      PROVE  Shapes' /\ PublishingDrafts'
  BY <1>6 DEF ReadProgram, Goto, Shapes, PublishingDrafts, Publishes, Calls, Idle, Active, Made,
              Enrolled
<1>7. ASSUME NEW c \in Callers, ArchivePublished(c)
      PROVE  Shapes' /\ PublishingDrafts'
  BY <1>7 DEF ArchivePublished, ToArchive, Published, Goto, Shapes, PublishingDrafts, Publishes,
              Calls, Idle
<1>8. ASSUME NEW c \in Callers, FinishPublish(c)
      PROVE  Shapes' /\ PublishingDrafts'
  BY <1>8 DEF FinishPublish, Archived, NoRow, Goto, Shapes, PublishingDrafts, Publishes,
              Calls, Idle, Versionings
<1>9. ASSUME NEW c \in Callers, FinishDelete(c)
      PROVE  Shapes' /\ PublishingDrafts'
  BY <1>9 DEF FinishDelete, NoRow, Goto, Shapes, PublishingDrafts, Publishes, LockRuleVersion,
              Calls, Idle, Versionings
<1>10. ASSUME NEW c \in Callers, FinishEnroll(c)
      PROVE  Shapes' /\ PublishingDrafts'
  <2>1. enrollment' \in [Enrollments -> {[status |-> "none"]} \cup Enrolled]
    BY <1>10, FinishedEnrollment
  <2> QED
    BY <1>10, <2>1 DEF FinishEnroll, Goto, Shapes, PublishingDrafts, Publishes, Calls, Idle
<1>11. ASSUME NEW c \in Callers, ReadBase(c)
      PROVE  Shapes' /\ PublishingDrafts'
  BY <1>11 DEF ReadBase, Published, Goto, Shapes, PublishingDrafts, Publishes, Calls, Idle
<1>12. ASSUME NEW c \in Callers, ReadAddOns(c)
      PROVE  Shapes' /\ PublishingDrafts'
  BY <1>12 DEF ReadAddOns, AddOns, Goto, Shapes, PublishingDrafts, Publishes, Calls, Idle, Assigned
<1>13. ASSUME NEW c \in Callers, LoadGraphs(c)
      PROVE  Shapes' /\ PublishingDrafts'
  BY <1>13 DEF LoadGraphs, Goto, Shapes, PublishingDrafts, Publishes, Calls, Idle
<1>14. ASSUME NEW c \in Callers, Abandon(c)
      PROVE  Shapes' /\ PublishingDrafts'
  BY <1>14 DEF Abandon, Goto, Shapes, PublishingDrafts, Publishes, Calls, Idle
<1>15. ASSUME NEW m \in Members, NEW v \in Versions, CreateRuleAssignment(m, v)
      PROVE  Shapes' /\ PublishingDrafts'
  BY <1>15 DEF CreateRuleAssignment, Shapes, PublishingDrafts, Publishes, Active, Made, Assigned
<1>16. ASSUME NEW a \in assignments, NEW status \in {"active", "ended"},
              UpdateRuleAssignment(a, status)
      PROVE  Shapes' /\ PublishingDrafts'
  BY <1>16 DEF UpdateRuleAssignment, Shapes, PublishingDrafts, Publishes, Assigned
<1>17. CASE UNCHANGED vars
  BY <1>17 DEF vars, Shapes, PublishingDrafts, Publishes
<1> QED
  BY <1>1, <1>2, <1>3, <1>4, <1>5, <1>6, <1>7, <1>8, <1>9, <1>10, <1>11, <1>12, <1>13,
     <1>14, <1>15, <1>16, <1>17 DEF Next

(***************************************************************************)
(* How the call of a caller comes about.                                   *)
(***************************************************************************)
LEMMA CallStep ==
  ASSUME Shapes, [Next]_vars, NEW c \in Callers, call'[c] # call[c]
  PROVE  \/ call'[c] = Idle
         \/ \E v \in Versions : BeginPublish(c, v)
         \/ \E p \in Programs : BeginDelete(c, p)
         \/ \E m \in Members, p \in Programs : BeginEnroll(c, m, p)
         \/ \E m \in Members : ReadProgram(c, m)
         \/ ArchivePublished(c) \/ ReadBase(c) \/ ReadAddOns(c)
<1> USE DEF Goto
<1>1. \A d \in Callers : \A record :
        call' = [call EXCEPT ![d] = record] => d = c /\ call'[c] = record
  BY DEF Shapes
<1>2. ~UNCHANGED call
  OBVIOUS
<1>3. ASSUME NEW d \in Callers, NEW v \in Versions, BeginPublish(d, v) PROVE d = c
  BY <1>1, <1>3 DEF BeginPublish
<1>4. ASSUME NEW d \in Callers, NEW p \in Programs, BeginDelete(d, p) PROVE d = c
  BY <1>1, <1>4 DEF BeginDelete
<1>5. ASSUME NEW d \in Callers, NEW m \in Members, NEW p \in Programs, BeginEnroll(d, m, p)
      PROVE  d = c
  BY <1>1, <1>5 DEF BeginEnroll
<1>6. ASSUME NEW d \in Callers, NEW m \in Members, ReadProgram(d, m) PROVE d = c
  BY <1>1, <1>6 DEF ReadProgram
<1>7. ASSUME NEW d \in Callers, ArchivePublished(d) \/ ReadBase(d) \/ ReadAddOns(d) PROVE d = c
  BY <1>1, <1>7 DEF ArchivePublished, ReadBase, ReadAddOns
<1>8. ASSUME NEW d \in Callers,
             FinishPublish(d) \/ FinishDelete(d) \/ FinishEnroll(d) \/ LoadGraphs(d) \/ Abandon(d)
      PROVE  call'[c] = Idle
  BY <1>1, <1>8 DEF FinishPublish, FinishDelete, FinishEnroll, LoadGraphs, Abandon
<1> QED
  BY <1>2, <1>3, <1>4, <1>5, <1>6, <1>7, <1>8
  DEF Next, vars, CreateProgram, CreateRuleVersion, CreateRuleAssignment, UpdateRuleAssignment

(***************************************************************************)
(* What a step may do to a version, an enrollment and a program.           *)
(***************************************************************************)
EnrollmentsKept ==
    \A e \in Made : /\ enrollment'[e].status # "none"
                   /\ enrollment'[e].member = enrollment[e].member
                   /\ enrollment'[e].program = enrollment[e].program

LEMMA EnrollmentStep ==
  Shapes /\ SeenEnrollments /\ [Next]_vars => EnrollmentsKept
<1> SUFFICES ASSUME Shapes, SeenEnrollments, [Next]_vars PROVE EnrollmentsKept
  OBVIOUS
<1>1. CASE UNCHANGED enrollment
  BY <1>1 DEF EnrollmentsKept, Made
<1>2. ASSUME NEW c \in Callers, FinishEnroll(c) PROVE EnrollmentsKept
  <2>1. PICK new \in Enrollments \ Made :
            /\ \A e \in call[c].seen : /\ enrollment'[e].member = enrollment[e].member
                                      /\ enrollment'[e].program = enrollment[e].program
                                      /\ enrollment'[e].status = "ended"
            /\ \A e \in Enrollments \ (call[c].seen \cup {new}) : enrollment'[e] = enrollment[e]
    BY <1>2, FinishedEnrollment
  <2>2. SUFFICES ASSUME NEW e \in Made
                 PROVE  /\ enrollment'[e].status # "none"
                        /\ enrollment'[e].member = enrollment[e].member
                        /\ enrollment'[e].program = enrollment[e].program
    BY DEF EnrollmentsKept
  <2>3. CASE e \in call[c].seen
    BY <2>1, <2>3
  <2>4. CASE e \notin call[c].seen
    BY <2>1, <2>4 DEF Made
  <2> QED
    BY <2>3, <2>4
<1> QED
  BY <1>1, <1>2
  DEF Next, vars, CreateProgram, CreateRuleVersion, BeginPublish, BeginDelete, BeginEnroll,
      ReadProgram, ArchivePublished, FinishPublish, FinishDelete, ReadBase, ReadAddOns, LoadGraphs,
      Abandon, CreateRuleAssignment, UpdateRuleAssignment

LEMMA SeenNext == Shapes /\ SeenEnrollments /\ [Next]_vars => SeenEnrollments'
<1> SUFFICES ASSUME Shapes, SeenEnrollments, [Next]_vars,
                    NEW c \in Callers, call'[c].op = "enroll", NEW e \in call'[c].seen
             PROVE  e \in Made' /\ enrollment'[e].member = call'[c].member
  BY DEF SeenEnrollments
<1>1. EnrollmentsKept
  BY EnrollmentStep
<1>2. CASE call'[c] = call[c]
  BY <1>1, <1>2 DEF SeenEnrollments, EnrollmentsKept, Made
<1>3. CASE call'[c] # call[c]
  <2>1. PICK m \in Members, p \in Programs : BeginEnroll(c, m, p)
    BY <1>3, CallStep
    DEF BeginPublish, BeginDelete, ReadProgram, ArchivePublished, ReadBase, ReadAddOns, Goto,
        Shapes, Idle
  <2>2. /\ call'[c] = [op |-> "enroll", member |-> m, program |-> p, seen |-> Active(m)]
        /\ enrollment' = enrollment
    BY <2>1 DEF BeginEnroll, Goto, Shapes
  <2> QED
    BY <2>2 DEF Active, Made
<1> QED
  BY <1>2, <1>3

(***************************************************************************)
(* A program that members were enrolled in stays: the foreign key of their *)
(* enrollments keeps it.                                                   *)
(***************************************************************************)
ProgramsKept ==
    \A p \in Programs :
        \/ program'[p] = program[p]
        \/ program[p] = "none" /\ program'[p] = "active"
        \/ program[p] = "active" /\ program'[p] = "deleted" /\ \A e \in Made : enrollment[e].program # p

\* What can happen to a version in one step.
VersionMoves(v) ==
    \/ version'[v] = version[v] /\ program'[ProgramOf[v]] = program[ProgramOf[v]]
    \/ version'[v] = version[v] /\ program[ProgramOf[v]] = "none"
    \/ version[v].status = "none" /\ version'[v].status = "draft"
         /\ program[ProgramOf[v]] = "active" /\ program' = program
    \/ /\ version[v].status = "draft" /\ version'[v].status = "published" /\ program' = program
       /\ \E c \in Callers : FinishPublish(c) /\ v = call[c].version
    \/ /\ version[v].status = "published" /\ version'[v].status = "archived" /\ program' = program
       /\ \E c \in Callers : FinishPublish(c) /\ v \in call[c].seen
    \/ program'[ProgramOf[v]] = "deleted" /\ version'[v].status = "deleted"

LEMMA FinishedPublication ==
  ASSUME Shapes, PublishingDrafts, NEW c \in Callers, FinishPublish(c)
  PROVE  /\ call[c].version \in Versions /\ call[c].seen \subseteq Versions
         /\ version[call[c].version].status = "draft"
         /\ version'[call[c].version].status = "published"
         /\ version'[call[c].version].before = call[c].before
         /\ \A v \in Versions \ {call[c].version} :
                IF v \in call[c].seen /\ version[v].status = "published"
                THEN version'[v].status = "archived" ELSE version'[v] = version[v]
<1> DEFINE w == call[c].version
           archived == {v \in call[c].seen : version[v].status = "published"}
<1>1. /\ w \in Versions /\ call[c].seen \subseteq Versions
      /\ version[w].status = "draft"
  BY DEF FinishPublish, PublishingDrafts, Publishes, Shapes, Calls, Idle
<1>2. version' = [v \in Versions |->
          CASE v = w -> [status |-> "published", publishedAt |-> call[c].at,
                         before |-> call[c].before]
            [] v \in archived -> Archived
            [] OTHER -> version[v]]
  BY DEF FinishPublish
<1>3. w \notin archived
  BY <1>1
<1>4. version'[w].status = "published" /\ version'[w].before = call[c].before
  BY <1>1, <1>2, <1>3
<1>5. \A v \in Versions \ {w} : IF v \in archived THEN version'[v] = Archived
                               ELSE version'[v] = version[v]
  BY <1>1, <1>2, <1>3
<1>6. Archived.status = "archived"
  BY DEF Archived, NoRow
<1> QED
  BY <1>1, <1>4, <1>5, <1>6

LEMMA VersionStep ==
  Shapes /\ PublishingDrafts /\ [Next]_vars => ProgramsKept /\ \A v \in Versions : VersionMoves(v)
<1> SUFFICES ASSUME Shapes, PublishingDrafts, [Next]_vars
             PROVE  ProgramsKept /\ \A v \in Versions : VersionMoves(v)
  OBVIOUS
<1> USE ProgramAssumption, VersionAssumption
<1>1. CASE UNCHANGED <<program, version>>
  BY <1>1 DEF ProgramsKept, VersionMoves
<1>2. ASSUME NEW p \in Programs, CreateProgram(p)
      PROVE  ProgramsKept /\ \A v \in Versions : VersionMoves(v)
  BY <1>2 DEF CreateProgram, Shapes, ProgramsKept, VersionMoves
<1>3. ASSUME NEW w \in Versions, CreateRuleVersion(w)
      PROVE  ProgramsKept /\ \A v \in Versions : VersionMoves(v)
  <2>1. version'[w].status = "draft" /\ \A v \in Versions \ {w} : version'[v] = version[v]
    BY <1>3 DEF CreateRuleVersion, Shapes, Versionings
  <2> QED
    BY <1>3, <2>1 DEF CreateRuleVersion, ProgramsKept, VersionMoves
<1>4. ASSUME NEW c \in Callers, FinishPublish(c)
      PROVE  ProgramsKept /\ \A v \in Versions : VersionMoves(v)
  <2>1. \A v \in Versions : \/ version'[v] = version[v]
                           \/ /\ v = call[c].version
                              /\ version[v].status = "draft" /\ version'[v].status = "published"
                           \/ /\ v \in call[c].seen
                              /\ version[v].status = "published" /\ version'[v].status = "archived"
    BY <1>4, FinishedPublication
  <2>2. program' = program
    BY <1>4 DEF FinishPublish
  <2> QED
    BY <1>4, <2>1, <2>2 DEF ProgramsKept, VersionMoves
<1>5. ASSUME NEW c \in Callers, FinishDelete(c)
      PROVE  ProgramsKept /\ \A v \in Versions : VersionMoves(v)
  <2> DEFINE p == call[c].program
  <2>0. p \in Programs
    BY <1>5 DEF FinishDelete, Shapes, Calls, Idle
  <2>1. /\ program[p] = "active" /\ ForeignKeysAllow(p)
        /\ program' = [program EXCEPT ![p] = "deleted"]
        /\ version' = [v \in Versions |-> IF ProgramOf[v] = p
                                         THEN [NoRow EXCEPT !.status = "deleted"] ELSE version[v]]
    BY <1>5 DEF FinishDelete
  <2> HIDE DEF p
  <2>2. ProgramsKept
    BY <2>0, <2>1 DEF ProgramsKept, ForeignKeysAllow, Shapes
  <2>3. [NoRow EXCEPT !.status = "deleted"].status = "deleted"
    BY DEF NoRow
  <2>4. ASSUME NEW v \in Versions PROVE VersionMoves(v)
    <3>1. ProgramOf[v] \in Programs /\ program \in [Programs -> {"none", "active", "deleted"}]
      BY DEF Shapes
    <3> DEFINE gone == [NoRow EXCEPT !.status = "deleted"]
    <3>2. version' = [u \in Versions |-> IF ProgramOf[u] = p THEN gone ELSE version[u]]
      BY <2>0, <2>1
    <3>3. gone.status = "deleted"
      BY <2>3
    <3> HIDE DEF gone
    <3>4. CASE ProgramOf[v] = p
      BY <2>0, <2>1, <3>1, <3>2, <3>3, <3>4 DEF VersionMoves
    <3>5. CASE ProgramOf[v] # p
      BY <2>0, <2>1, <3>1, <3>2, <3>5 DEF VersionMoves
    <3> QED
      BY <3>4, <3>5
  <2> QED
    BY <2>2, <2>4
<1> QED
  BY <1>1, <1>2, <1>3, <1>4, <1>5
  DEF Next, vars, BeginPublish, BeginDelete, BeginEnroll, ReadProgram, ArchivePublished,
      FinishEnroll, ReadBase, ReadAddOns, LoadGraphs, Abandon, CreateRuleAssignment,
      UpdateRuleAssignment

-----------------------------------------------------------------------------
(***************************************************************************)
(* References: TypeOK.                                                     *)
(***************************************************************************)
LEMMA ReferencesNext ==
  ASSUME Shapes, PublishingDrafts, SeenEnrollments, TypeOK, [Next]_vars
  PROVE  TypeOK'
<1>1. Shapes'
  BY NextShapes
<1>2. ProgramsKept /\ EnrollmentsKept /\ \A v \in Versions : VersionMoves(v)
  BY VersionStep, EnrollmentStep
<1>3. program' \in [Programs -> {"none", "active", "deleted"}]
  BY <1>1 DEF Shapes
<1>4. ASSUME NEW v \in Versions
      PROVE  /\ version'[v].status \in {"none", "draft", "published", "archived", "deleted"}
             /\ version'[v].status \in {"draft", "published", "archived"} =>
                    program'[ProgramOf[v]] = "active"
  <2>1. version'[v].status \in {"none", "draft", "published", "archived", "deleted"}
    BY <1>1 DEF Shapes, Versionings
  <2> QED
    BY <1>2, <2>1 DEF VersionMoves, TypeOK
<1>5. ASSUME NEW e \in Made'
      PROVE  /\ enrollment'[e].member \in Members /\ enrollment'[e].status \in {"active", "ended"}
             /\ program'[enrollment'[e].program] = "active"
  <2>1. enrollment'[e] \in Enrolled
    BY <1>1, <1>5 DEF Made, Shapes
  <2>2. CASE e \in Made
    <3>1. enrollment'[e].program = enrollment[e].program /\ program[enrollment[e].program] = "active"
      BY <1>2, <2>2 DEF EnrollmentsKept, TypeOK
    <3>2. enrollment[e].program \in Programs
      BY <2>1, <3>1 DEF Enrolled
    <3>3. program'[enrollment[e].program] = "active"
      BY <1>2, <2>2, <3>1, <3>2 DEF ProgramsKept
    <3> QED
      BY <2>1, <3>1, <3>3 DEF Enrolled
  <2>3. CASE e \notin Made
    <3>1. enrollment' # enrollment
      BY <1>5, <2>3 DEF Made
    <3>2. PICK c \in Callers : FinishEnroll(c)
      BY <3>1
      DEF Next, vars, CreateProgram, CreateRuleVersion, BeginPublish, BeginDelete, BeginEnroll,
          ReadProgram, ArchivePublished, FinishPublish, FinishDelete, ReadBase, ReadAddOns,
          LoadGraphs, Abandon, CreateRuleAssignment, UpdateRuleAssignment
    <3>3. enrollment'[e].program = call[c].program
      <4>1. PICK new \in Enrollments \ Made :
              /\ enrollment'[new].program = call[c].program
              /\ \A d \in Enrollments \ (call[c].seen \cup {new}) : enrollment'[d] = enrollment[d]
        BY <3>2, FinishedEnrollment
      <4>2. e \notin call[c].seen
        BY <2>3, <3>2 DEF SeenEnrollments, FinishEnroll
      <4>3. e = new
        BY <1>5, <2>3, <4>1, <4>2 DEF Made
      <4> QED
        BY <4>1, <4>3
    <3> QED
      BY <2>1, <3>2, <3>3 DEF FinishEnroll, Enrolled
  <2> QED
    BY <2>2, <2>3
<1>6. ASSUME NEW a \in assignments'
      PROVE  /\ a.enrollment \in Made' /\ a.member = enrollment'[a.enrollment].member
             /\ ProgramOf[a.version] = enrollment'[a.enrollment].program
  <2> DEFINE Refers(b) == /\ b.enrollment \in Made /\ b.member = enrollment[b.enrollment].member
                          /\ ProgramOf[b.version] = enrollment[b.enrollment].program
  <2>1. Refers(a)
    <3>1. CASE a \in assignments
      BY <3>1 DEF TypeOK
    <3>2. ASSUME NEW m \in Members, NEW v \in Versions, CreateRuleAssignment(m, v), a \notin assignments
          PROVE  Refers(a)
      BY <1>6, <3>2 DEF CreateRuleAssignment, Active
    <3>3. ASSUME NEW b \in assignments, NEW status \in {"active", "ended"},
                 UpdateRuleAssignment(b, status), a \notin assignments
          PROVE  Refers(a)
      <4>1. a = [b EXCEPT !.status = status]
        BY <1>6, <3>3 DEF UpdateRuleAssignment
      <4>2. b \in Assigned /\ Refers(b)
        BY DEF Shapes, TypeOK
      <4>3. a.enrollment = b.enrollment /\ a.member = b.member /\ a.version = b.version
        BY <4>1, <4>2 DEF Assigned
      <4> QED
        BY <4>2, <4>3
    <3>4. CASE assignments' = assignments
      BY <1>6, <3>1, <3>4
    <3> QED
      BY <3>1, <3>2, <3>3, <3>4
      DEF Next, vars, CreateProgram, CreateRuleVersion, BeginPublish, BeginDelete, BeginEnroll,
          ReadProgram, ArchivePublished, FinishPublish, FinishDelete, FinishEnroll, ReadBase,
          ReadAddOns, LoadGraphs, Abandon
  <2> QED
    BY <1>2, <2>1 DEF EnrollmentsKept, Made
<1> QED
  BY <1>3, <1>4, <1>5, <1>6 DEF TypeOK

-----------------------------------------------------------------------------
(***************************************************************************)
(* Enrollments: a member that was ever enrolled has one active enrollment. *)
(* The end of an enrollment in progress succeeds only if it ends all that  *)
(* are active then, which is what the unique index requires.               *)
(***************************************************************************)
EnrolledOnce ==
    \A m \in Members :
        (\E e \in Made : enrollment[e].member = m) => \E e \in Enrollments : Active(m) = {e}

LEMMA EnrolledOnceNext ==
  ASSUME Shapes, SeenEnrollments, EnrolledOnce, [Next]_vars
  PROVE  EnrolledOnce'
<1>1. CASE UNCHANGED enrollment
  BY <1>1 DEF EnrolledOnce, Made, Active
<1>2. ASSUME NEW c \in Callers, FinishEnroll(c) PROVE EnrolledOnce'
  <2>1. PICK new \in Enrollments \ Made :
            /\ enrollment' \in [Enrollments -> {[status |-> "none"]} \cup Enrolled]
            /\ call[c].member \in Members
            /\ enrollment'[new].member = call[c].member
            /\ enrollment'[new].program = call[c].program
            /\ enrollment'[new].status = "active"
            /\ \A e \in call[c].seen : /\ enrollment'[e].member = enrollment[e].member
                                      /\ enrollment'[e].program = enrollment[e].program
                                      /\ enrollment'[e].status = "ended"
            /\ \A e \in Enrollments \ (call[c].seen \cup {new}) : enrollment'[e] = enrollment[e]
    BY <1>2, FinishedEnrollment
  <2>0. PICK who \in Members : who = call[c].member
    BY <2>1
  <2>2. /\ call[c].seen \subseteq Made
        /\ \A e \in call[c].seen : enrollment[e].member = who
        /\ Active(who) \subseteq call[c].seen
    BY <1>2, <2>0 DEF SeenEnrollments, FinishEnroll, OneActive
  <2>3. /\ enrollment'[new].status = "active" /\ enrollment'[new].member = who
        /\ \A e \in call[c].seen : /\ enrollment'[e].status = "ended"
                                  /\ enrollment'[e].member = who
    BY <2>0, <2>1, <2>2
  <2>4. Made' = Made \cup {new}
    <3>1. ASSUME NEW e \in Enrollments PROVE e \in Made' <=> e \in Made \cup {new}
      BY <2>1, <2>2, <2>3 DEF Made
    <3> QED
      BY <3>1, <2>1 DEF Made
  <2>5. Active(who)' = {new}
    <3>1. ASSUME NEW e \in Enrollments, e # new PROVE e \notin Active(who)'
      BY <2>1, <2>2, <2>3, <2>4, <3>1 DEF Active
    <3>2. new \in Active(who)'
      BY <2>3, <2>4 DEF Active
    <3> QED
      BY <3>1, <3>2 DEF Active, Made
  <2>6. ASSUME NEW m \in Members, m # who
        PROVE  /\ Active(m)' = Active(m)
               /\ (\E e \in Made' : enrollment'[e].member = m) => \E e \in Made : enrollment[e].member = m
    <3>1. ASSUME NEW e \in Enrollments PROVE e \in Active(m)' <=> e \in Active(m)
      <4>1. CASE e = new \/ e \in call[c].seen
        BY <2>1, <2>2, <2>3, <2>6, <4>1 DEF Active
      <4>2. CASE e # new /\ e \notin call[c].seen
        BY <2>1, <2>4, <4>2 DEF Active
      <4> QED
        BY <4>1, <4>2
    <3>2. Active(m)' = Active(m)
      BY <3>1 DEF Active, Made
    <3>3. ASSUME NEW e \in Made', enrollment'[e].member = m
          PROVE  e \in Made /\ enrollment[e].member = m
      <4>1. e # new /\ e \notin call[c].seen
        BY <2>3, <2>6, <3>3
      <4>2. e \in Enrollments
        BY DEF Made
      <4> QED
        BY <2>1, <2>4, <3>3, <4>1, <4>2
    <3> QED
      BY <3>2, <3>3
  <2> QED
    BY <2>5, <2>6 DEF EnrolledOnce
<1> QED
  BY <1>1, <1>2
  DEF Next, vars, CreateProgram, CreateRuleVersion, BeginPublish, BeginDelete, BeginEnroll,
      ReadProgram, ArchivePublished, FinishPublish, FinishDelete, ReadBase, ReadAddOns, LoadGraphs,
      Abandon, CreateRuleAssignment, UpdateRuleAssignment

-----------------------------------------------------------------------------
(***************************************************************************)
(* Publications: what was published when one began is archived by it, or   *)
(* was archived meanwhile; nothing published becomes a draft again.        *)
(***************************************************************************)
WasPublished(v) == version[v].status \in {"published", "archived", "deleted"}

PublishedBefore ==
    \A w \in Versions : version[w].status = "published" => \A v \in version[w].before : WasPublished(v)

BeginningsKnown ==
    \A c \in Callers : Publishes(c) =>
        \A v \in call[c].before : /\ v \in BaseVersions /\ WasPublished(v)
                                 /\ ProgramOf[v] = ProgramOf[call[c].version]

ArchivesAll ==
    \A c \in Callers : call[c].op = "archive" =>
        /\ \A v \in call[c].seen : /\ v \in BaseVersions /\ call[c].version \in BaseVersions
                                  /\ ProgramOf[v] = ProgramOf[call[c].version]
        /\ call[c].version \in BaseVersions =>
              \A v \in call[c].before : v \in call[c].seen \/ version[v].status # "published"

Publications == /\ PublishedBefore /\ BeginningsKnown /\ ArchivesAll
                /\ PublishedBaseRemains /\ OnlyOverlappingCoexist

LEMMA PublishedStays ==
  ASSUME Shapes, PublishingDrafts, [Next]_vars, NEW v \in Versions, WasPublished(v)
  PROVE  /\ WasPublished(v)'
         /\ version[v].status # "published" => version'[v].status # "published"
<1>1. VersionMoves(v)
  BY VersionStep
<1> QED
  BY <1>1 DEF VersionMoves, WasPublished

LEMMA PublishedBeforeNext ==
  ASSUME Shapes, PublishingDrafts, SeenEnrollments, PublishedBefore, BeginningsKnown, [Next]_vars
  PROVE  PublishedBefore'
<1> SUFFICES ASSUME NEW w \in Versions, version'[w].status = "published", NEW v \in version'[w].before
             PROVE  WasPublished(v)'
  BY DEF PublishedBefore
<1>1. VersionMoves(w)
  BY VersionStep
<1>2. v \in Versions
  <2>1. version'[w] \in Versionings
    BY NextShapes DEF Shapes
  <2> QED
    BY <2>1 DEF Versionings
<1>3. WasPublished(v)
  <2>1. CASE version'[w] = version[w]
    BY <2>1 DEF PublishedBefore
  <2>2. CASE version'[w] # version[w]
    <3>1. PICK c \in Callers : FinishPublish(c) /\ w = call[c].version
      BY <1>1, <2>2 DEF VersionMoves
    <3>2. version'[w].before = call[c].before
      BY <3>1, FinishedPublication
    <3> QED
      BY <3>1, <3>2 DEF BeginningsKnown, Publishes, FinishPublish
  <2> QED
    BY <2>1, <2>2
<1> QED
  BY <1>2, <1>3, PublishedStays

LEMMA BeginningsKnownNext ==
  ASSUME Shapes, PublishingDrafts, SeenEnrollments, BeginningsKnown, [Next]_vars
  PROVE  BeginningsKnown'
<1> SUFFICES ASSUME NEW c \in Callers, Publishes(c)', NEW v \in call'[c].before
             PROVE  /\ v \in BaseVersions /\ WasPublished(v)'
                    /\ ProgramOf[v] = ProgramOf[call'[c].version]
  BY DEF BeginningsKnown
<1>1. CASE call'[c].op = "publish" /\ call[c].op # "publish"
  <2>1. PICK w \in Versions : BeginPublish(c, w)
    BY <1>1, CallStep
    DEF BeginDelete, BeginEnroll, ReadProgram, ArchivePublished, ReadBase, ReadAddOns, Goto, Shapes, Idle
  <2>2. /\ call'[c].version = w /\ call'[c].before = Published(ProgramOf[w])
        /\ version' = version
    BY <2>1 DEF BeginPublish, Goto, Shapes
  <2> QED
    BY <2>2 DEF Published, WasPublished
<1>2. CASE Publishes(c) /\ call'[c].before = call[c].before /\ call'[c].version = call[c].version
  <2>1. v \in BaseVersions /\ WasPublished(v) /\ ProgramOf[v] = ProgramOf[call[c].version]
    BY <1>2 DEF BeginningsKnown
  <2>2. WasPublished(v)'
    BY <2>1, PublishedStays, VersionAssumption
  <2> QED
    BY <1>2, <2>1, <2>2
<1>3. CASE call'[c] # call[c] /\ ~(call'[c].op = "publish" /\ call[c].op # "publish")
  <2>1. ArchivePublished(c)
    BY <1>3, CallStep
    DEF BeginPublish, BeginDelete, BeginEnroll, ReadProgram, ReadBase, ReadAddOns, Goto, Shapes,
        Idle, Publishes
  <2>2. Publishes(c) /\ call'[c].before = call[c].before /\ call'[c].version = call[c].version
    BY <2>1 DEF ArchivePublished, Goto, Shapes, Publishes
  <2> QED
    BY <1>2, <2>2
<1> QED
  BY <1>1, <1>2, <1>3 DEF Publishes

LEMMA ArchivesAllNext ==
  ASSUME Shapes, PublishingDrafts, BeginningsKnown, ArchivesAll, [Next]_vars
  PROVE  ArchivesAll'
<1> SUFFICES ASSUME NEW c \in Callers, call'[c].op = "archive"
             PROVE  /\ \A v \in call'[c].seen : /\ v \in BaseVersions /\ call'[c].version \in BaseVersions
                                               /\ ProgramOf[v] = ProgramOf[call'[c].version]
                    /\ call'[c].version \in BaseVersions =>
                          \A v \in call'[c].before : v \in call'[c].seen \/ version'[v].status # "published"
  BY DEF ArchivesAll
<1>1. CASE call'[c] = call[c]
  <2>1. \A v \in call[c].before : v \in Versions /\ WasPublished(v)
    BY <1>1, VersionAssumption DEF BeginningsKnown, Publishes
  <2> QED
    BY <1>1, <2>1, PublishedStays DEF ArchivesAll
<1>2. CASE call'[c] # call[c]
  <2>1. ArchivePublished(c)
    BY <1>2, CallStep
    DEF BeginPublish, BeginDelete, BeginEnroll, ReadProgram, ReadBase, ReadAddOns, Goto, Shapes, Idle
  <2>2. /\ call'[c].before = call[c].before /\ call'[c].version = call[c].version
        /\ call'[c].seen = ToArchive(call[c].version) /\ version' = version /\ Publishes(c)
    BY <2>1 DEF ArchivePublished, Goto, Shapes, Publishes
  <2> QED
    BY <2>2 DEF ToArchive, Published, BeginningsKnown
<1> QED
  BY <1>1, <1>2

LEMMA OnlyOverlappingNext ==
  ASSUME Shapes, PublishingDrafts, PublishedBefore, BeginningsKnown, ArchivesAll,
         OnlyOverlappingCoexist, [Next]_vars
  PROVE  OnlyOverlappingCoexist'
<1> SUFFICES ASSUME NEW v \in BaseVersions, NEW w \in BaseVersions, ProgramOf[v] = ProgramOf[w],
                    ProgramOf[v] \in Programs,
                    version'[v].status = "published", version'[w].status = "published",
                    v \in version'[w].before
             PROVE  FALSE
  BY DEF OnlyOverlappingCoexist, Published
<1> USE VersionAssumption
<1>1. VersionMoves(v) /\ VersionMoves(w)
  BY VersionStep
<1>2. CASE version'[w] = version[w]
  <2>1. WasPublished(v)
    BY <1>2 DEF PublishedBefore
  <2>2. version[v].status = "published"
    BY <2>1, PublishedStays
  <2> QED
    BY <1>2, <2>2 DEF OnlyOverlappingCoexist, Published
<1>3. CASE version'[w] # version[w]
  <2>1. PICK c \in Callers : FinishPublish(c) /\ w = call[c].version
    BY <1>1, <1>3 DEF VersionMoves
  <2>2. v \in call[c].before /\ version[w].status = "draft"
    BY <2>1, FinishedPublication
  <2>3. WasPublished(v) /\ v # w
    BY <2>1, <2>2 DEF BeginningsKnown, Publishes, FinishPublish, WasPublished
  <2>4. version[v].status = "published"
    BY <2>3, PublishedStays
  <2>5. v \in call[c].seen
    BY <2>1, <2>2, <2>4 DEF ArchivesAll, FinishPublish
  <2> QED
    BY <2>1, <2>3, <2>4, <2>5, FinishedPublication
<1> QED
  BY <1>2, <1>3

LEMMA BaseRemainsNext ==
  ASSUME Shapes, PublishingDrafts, TypeOK, ArchivesAll, PublishedBaseRemains, [Next]_vars
  PROVE  PublishedBaseRemains'
<1> SUFFICES ASSUME NEW v \in BaseVersions, ProgramOf[v] \in Programs, version'[v].status = "archived"
             PROVE  \E u \in BaseVersions : /\ ProgramOf[u] = ProgramOf[v]
                                            /\ version'[u].status = "published"
  BY DEF PublishedBaseRemains, Published
<1> USE VersionAssumption
<1>1. /\ VersionMoves(v) /\ \A u \in BaseVersions : VersionMoves(u)
  BY VersionStep
\* Whoever archives a version of the program publishes one.
<1>2. ASSUME NEW u \in BaseVersions, NEW c \in Callers, ProgramOf[u] = ProgramOf[v],
             FinishPublish(c), u \in call[c].seen
      PROVE  /\ call[c].version \in BaseVersions /\ ProgramOf[call[c].version] = ProgramOf[v]
             /\ version'[call[c].version].status = "published"
  BY <1>2, FinishedPublication DEF ArchivesAll, FinishPublish
<1>3. CASE version'[v] # version[v]
  BY <1>1, <1>2, <1>3 DEF VersionMoves
<1>4. CASE version'[v] = version[v]
  <2>1. program[ProgramOf[v]] = "active"
    BY <1>4 DEF TypeOK
  <2>2. program'[ProgramOf[v]] # "deleted"
    BY <1>1, <1>4, <2>1 DEF VersionMoves
  <2>3. PICK u \in BaseVersions : ProgramOf[u] = ProgramOf[v] /\ version[u].status = "published"
    BY <1>4 DEF PublishedBaseRemains, Published
  <2>4. CASE version'[u].status = "published"
    BY <2>3, <2>4
  <2>5. CASE version'[u].status # "published"
    BY <1>1, <1>2, <2>2, <2>3, <2>5 DEF VersionMoves
  <2> QED
    BY <2>4, <2>5
<1> QED
  BY <1>3, <1>4

-----------------------------------------------------------------------------
(***************************************************************************)
(* Rule sets: processing reads versions of programs that had members, and  *)
(* such programs are not deleted.                                          *)
(***************************************************************************)
HadMembers(p) == \E e \in Made : enrollment[e].program = p

Readable(v) == version[v].status \in {"published", "archived"}

RuleSetsRead ==
    \A c \in Callers :
        /\ call[c].op \in {"base", "addons", "load"} => HadMembers(call[c].program)
        /\ call[c].op = "addons" =>
              ProgramOf[call[c].base] = call[c].program /\ Readable(call[c].base)
        /\ call[c].op = "load" =>
              \A v \in call[c].versions : ProgramOf[v] = call[c].program /\ Readable(v)

CacheRead == \A v \in cache : Readable(v) /\ HadMembers(ProgramOf[v])

LEMMA ReadableStays ==
  ASSUME Shapes, PublishingDrafts, SeenEnrollments, TypeOK, [Next]_vars
  PROVE  /\ \A p : HadMembers(p) => HadMembers(p)'
         /\ \A v \in Versions : Readable(v) /\ HadMembers(ProgramOf[v]) => Readable(v)'
<1>1. ProgramsKept /\ EnrollmentsKept /\ \A v \in Versions : VersionMoves(v)
  BY VersionStep, EnrollmentStep
<1>2. \A p : HadMembers(p) => HadMembers(p)'
  BY <1>1 DEF EnrollmentsKept, HadMembers, Made
<1>3. ASSUME NEW v \in Versions, Readable(v), HadMembers(ProgramOf[v]) PROVE Readable(v)'
  <2>1. ProgramOf[v] \in Programs /\ program[ProgramOf[v]] = "active"
    BY <1>3, ProgramAssumption DEF TypeOK, Readable
  <2>2. program'[ProgramOf[v]] = "active"
    BY <1>1, <1>3, <2>1 DEF ProgramsKept, HadMembers
  <2> QED
    BY <1>1, <1>3, <2>1, <2>2 DEF VersionMoves, Readable
<1> QED
  BY <1>2, <1>3

LEMMA RuleSetsNext ==
  ASSUME Shapes, PublishingDrafts, SeenEnrollments, TypeOK, RuleSetsRead, [Next]_vars
  PROVE  RuleSetsRead'
<1> SUFFICES ASSUME NEW c \in Callers
             PROVE  /\ call'[c].op \in {"base", "addons", "load"} => HadMembers(call[c].program)'
                    /\ call'[c].op = "addons" =>
                          ProgramOf[call'[c].base] = call'[c].program /\ Readable(call[c].base)'
                    /\ call'[c].op = "load" =>
                          \A v \in call'[c].versions : ProgramOf[v] = call'[c].program /\ Readable(v)'
  BY DEF RuleSetsRead
<1>1. CASE call'[c] = call[c]
  <2>1. /\ call[c].op = "addons" => call[c].base \in Versions
        /\ call[c].op = "load" => call[c].versions \subseteq Versions
    BY DEF Shapes, Calls, Idle
  <2>2. HadMembers(call[c].program) => HadMembers(call[c].program)'
    <3>1. \A p : HadMembers(p) => HadMembers(p)'
      BY ReadableStays
    <3> QED
      BY <1>1, <3>1 DEF HadMembers
  <2>3. \A v \in Versions : Readable(v) /\ HadMembers(ProgramOf[v]) => Readable(v)'
    BY ReadableStays
  <2>4. CASE call[c].op = "addons"
    <3>1. Readable(call[c].base)'
      BY <1>1, <2>1, <2>3, <2>4 DEF RuleSetsRead, Readable
    <3> QED
      BY <1>1, <2>2, <2>4, <3>1 DEF RuleSetsRead
  <2>5. CASE call[c].op = "load"
    BY <1>1, <2>1, <2>2, <2>3, <2>5 DEF RuleSetsRead
  <2>6. CASE call[c].op \notin {"addons", "load"}
    BY <1>1, <2>2, <2>6 DEF RuleSetsRead
  <2> QED
    BY <2>4, <2>5, <2>6
<1>2. ASSUME NEW m \in Members, ReadProgram(c, m)
      PROVE  call'[c].op = "base" /\ HadMembers(call[c].program)'
  BY <1>2 DEF ReadProgram, Goto, Shapes, Active, HadMembers, Made
<1>3. ASSUME ReadBase(c)
      PROVE  /\ call'[c].op = "addons" /\ HadMembers(call[c].program)'
             /\ ProgramOf[call'[c].base] = call'[c].program /\ Readable(call[c].base)'
  <2>1. PICK v \in Published(call[c].program) :
          call' = [call EXCEPT ![c] = [op |-> "addons", member |-> call[c].member,
                                       program |-> call[c].program, base |-> v]]
    BY <1>3 DEF ReadBase, Goto
  <2>2. call'[c].op = "addons" /\ call'[c].program = call[c].program /\ call'[c].base = v
    BY <2>1 DEF Shapes
  <2>3. version' = version /\ enrollment' = enrollment /\ HadMembers(call[c].program)
    BY <1>3 DEF ReadBase, RuleSetsRead
  <2> QED
    BY <2>2, <2>3 DEF Published, Readable, HadMembers, Made
<1>4. ASSUME ReadAddOns(c)
      PROVE  /\ call'[c].op = "load" /\ HadMembers(call[c].program)'
             /\ \A v \in call'[c].versions : ProgramOf[v] = call'[c].program /\ Readable(v)'
  <2>1. PICK inForce \in SUBSET AddOns(call[c].member, call[c].program) :
          call' = [call EXCEPT ![c] = [op |-> "load", program |-> call[c].program,
                                       versions |-> {call[c].base} \cup inForce]]
    BY <1>4 DEF ReadAddOns, Goto
  <2>2. /\ call'[c].op = "load" /\ call'[c].program = call[c].program
        /\ call'[c].versions = {call[c].base} \cup inForce
    BY <2>1 DEF Shapes
  <2>3. /\ version' = version /\ enrollment' = enrollment /\ HadMembers(call[c].program)
        /\ ProgramOf[call[c].base] = call[c].program /\ Readable(call[c].base)
    BY <1>4 DEF ReadAddOns, RuleSetsRead
  <2>4. \A v \in inForce : ProgramOf[v] = call[c].program /\ Readable(v)
    BY DEF AddOns, Readable, TypeOK
  <2> QED
    BY <2>2, <2>3, <2>4 DEF Readable, HadMembers, Made
<1>5. CASE call'[c] # call[c]
  BY <1>2, <1>3, <1>4, <1>5, CallStep
  DEF BeginPublish, BeginDelete, BeginEnroll, ArchivePublished, Goto, Shapes, Idle
<1> QED
  BY <1>1, <1>5

LEMMA CacheNext ==
  ASSUME Shapes, PublishingDrafts, SeenEnrollments, TypeOK, RuleSetsRead, CacheRead, [Next]_vars
  PROVE  CacheRead'
<1> SUFFICES ASSUME NEW v \in cache' PROVE Readable(v)' /\ HadMembers(ProgramOf[v])'
  BY DEF CacheRead
<1>1. v \in Versions /\ Readable(v) /\ HadMembers(ProgramOf[v])
  <2>1. CASE v \in cache
    BY <2>1 DEF CacheRead, Shapes
  <2>2. CASE v \notin cache
    <3>1. PICK c \in Callers : LoadGraphs(c)
      BY <2>2
      DEF Next, vars, CreateProgram, CreateRuleVersion, BeginPublish, BeginDelete, BeginEnroll,
          ReadProgram, ArchivePublished, FinishPublish, FinishDelete, FinishEnroll, ReadBase,
          ReadAddOns, Abandon, CreateRuleAssignment, UpdateRuleAssignment
    <3>2. call[c].op = "load" /\ v \in call[c].versions
      BY <2>2, <3>1 DEF LoadGraphs
    <3>3. call[c].versions \subseteq Versions
      BY <3>2 DEF Shapes, Calls, Idle
    <3> QED
      BY <3>2, <3>3 DEF RuleSetsRead
  <2> QED
    BY <2>1, <2>2
<1> QED
  BY <1>1, ReadableStays

-----------------------------------------------------------------------------
(***************************************************************************)
(* The inductive invariant, and what follows from it.                      *)
(***************************************************************************)
ProgramsInv == /\ Shapes
               /\ PublishingDrafts
               /\ SeenEnrollments
               /\ TypeOK
               /\ EnrolledOnce
               /\ Publications
               /\ RuleSetsRead
               /\ CacheRead

LEMMA ProgramsInvInit == Init => ProgramsInv
<1> SUFFICES ASSUME Init PROVE ProgramsInv
  OBVIOUS
<1>1. Shapes /\ PublishingDrafts /\ SeenEnrollments
  BY InitShapes
<1>2. Made = {} /\ \A v \in Versions : version[v].status = "none"
  BY DEF Init, Made, NoRow
<1>3. TypeOK
  BY <1>2 DEF Init, TypeOK
<1>4. EnrolledOnce
  BY <1>2 DEF EnrolledOnce
<1>5. \A c \in Callers : call[c].op = "idle"
  BY DEF Init, Idle
<1>6. Publications
  BY <1>2, <1>5, VersionAssumption
  DEF Publications, PublishedBefore, BeginningsKnown, ArchivesAll, PublishedBaseRemains,
      OnlyOverlappingCoexist, Publishes, Published
<1>7. RuleSetsRead /\ CacheRead
  BY <1>5 DEF Init, RuleSetsRead, CacheRead
<1> QED
  BY <1>1, <1>3, <1>4, <1>6, <1>7 DEF ProgramsInv

LEMMA ProgramsInvNext == ProgramsInv /\ [Next]_vars => ProgramsInv'
<1> SUFFICES ASSUME ProgramsInv, [Next]_vars PROVE ProgramsInv'
  OBVIOUS
<1>1. /\ Shapes /\ PublishingDrafts /\ SeenEnrollments /\ TypeOK /\ EnrolledOnce
      /\ PublishedBefore /\ BeginningsKnown /\ ArchivesAll
      /\ PublishedBaseRemains /\ OnlyOverlappingCoexist /\ RuleSetsRead /\ CacheRead
  BY DEF ProgramsInv, Publications
<1>2. Shapes' /\ PublishingDrafts' /\ SeenEnrollments'
  BY <1>1, NextShapes, SeenNext
<1>3. TypeOK' /\ EnrolledOnce'
  BY <1>1, ReferencesNext, EnrolledOnceNext
<1>4. PublishedBefore' /\ BeginningsKnown' /\ ArchivesAll'
  BY <1>1, PublishedBeforeNext, BeginningsKnownNext, ArchivesAllNext
<1>5. PublishedBaseRemains' /\ OnlyOverlappingCoexist'
  BY <1>1, BaseRemainsNext, OnlyOverlappingNext
<1>6. RuleSetsRead' /\ CacheRead'
  BY <1>1, RuleSetsNext, CacheNext
<1> QED
  BY <1>2, <1>3, <1>4, <1>5, <1>6 DEF ProgramsInv, Publications

THEOREM ProgramsInvariance == Spec => []ProgramsInv
<1> QED
  BY ProgramsInvInit, ProgramsInvNext, PTL DEF Spec

(***************************************************************************)
(* Types, and every assignment, enrollment and version has the row that it *)
(* refers to.                                                              *)
(***************************************************************************)
THEOREM ReferencesAlwaysKept == Spec => []TypeOK
<1>1. ProgramsInv => TypeOK
  BY DEF ProgramsInv
<1> QED
  BY <1>1, ProgramsInvariance, PTL

(***************************************************************************)
(* Draft, published, archived, and never back.                             *)
(***************************************************************************)
THEOREM LifecycleOnlyForward == Spec => VersionLifecycle
<1>1. ProgramsInv /\ [Next]_vars =>
        [\A v \in Versions :
            \/ version'[v].status = version[v].status
            \/ <<version[v].status, version'[v].status>> \in
                  {<<"none", "draft">>, <<"draft", "published">>, <<"published", "archived">>}
            \/ program'[ProgramOf[v]] = "deleted"]_vars
  BY VersionStep DEF ProgramsInv, VersionMoves
<1> QED
  BY <1>1, ProgramsInvariance, PTL DEF Spec, VersionLifecycle

(***************************************************************************)
(* A program that has published a base version keeps one.                  *)
(***************************************************************************)
THEOREM BaseAlwaysRemains == Spec => []PublishedBaseRemains
<1>1. ProgramsInv => PublishedBaseRemains
  BY DEF ProgramsInv, Publications
<1> QED
  BY <1>1, ProgramsInvariance, PTL

(***************************************************************************)
(* Two published base versions of a program come of publications that      *)
(* overlapped, and of nothing else.                                        *)
(***************************************************************************)
THEOREM OnlyOverlappingEverCoexist == Spec => []OnlyOverlappingCoexist
<1>1. ProgramsInv => OnlyOverlappingCoexist
  BY DEF ProgramsInv, Publications
<1> QED
  BY <1>1, ProgramsInvariance, PTL

(***************************************************************************)
(* A member once enrolled stays enrolled, in one program at a time.        *)
(***************************************************************************)
THEOREM EnrolledForGood == Spec => []EnrolledStaysEnrolled
<1>1. ProgramsInv => EnrolledStaysEnrolled
  <2> SUFFICES ASSUME EnrolledOnce, NEW m \in Members, NEW e \in Made, enrollment[e].member = m
               PROVE  Cardinality(Active(m)) = 1
    BY DEF ProgramsInv, EnrolledStaysEnrolled
  <2>1. PICK d \in Enrollments : Active(m) = {d}
    BY DEF EnrolledOnce
  <2> QED
    BY <2>1, FS_Singleton
<1> QED
  BY <1>1, ProgramsInvariance, PTL

(***************************************************************************)
(* Processing never mixes the versions of two programs.                    *)
(***************************************************************************)
THEOREM RuleSetsNeverMix == Spec => []RuleSetOfOneProgram
<1>1. ProgramsInv => RuleSetOfOneProgram
  BY DEF ProgramsInv, RuleSetsRead, RuleSetOfOneProgram
<1> QED
  BY <1>1, ProgramsInvariance, PTL

(***************************************************************************)
(* No graph is read or cached of a version that is gone.                   *)
(***************************************************************************)
THEOREM GraphsAlwaysExist == Spec => []GraphsReadExist
<1>1. ProgramsInv => GraphsReadExist
  BY DEF ProgramsInv, RuleSetsRead, CacheRead, Readable, GraphsReadExist
<1> QED
  BY <1>1, ProgramsInvariance, PTL
=============================================================================
