------------------------- MODULE DailyRhythm_proofs -------------------------
(***************************************************************************)
(* Proofs about DailyRhythm for any set of overlapping checks, any number  *)
(* of days, failures and crashes, in five parts, each an invariant that    *)
(* the next ones build on:                                                 *)
(*   - types, and at most one run a day (TypeInv, RunInv);                 *)
(*   - runs that ended are the interval apart (ApartInv), when no call runs*)
(*     across a change of day;                                             *)
(*   - on a database that no earlier release has left a scheduled Dream in:*)
(*     its repair is never reached, and a topic has at most one active     *)
(*     projection although accepting one is three awaited calls (MemInv);  *)
(*   - what a row reports has happened (BackInv), under both conditions;   *)
(*   - a single call that does not fail forgets nothing (LoneInv).         *)
(***************************************************************************)
EXTENDS DailyRhythm, NaturalFacts, SequenceTheorems, TLAPS

Run == [day : Days, status : {"scheduled", "completed", "blocked"}]
RowValue == [quiet : RhythmStatus, dream : RhythmStatus] \cup {NoRow}
Projection == [cand : {"summary", "signals"}, status : {"active", "superseded"}]

\* A call that accepts projections still has a candidate in hand.
TodoOK ==
    \A c \in Checks : check[c].pc \in {"supersede", "project"} => check[c].todo # <<>>

TypeInv == TypeOK /\ TodoOK

LEMMA CandidatesType ==
    ASSUME NEW content
    PROVE  /\ ValidCandidates(content) \in Seq({"summary", "signals"})
           /\ RunOutcome(content) \in {"completed", "blocked"}
<1> DEFINE S == {"summary", "signals"}
<1>1. "summary" \in S /\ "signals" \in S
  OBVIOUS
<1>2. <<"summary", "signals">> \in Seq(S) /\ <<"summary">> \in Seq(S) /\ <<>> \in Seq(S)
  BY <1>1
<1>3. ValidCandidates(content) \in Seq(S)
  BY <1>2 DEF ValidCandidates
<1> QED BY <1>3 DEF RunOutcome

LEMMA IdleType == Idle \in CheckStates
  BY RhythmAssumption DEF Idle, CheckStates, PCs, Days, RhythmStatus

LEMMA AfterQuietType ==
    ASSUME NEW s \in CheckStates
    PROVE  /\ AfterQuiet(s) \in CheckStates
           /\ AfterQuiet(s).pc \in {"delete", "stale", "interval"}
           /\ AfterQuiet(s).day = s.day
           /\ AfterQuiet(s).quiet = s.quiet
           /\ AfterQuiet(s).pc = "interval" => s.quiet = "completed" /\ s.dream \notin Terminal \cup {"scheduled"}
           /\ s.quiet = "completed" => AfterQuiet(s).dream = s.dream
  BY DEF AfterQuiet, CheckStates, PCs, RhythmStatus, Terminal

\* The updates the actions make of a call's local state.
LEMMA UpdateType ==
    ASSUME NEW s \in CheckStates, NEW p \in PCs, NEW d \in RhythmStatus,
           NEW n \in Nat, NEW t \in Seq({"summary", "signals"})
    PROVE  /\ [s EXCEPT !.pc = p] \in CheckStates
           /\ [s EXCEPT !.pc = p, !.dream = d] \in CheckStates
           /\ [s EXCEPT !.pc = p, !.run = n] \in CheckStates
           /\ [s EXCEPT !.pc = p, !.dream = d, !.run = n] \in CheckStates
           /\ [s EXCEPT !.pc = p, !.active = n] \in CheckStates
           /\ [s EXCEPT !.pc = p, !.todo = t] \in CheckStates
  BY DEF CheckStates

LEMMA PCsKnown ==
    /\ PCs = {"idle", "quiet", "interval", "schedule", "settle", "stale", "repair",
              "accept", "supersede", "project", "delete", "insert", "flush"}
    /\ {"due", "completed", "blocked", "scheduled", "not_due"} \subseteq RhythmStatus
  BY DEF PCs, RhythmStatus

\* Changing the status of one row of a table keeps the table's type.
LEMMA StatusUpdate ==
    /\ \A q \in Seq(Run), i \in Nat, x \in {"scheduled", "completed", "blocked"} :
          [q EXCEPT ![i].status = x] \in Seq(Run)
    /\ \A q \in Seq(Projection), i \in Nat, x \in {"active", "superseded"} :
          [q EXCEPT ![i].status = x] \in Seq(Projection)
<1>1. ASSUME NEW T, NEW q \in Seq(T), NEW i \in Nat, NEW x,
             \A t \in T : [t EXCEPT !.status = x] \in T
      PROVE  [q EXCEPT ![i].status = x] \in Seq(T)
  <2>1. q \in [1..Len(q) -> T] /\ Len(q) \in Nat
    OBVIOUS
  <2>2. [q EXCEPT ![i].status = x] \in [1..Len(q) -> T]
    BY <1>1, <2>1
  <2> QED BY <2>1, <2>2, SeqDef
<1>2. \A t \in Run, x \in {"scheduled", "completed", "blocked"} : [t EXCEPT !.status = x] \in Run
  BY DEF Run
<1>3. \A t \in Projection, x \in {"active", "superseded"} : [t EXCEPT !.status = x] \in Projection
  BY DEF Projection
<1> QED BY <1>1, <1>2, <1>3

LEMMA TypeInit == Init => TypeInv
<1> SUFFICES ASSUME Init PROVE TypeInv
  OBVIOUS
<1>1. today \in Days /\ failures \in Nat /\ crashes \in Nat
  BY RhythmAssumption DEF Init, Days
<1>2. Image \in Tables
  <2>1. closures \in SUBSET Days /\ 1 \in Days
    BY RhythmAssumption DEF Init, Days
  <2>2. review \in [Days -> Contents \cup {"none"}]
    BY DEF Init
  <2>3. runs \in Seq(Run)
    <3>1. ASSUME NEW r \in Run PROVE <<r>> \in Seq(Run)
      OBVIOUS
    <3>2. [day |-> 1, status |-> "scheduled"] \in Run /\ <<>> \in Seq(Run)
      BY <2>1 DEF Run
    <3> QED BY <3>1, <3>2 DEF Init
  <2>4. row \in [Days -> RowValue]
    BY DEF Init, NoRow, RhythmStatus, RowValue
  <2>5. proj \in [Days -> Seq(Projection)]
    BY DEF Init
  <2> QED BY <2>1, <2>2, <2>3, <2>4, <2>5 DEF Image, Tables, Run, Projection, RowValue
<1>3. check \in [Checks -> CheckStates] /\ TodoOK
  BY IdleType DEF Init, TodoOK, Idle
<1> QED BY <1>1, <1>2, <1>3 DEF TypeInv, TypeOK, Init

LEMMA TypeNext == TypeInv /\ [Next]_vars => TypeInv'
<1> SUFFICES ASSUME TypeInv, [Next]_vars PROVE TypeInv'
  OBVIOUS
<1> USE DEF Run, Projection, RowValue
<1>1. /\ closures \in SUBSET Days
      /\ review \in [Days -> Contents \cup {"none"}]
      /\ runs \in Seq(Run)
      /\ row \in [Days -> RowValue]
      /\ proj \in [Days -> Seq(Projection)]
      /\ Image \in Tables /\ disk \in Tables
      /\ check \in [Checks -> CheckStates] /\ today \in Days /\ TodoOK
      /\ failures \in Nat /\ crashes \in Nat
  BY DEF TypeInv, TypeOK, Image, Tables
<1>2. ASSUME NEW c \in Checks
      PROVE  check[c] \in CheckStates /\ check[c].day \in Days /\ check[c].run \in Nat
             /\ check[c].active \in Nat /\ check[c].todo \in Seq({"summary", "signals"})
             /\ check[c].quiet \in RhythmStatus /\ check[c].dream \in RhythmStatus
  BY <1>1 DEF CheckStates
\* It is enough that each variable keeps its type.
<1>3. ASSUME closures' \in SUBSET Days,
             review' \in [Days -> Contents \cup {"none"}],
             runs' \in Seq(Run),
             row' \in [Days -> RowValue],
             proj' \in [Days -> Seq(Projection)],
             disk' \in Tables, today' \in Days, failures' \in Nat, crashes' \in Nat,
             check' \in [Checks -> CheckStates], TodoOK'
      PROVE  TypeInv'
  BY <1>3 DEF TypeInv, TypeOK, Image, Tables
\* A step of one call changes the local state of that call only.
<1>4. ASSUME NEW c \in Checks, NEW s \in CheckStates, Become(c, s),
             s.pc \in {"supersede", "project"} => s.todo # <<>>
      PROVE  check' \in [Checks -> CheckStates] /\ TodoOK'
  BY <1>1, <1>4 DEF Become, TodoOK
<1>5. Fail => failures' \in Nat
  BY <1>1 DEF Fail
<1>6. ASSUME NEW c \in Checks, Begin(c) PROVE TypeInv'
  <2> DEFINE r  == RowOrDefault(today)
             s0 == [Idle EXCEPT !.day = today, !.quiet = r.quiet, !.dream = r.dream]
  <2>1. r.quiet \in RhythmStatus /\ r.dream \in RhythmStatus
    BY <1>1 DEF RowOrDefault, RhythmStatus
  <2>2. s0 \in CheckStates
    BY <2>1, <1>1, IdleType DEF CheckStates
  <2>3. [s0 EXCEPT !.quiet = "not_due"] \in CheckStates
    BY <2>2 DEF CheckStates, RhythmStatus
  <2>4. [s0 EXCEPT !.quiet = "due", !.pc = "quiet"] \in CheckStates
    BY <2>2 DEF CheckStates, RhythmStatus, PCs
  <2>5. \E s \in CheckStates : Become(c, s) /\ s.pc \notin {"supersede", "project"}
    <3>1. CASE Become(c, AfterQuiet(s0))
      BY <3>1, <2>2, AfterQuietType
    <3>2. CASE Become(c, AfterQuiet([s0 EXCEPT !.quiet = "not_due"]))
      BY <3>2, <2>3, AfterQuietType
    <3>3. CASE Become(c, [s0 EXCEPT !.quiet = "due", !.pc = "quiet"])
      BY <3>3, <2>4, <2>2 DEF CheckStates
    <3> QED BY <1>6, <3>1, <3>2, <3>3 DEF Begin
  <2> QED BY <2>5, <1>4, <1>3, <1>1, <1>6 DEF Begin, tables
<1>7. ASSUME NEW c \in Checks, BuildQuiet(c) PROVE TypeInv'
  <2>1. \A q \in {"completed", "blocked"} : [check[c] EXCEPT !.quiet = q] \in CheckStates
    BY <1>2 DEF CheckStates, RhythmStatus
  <2>2. \E q \in {"completed", "blocked"} : Become(c, AfterQuiet([check[c] EXCEPT !.quiet = q]))
    BY <1>7 DEF BuildQuiet
  <2>3. \E s \in CheckStates : Become(c, s) /\ s.pc \notin {"supersede", "project"}
    BY <2>1, <2>2, AfterQuietType
  <2>4. review' \in [Days -> Contents \cup {"none"}] /\ failures' \in Nat
    BY <1>7, <1>1, <1>5 DEF BuildQuiet
  <2> QED BY <2>3, <2>4, <1>4, <1>3, <1>1, <1>7 DEF BuildQuiet
<1>8. ASSUME NEW c \in Checks, CheckInterval(c) PROVE TypeInv'
  <2>1. [check[c] EXCEPT !.pc = "schedule", !.dream = "due"] \in CheckStates
    BY <1>2 DEF CheckStates, RhythmStatus, PCs
  <2>2. \A i \in DOMAIN runs : [check[c] EXCEPT !.pc = "delete", !.dream = runs[i].status] \in CheckStates
    <3>1. \A i \in DOMAIN runs : runs[i].status \in RhythmStatus
      <4> HIDE DEF Run
      <4>1. runs \in Seq(Run)
        BY <1>1
      <4>2. \A i \in DOMAIN runs : runs[i] \in Run
        BY <4>1
      <4> QED BY <4>2 DEF Run, RhythmStatus
    <3> QED BY <3>1, <1>2, UpdateType, PCsKnown
  <2>3. \E s \in CheckStates : Become(c, s) /\ s.pc \notin {"supersede", "project"}
    BY <1>8, <1>2, <2>1, <2>2 DEF CheckInterval, LatestTerminal, CheckStates
  <2> QED BY <2>3, <1>4, <1>3, <1>1, <1>8 DEF CheckInterval, tables
<1>9. ASSUME NEW c \in Checks, Schedule(c) PROVE TypeInv'
  <2>1. Len(runs) + 1 \in Nat
    BY <1>1
  <2>2. \E s \in CheckStates : Become(c, s) /\ s.pc \notin {"supersede", "project"}
    <3> DEFINE s1 == [check[c] EXCEPT !.pc = "settle", !.dream = "scheduled", !.run = Len(runs) + 1]
               s2 == [check[c] EXCEPT !.pc = "delete", !.dream = "blocked"]
    <3>1. s1 \in CheckStates /\ s2 \in CheckStates
      BY <1>2, <2>1, UpdateType, PCsKnown
    <3>2. s1.pc = "settle" /\ s2.pc = "delete"
      BY <1>2 DEF CheckStates
    <3>3. Become(c, s1) \/ Become(c, s2)
      BY <1>9 DEF Schedule
    <3> QED BY <3>1, <3>2, <3>3
  <2>3. runs' \in Seq(Run) /\ failures' \in Nat
    <3>1. [day |-> check[c].day, status |-> "scheduled"] \in Run
      BY <1>2
    <3>2. Append(runs, [day |-> check[c].day, status |-> "scheduled"]) \in Seq(Run)
      BY <3>1, <1>1
    <3> QED BY <1>9, <1>1, <1>5, <3>2 DEF Schedule
  <2> QED BY <2>2, <2>3, <1>4, <1>3, <1>1, <1>9 DEF Schedule
<1>10. ASSUME NEW c \in Checks, NEW d \in RhythmStatus, SettleRun(c, d) PROVE TypeInv'
  <2> DEFINE content == review[check[c].day]
             p == IF RunOutcome(content) = "completed" THEN "accept" ELSE "delete"
             s == [check[c] EXCEPT !.dream = d, !.pc = p, !.todo = ValidCandidates(content)]
  <2>1. s \in CheckStates /\ s.pc \notin {"supersede", "project"}
    BY <1>2, CandidatesType DEF CheckStates, PCs
  <2>2. Become(c, s)
    BY <1>10 DEF SettleRun
  <2>3. runs' \in Seq(Run)
    <3>1. runs' = [runs EXCEPT ![check[c].run].status = RunOutcome(content)]
      BY <1>10 DEF SettleRun
    <3>2. RunOutcome(content) \in {"completed", "blocked"}
      BY CandidatesType
    <3> QED BY <1>1, <1>2, <3>1, <3>2, StatusUpdate
  <2> HIDE DEF s
  <2> QED BY <2>1, <2>2, <2>3, <1>4, <1>3, <1>1, <1>10 DEF SettleRun
<1>11. ASSUME NEW c \in Checks, Settle(c) \/ Repair(c) PROVE TypeInv'
  BY <1>10, <1>11, CandidatesType DEF Settle, Repair, RhythmStatus
<1>12. ASSUME NEW c \in Checks, ReadStale(c) PROVE TypeInv'
  <2>1. \E s \in CheckStates : Become(c, s) /\ s.pc \notin {"supersede", "project"}
    <3> DEFINE s1 == [check[c] EXCEPT !.pc = "delete", !.dream = "completed"]
               s2 == [check[c] EXCEPT !.pc = "delete"]
    <3>1. s1 \in CheckStates /\ s2 \in CheckStates
      BY <1>2, UpdateType, PCsKnown
    <3>4. s1.pc = "delete" /\ s2.pc = "delete"
      BY <1>2 DEF CheckStates
    <3>2. ASSUME NEW i \in DOMAIN runs
          PROVE  /\ [check[c] EXCEPT !.pc = "repair", !.run = i] \in CheckStates
                 /\ [check[c] EXCEPT !.pc = "repair", !.run = i].pc = "repair"
      <4>1. i \in Nat
        BY <1>1
      <4>2. [check[c] EXCEPT !.pc = "repair", !.run = i] \in CheckStates
        BY <4>1, <1>2, UpdateType, PCsKnown
      <4> QED BY <4>2, <1>2 DEF CheckStates
    <3>3. \/ Become(c, s1) \/ Become(c, s2)
          \/ \E i \in DOMAIN runs : Become(c, [check[c] EXCEPT !.pc = "repair", !.run = i])
      BY <1>12 DEF ReadStale
    <3> QED BY <3>1, <3>2, <3>3, <3>4
  <2> QED BY <2>1, <1>4, <1>3, <1>1, <1>12 DEF ReadStale, tables
<1>13. ASSUME NEW c \in Checks, Accept(c) PROVE TypeInv'
  <2>1. \E s \in CheckStates : Become(c, s) /\ (s.pc \in {"supersede", "project"} => s.todo # <<>>)
    <3> DEFINE p(x) == [check[c] EXCEPT !.pc = x]
    <3>1. p("delete") \in CheckStates /\ p("project") \in CheckStates
      BY <1>2, UpdateType, PCsKnown
    <3>4. p("delete").pc = "delete" /\ p("project").todo = check[c].todo
      BY <1>2 DEF CheckStates
    <3>2. ASSUME NEW i \in ActiveRows(check[c].day)
          PROVE  /\ [check[c] EXCEPT !.pc = "supersede", !.active = i] \in CheckStates
                 /\ [check[c] EXCEPT !.pc = "supersede", !.active = i].todo = check[c].todo
      <4>1. i \in Nat
        BY <1>1, <1>2 DEF ActiveRows
      <4>2. [check[c] EXCEPT !.pc = "supersede", !.active = i] \in CheckStates
        BY <4>1, <1>2, UpdateType, PCsKnown
      <4> QED BY <4>2, <1>2 DEF CheckStates
    <3>3. \/ Become(c, p("delete"))
          \/ check[c].todo # <<>> /\ Become(c, p("project"))
          \/ /\ check[c].todo # <<>>
             /\ \E i \in ActiveRows(check[c].day) :
                   Become(c, [check[c] EXCEPT !.pc = "supersede", !.active = i])
      BY <1>13 DEF Accept
    <3> QED BY <3>1, <3>2, <3>3, <3>4
  <2> QED BY <2>1, <1>4, <1>3, <1>1, <1>13 DEF Accept, tables
<1>14. ASSUME NEW c \in Checks, Supersede(c) PROVE TypeInv'
  <2>1. \E s \in CheckStates : Become(c, s) /\ (s.pc \in {"supersede", "project"} => s.todo # <<>>)
    <3> DEFINE s == [check[c] EXCEPT !.pc = "project", !.active = 0]
    <3>1. s \in CheckStates
      BY <1>2, UpdateType, PCsKnown
    <3>2. check[c].todo # <<>> /\ Become(c, s)
      BY <1>14, <1>1 DEF Supersede, TodoOK
    <3>3. s.todo = check[c].todo
      BY <1>2 DEF CheckStates
    <3> QED BY <3>1, <3>2, <3>3
  <2>2. [proj[check[c].day] EXCEPT ![check[c].active].status = "superseded"] \in Seq(Projection)
    BY <1>1, <1>2, StatusUpdate
  <2>3. proj' \in [Days -> Seq(Projection)]
    BY <1>14, <1>1, <1>2, <2>2 DEF Supersede
  <2> QED BY <2>1, <2>3, <1>4, <1>3, <1>1, <1>14 DEF Supersede
<1>15. ASSUME NEW c \in Checks, Project(c) PROVE TypeInv'
  <2>1. check[c].todo # <<>>
    BY <1>15, <1>1 DEF Project, TodoOK
  <2>2. Head(check[c].todo) \in {"summary", "signals"} /\ Tail(check[c].todo) \in Seq({"summary", "signals"})
    BY <2>1, <1>2
  <2>3. \E s \in CheckStates : Become(c, s) /\ s.pc \notin {"supersede", "project"}
    <3> DEFINE s == [check[c] EXCEPT !.pc = "accept", !.todo = Tail(@)]
    <3>1. s \in CheckStates
      BY <1>2, <2>2, UpdateType, PCsKnown
    <3>2. Become(c, s)
      BY <1>15 DEF Project
    <3>3. s.pc = "accept"
      BY <1>2 DEF CheckStates
    <3> QED BY <3>1, <3>2, <3>3
  <2>4. proj' \in [Days -> Seq(Projection)]
    BY <1>15, <1>1, <1>2, <2>2 DEF Project
  <2> QED BY <2>3, <2>4, <1>4, <1>3, <1>1, <1>15 DEF Project
<1>16. ASSUME NEW c \in Checks, DeleteRow(c) PROVE TypeInv'
  <2>1. \E s \in CheckStates : Become(c, s) /\ s.pc \notin {"supersede", "project"}
    BY <1>16, <1>2 DEF DeleteRow, CheckStates, PCs
  <2> QED BY <2>1, <1>4, <1>3, <1>1, <1>16 DEF DeleteRow
<1>17. [Idle EXCEPT !.pc = "flush"] \in CheckStates /\ [Idle EXCEPT !.pc = "flush"].pc = "flush"
  BY IdleType DEF CheckStates, PCs
<1>18. ASSUME NEW c \in Checks, InsertRow(c) PROVE TypeInv'
  <2>1. row' \in [Days -> RowValue]
    BY <1>18, <1>1, <1>2 DEF InsertRow
  <2> QED BY <2>1, <1>17, <1>4, <1>3, <1>1, <1>18 DEF InsertRow
<1>19. ASSUME NEW c \in Checks, ReturnDegraded(c) PROVE TypeInv'
  BY <1>17, <1>5, <1>4, <1>3, <1>1, <1>19 DEF ReturnDegraded, tables
<1>20. ASSUME NEW c \in Checks, Flush(c) PROVE TypeInv'
  <2>1. disk' \in Tables /\ failures' \in Nat
    BY <1>20, <1>1, <1>5 DEF Flush
  <2>2. Idle \in CheckStates /\ Idle.pc = "idle"
    BY IdleType DEF Idle
  <2> QED BY <2>1, <2>2, <1>4, <1>3, <1>1, <1>20 DEF Flush, tables
<1>21. CASE RecordClosure
  BY <1>21, <1>1, <1>3 DEF RecordClosure, TodoOK
<1>22. CASE Tick
  <2>1. today' \in Days
    BY <1>22, <1>1, RhythmAssumption DEF Tick, Days
  <2> QED BY <2>1, <1>22, <1>1, <1>3 DEF Tick, TodoOK, tables
<1>23. CASE Crash
  <2>1. check' \in [Checks -> CheckStates] /\ TodoOK'
    BY <1>23, IdleType DEF Crash, TodoOK, Idle
  <2>2. /\ disk.closures \in SUBSET Days /\ disk.runs \in Seq(Run)
        /\ disk.review \in [Days -> Contents \cup {"none"}]
        /\ disk.row \in [Days -> RowValue] /\ disk.proj \in [Days -> Seq(Projection)]
    BY <1>1 DEF Tables
  <2> QED BY <2>1, <2>2, <1>23, <1>1, <1>3 DEF Crash
<1>24. CASE UNCHANGED vars
  BY <1>24, <1>1, <1>3 DEF vars, tables, TodoOK
<1> QED
  BY <1>6, <1>7, <1>8, <1>9, <1>11, <1>12, <1>13, <1>14, <1>15, <1>16, <1>18, <1>19,
     <1>20, <1>21, <1>22, <1>23, <1>24 DEF Next, Step

\* Every variable, the image on disk included, keeps its type whatever the
\* overlap, the failures and the crashes.
THEOREM TypeCorrect == Spec => []TypeOK
<1>1. TypeInv => TypeOK
  BY DEF TypeInv
<1> QED BY <1>1, TypeInit, TypeNext, PTL DEF Spec

-----------------------------------------------------------------------------
\* Facts about an image of the tables, in memory or on disk: a day has at most
\* one run, a run has its review, and a completed Quiet was persisted together
\* with the Dream status that followed from it.
RunTables(t) ==
    /\ \A i, j \in DOMAIN t.runs : t.runs[i].day = t.runs[j].day => i = j
    /\ \A i \in DOMAIN t.runs : t.review[t.runs[i].day] # "none"
    /\ \A d \in Days : t.row[d].quiet = "completed" => t.row[d].dream \in Terminal \cup {"scheduled"}

\* The calls that may still schedule a run, and those past that point.
MayDream(s) == s.pc \in {"interval", "schedule"}
PastDream(s) == s.pc \in {"settle", "stale", "repair", "accept", "supersede", "project", "delete", "insert"}

\* A call may schedule a run only for a day whose review it has inserted: no
\* other call may, and the day has no run yet.
RunChecks ==
    /\ \A c \in Checks : MayDream(check[c]) =>
          /\ review[check[c].day] # "none"
          /\ \A i \in DOMAIN runs : runs[i].day # check[c].day
    /\ \A b, c \in Checks :
          MayDream(check[b]) /\ MayDream(check[c]) /\ check[b].day = check[c].day => b = c
    /\ \A c \in Checks : PastDream(check[c]) /\ check[c].quiet = "completed"
          => check[c].dream \in Terminal \cup {"scheduled"}

RunInv == RunTables(Image) /\ RunTables(disk) /\ RunChecks

LEMMA RunInit == Init => RunInv
<1> SUFFICES ASSUME Init PROVE RunInv
  OBVIOUS
<1>1. \A c \in Checks : check[c].pc = "idle"
  BY DEF Init, Idle
<1>2. RunChecks
  BY <1>1 DEF RunChecks, MayDream, PastDream
<1>3. RunTables(Image)
  <2>1. CASE runs = <<>> /\ row = [d \in Days |-> NoRow]
    BY <2>1 DEF RunTables, Image, NoRow
  <2>2. CASE ~(runs = <<>> /\ row = [d \in Days |-> NoRow])
    <3>1. /\ runs = <<[day |-> 1, status |-> "scheduled"]>> /\ 1 \in Days
          /\ \E k \in Contents : review = [d \in Days |-> IF d = 1 THEN k ELSE "none"]
          /\ row = [d \in Days |-> IF d = 1 THEN [quiet |-> "completed", dream |-> "scheduled"] ELSE NoRow]
      BY <2>2, RhythmAssumption DEF Init, Days
    <3>2. review[1] # "none"
      BY <3>1, RhythmAssumption
    <3> QED BY <3>1, <3>2 DEF RunTables, Image, NoRow
  <2> QED BY <2>1, <2>2
<1> QED BY <1>2, <1>3 DEF RunInv, Init

\* A step of one call that schedules nothing and gives nobody the right to.
LEMMA LocalStep ==
    ASSUME TypeInv, RunInv, NEW c \in Checks, NEW s \in CheckStates, Become(c, s),
           review' = review, DOMAIN runs' = DOMAIN runs,
           \A i \in DOMAIN runs : runs'[i].day = runs[i].day,
           MayDream(s) => MayDream(check[c]) /\ s.day = check[c].day,
           PastDream(s) /\ s.quiet = "completed" => s.dream \in Terminal \cup {"scheduled"}
    PROVE  RunChecks'
<1>1. check \in [Checks -> CheckStates]
  BY DEF TypeInv, TypeOK
<1>2. \A b \in Checks : check'[b] = IF b = c THEN s ELSE check[b]
  BY <1>1 DEF Become
<1>3. \A b \in Checks : MayDream(check'[b]) => MayDream(check[b]) /\ check'[b].day = check[b].day
  BY <1>2
<1> QED BY <1>2, <1>3 DEF RunInv, RunChecks

LEMMA RunNext == TypeInv /\ RunInv /\ [Next]_vars => RunInv'
<1> SUFFICES ASSUME TypeInv, RunInv, [Next]_vars PROVE RunInv'
  OBVIOUS
<1>1. /\ check \in [Checks -> CheckStates] /\ today \in Days
      /\ row \in [Days -> RowValue] /\ review \in [Days -> Contents \cup {"none"}]
      /\ runs \in Seq(Run)
  BY DEF TypeInv, TypeOK, Image, Tables, RowValue, Run
<1>2. TypeInv'
  BY TypeNext
<1>3. \A c \in Checks : check[c].day \in Days /\ check'[c].day \in Days
  BY <1>1, <1>2 DEF CheckStates, TypeInv, TypeOK
\* The tables in memory, once their image is spelt out.
<1>4. /\ \A i, j \in DOMAIN runs : runs[i].day = runs[j].day => i = j
      /\ \A i \in DOMAIN runs : review[runs[i].day] # "none"
      /\ \A d \in Days : row[d].quiet = "completed" => row[d].dream \in Terminal \cup {"scheduled"}
  BY DEF RunInv, RunTables, Image
<1>5. ASSUME \A i, j \in DOMAIN runs' : runs'[i].day = runs'[j].day => i = j,
             \A i \in DOMAIN runs' : review'[runs'[i].day] # "none",
             \A d \in Days : row'[d].quiet = "completed" => row'[d].dream \in Terminal \cup {"scheduled"}
      PROVE  RunTables(Image)'
  BY <1>5 DEF RunTables, Image
<1>6. ASSUME UNCHANGED tables PROVE RunTables(Image)'
  BY <1>6, <1>4, <1>5 DEF tables
<1>7. ASSUME NEW c \in Checks, NEW s, Become(c, s) PROVE s = check'[c] /\ s \in CheckStates
  BY <1>7, <1>1, <1>2 DEF Become, TypeInv, TypeOK
<1>8. ASSUME NEW c \in Checks, Begin(c) PROVE RunInv'
  <2> DEFINE r  == RowOrDefault(today)
             s0 == [Idle EXCEPT !.day = today, !.quiet = r.quiet, !.dream = r.dream]
  <2>1. r \in [quiet : RhythmStatus, dream : RhythmStatus]
    BY <1>1 DEF RowOrDefault, RowValue, RhythmStatus
  <2>2. s0 \in CheckStates /\ s0.quiet = r.quiet /\ s0.dream = r.dream
    BY <2>1, <1>1, IdleType DEF CheckStates
  <2>3. r.quiet = "completed" => r.dream \in Terminal \cup {"scheduled"}
    BY <1>1, <1>4 DEF RowOrDefault
  <2>4. PICK s : Become(c, s) /\ ~MayDream(s)
                 /\ (PastDream(s) /\ s.quiet = "completed" => s.dream \in Terminal \cup {"scheduled"})
    <3>1. CASE Become(c, AfterQuiet(s0)) /\ r.quiet \in Terminal
      <4>1. PICK s : s = AfterQuiet(s0)
        OBVIOUS
      <4>2. /\ s.pc \in {"delete", "stale", "interval"} /\ s.quiet = r.quiet
            /\ s.pc = "interval" => r.quiet = "completed" /\ r.dream \notin Terminal \cup {"scheduled"}
            /\ r.quiet = "completed" => s.dream = r.dream
        BY <4>1, <2>2, AfterQuietType
      <4>3. ~MayDream(s)
        BY <4>2, <2>3 DEF MayDream
      <4> QED BY <4>1, <4>2, <4>3, <3>1, <2>3
    <3>2. CASE Become(c, AfterQuiet([s0 EXCEPT !.quiet = "not_due"]))
      <4>1. [s0 EXCEPT !.quiet = "not_due"] \in CheckStates /\ [s0 EXCEPT !.quiet = "not_due"].quiet = "not_due"
        BY <2>2 DEF CheckStates, RhythmStatus
      <4> QED BY <3>2, <4>1, AfterQuietType DEF MayDream
    <3>3. CASE Become(c, [s0 EXCEPT !.quiet = "due", !.pc = "quiet"])
      <4>1. [s0 EXCEPT !.quiet = "due", !.pc = "quiet"].pc = "quiet"
        BY <2>2 DEF CheckStates
      <4> QED BY <3>3, <4>1 DEF MayDream, PastDream
    <3> QED BY <1>8, <3>1, <3>2, <3>3 DEF Begin, Handled
  <2> QED BY <2>4, <1>7, <1>8, <1>6, LocalStep DEF Begin, RunInv, tables
<1>9. ASSUME NEW c \in Checks, BuildQuiet(c) PROVE RunInv'
  <2> DEFINE d == check[c].day
             s(q) == AfterQuiet([check[c] EXCEPT !.quiet = q])
  <2>1. \A q \in {"completed", "blocked"} :
           /\ [check[c] EXCEPT !.quiet = q] \in CheckStates
           /\ [check[c] EXCEPT !.quiet = q].quiet = q
           /\ [check[c] EXCEPT !.quiet = q].day = d
    BY <1>1 DEF CheckStates, RhythmStatus
  <2>2. CASE UNCHANGED review /\ Become(c, s("blocked"))
    <3>1. s("blocked").quiet = "blocked" /\ ~MayDream(s("blocked"))
      BY <2>1, AfterQuietType DEF MayDream
    <3>2. RunChecks'
      BY <2>2, <3>1, <1>7, <1>9, LocalStep DEF BuildQuiet
    <3> QED BY <2>2, <3>2, <1>6, <1>9 DEF BuildQuiet, RunInv, tables
  <2>3. CASE /\ ~ReviewConflict(d)
             /\ \E k \in Contents : review' = [review EXCEPT ![d] = k]
             /\ Become(c, s("completed"))
    <3>1. /\ review[d] = "none" /\ review'[d] # "none"
          /\ \A e \in Days : e # d => review'[e] = review[e]
      BY <2>3, <1>1, <1>3, RhythmAssumption DEF ReviewConflict
    <3>2. RunTables(Image)'
      <4>1. \A i \in DOMAIN runs : runs[i].day \in Days
        <5>1. \A i \in DOMAIN runs : runs[i] \in Run
          BY <1>1
        <5> QED BY <5>1 DEF Run
      <4>2. runs' = runs /\ row' = row
        BY <1>9 DEF BuildQuiet
      <4> QED BY <3>1, <4>1, <4>2, <1>4, <1>5
    <3>3. \A b \in Checks : check'[b] = IF b = c THEN s("completed") ELSE check[b]
      BY <2>3, <1>1 DEF Become
    <3>4. /\ s("completed").day = d
          /\ s("completed").pc = "delete" \/ s("completed").pc = "stale" \/ s("completed").pc = "interval"
      BY <2>1, AfterQuietType
    <3>5. \A b \in Checks : MayDream(check[b]) => check[b].day # d
      BY <3>1 DEF RunInv, RunChecks
    <3>6. \A i \in DOMAIN runs : runs[i].day # d
      BY <3>1, <1>4
    <3>7. PastDream(s("completed")) => s("completed").dream \in Terminal \cup {"scheduled"}
      <4>1. [check[c] EXCEPT !.quiet = "completed"] \in CheckStates
        BY <2>1
      <4> QED BY <4>1 DEF AfterQuiet, PastDream, Terminal, CheckStates
    <3>8. RunChecks'
      <4>1. ASSUME NEW b \in Checks, MayDream(check'[b])
            PROVE  /\ review'[check'[b].day] # "none"
                   /\ \A i \in DOMAIN runs' : runs'[i].day # check'[b].day
        BY <4>1, <3>1, <3>3, <3>4, <3>5, <3>6, <1>3, <1>9 DEF RunInv, RunChecks, BuildQuiet
      <4>2. ASSUME NEW a \in Checks, NEW b \in Checks, MayDream(check'[a]), MayDream(check'[b]),
                   check'[a].day = check'[b].day
            PROVE  a = b
        BY <4>2, <3>3, <3>4, <3>5 DEF RunInv, RunChecks
      <4>3. ASSUME NEW b \in Checks, PastDream(check'[b]), check'[b].quiet = "completed"
            PROVE  check'[b].dream \in Terminal \cup {"scheduled"}
        BY <4>3, <3>3, <3>7 DEF RunInv, RunChecks
      <4> QED BY <4>1, <4>2, <4>3 DEF RunChecks
    <3> QED BY <3>2, <3>8, <1>9 DEF BuildQuiet, RunInv
  <2> QED BY <1>9, <2>2, <2>3 DEF BuildQuiet
<1>10. ASSUME NEW c \in Checks, CheckInterval(c) PROVE RunInv'
  <2>1. PICK s : /\ Become(c, s) /\ s.day = check[c].day
                 /\ PastDream(s) => s.dream \in Terminal
    <3>1. \A i \in LatestTerminal(runs) : runs[i].status \in Terminal
      BY DEF LatestTerminal
    <3>2. CASE Become(c, [check[c] EXCEPT !.pc = "schedule", !.dream = "due"])
      <4> DEFINE s == [check[c] EXCEPT !.pc = "schedule", !.dream = "due"]
      <4>1. s.pc = "schedule" /\ s.day = check[c].day
        BY <1>1 DEF CheckStates
      <4>2. Become(c, s)
        BY <3>2
      <4> HIDE DEF s
      <4> QED BY <4>1, <4>2 DEF PastDream
    <3>3. ASSUME NEW i \in LatestTerminal(runs),
                 Become(c, [check[c] EXCEPT !.pc = "delete", !.dream = runs[i].status])
          PROVE  \E s : Become(c, s) /\ s.day = check[c].day /\ (PastDream(s) => s.dream \in Terminal)
      <4> DEFINE s == [check[c] EXCEPT !.pc = "delete", !.dream = runs[i].status]
      <4>1. s.dream = runs[i].status /\ s.day = check[c].day
        BY <1>1 DEF CheckStates
      <4>2. Become(c, s)
        BY <3>3
      <4> HIDE DEF s
      <4> QED BY <4>1, <4>2, <3>1, <3>3
    <3> QED BY <1>10, <3>2, <3>3 DEF CheckInterval
  <2>2. MayDream(check[c])
    BY <1>10 DEF CheckInterval, MayDream
  <2> QED BY <2>1, <2>2, <1>7, <1>10, <1>6, LocalStep DEF CheckInterval, RunInv, tables
<1>11. ASSUME NEW c \in Checks, Schedule(c) PROVE RunInv'
  <2> DEFINE d == check[c].day
  <2>1. PICK s : Become(c, s) /\ s.pc \in {"settle", "delete"} /\ s.dream \in {"scheduled", "blocked"}
    <3> DEFINE s1 == [check[c] EXCEPT !.pc = "settle", !.dream = "scheduled", !.run = Len(runs) + 1]
               s2 == [check[c] EXCEPT !.pc = "delete", !.dream = "blocked"]
    <3>1. s1.pc = "settle" /\ s1.dream = "scheduled" /\ s2.pc = "delete" /\ s2.dream = "blocked"
      BY <1>1 DEF CheckStates
    <3>2. Become(c, s1) \/ Become(c, s2)
      BY <1>11 DEF Schedule
    <3> HIDE DEF s1, s2
    <3> QED BY <3>1, <3>2
  <2>2. MayDream(check[c]) /\ ~MayDream(s)
    BY <2>1, <1>11 DEF Schedule, MayDream
  <2>3. CASE UNCHANGED runs
    <3>1. RunChecks'
      BY <2>1, <2>2, <2>3, <1>7, <1>11, LocalStep DEF Schedule, Terminal
    <3> QED BY <2>3, <3>1, <1>6, <1>11 DEF Schedule, RunInv, tables
  <2>4. CASE runs' = Append(runs, [day |-> d, status |-> "scheduled"])
    <3>1. /\ DOMAIN runs' = 1..Len(runs) + 1 /\ DOMAIN runs = 1..Len(runs) /\ Len(runs) \in Nat
          /\ \A i \in DOMAIN runs : runs'[i] = runs[i]
          /\ runs'[Len(runs) + 1].day = d
      BY <2>4, <1>1
    <3>2. /\ review[d] # "none" /\ \A i \in DOMAIN runs : runs[i].day # d
          /\ \A b \in Checks : MayDream(check[b]) /\ check[b].day = d => b = c
      BY <2>2 DEF RunInv, RunChecks
    <3>3. RunTables(Image)'
      BY <3>1, <3>2, <1>4, <1>5, <1>11 DEF Schedule
    <3>4. \A b \in Checks : check'[b] = IF b = c THEN s ELSE check[b]
      BY <2>1, <1>1 DEF Become
    <3>5. RunChecks'
      <4>1. ASSUME NEW b \in Checks, MayDream(check'[b])
            PROVE  /\ review'[check'[b].day] # "none"
                   /\ \A i \in DOMAIN runs' : runs'[i].day # check'[b].day
        <5>1. b # c /\ check'[b] = check[b] /\ MayDream(check[b])
          BY <4>1, <3>4, <2>2
        <5>2. check[b].day # d /\ review[check[b].day] # "none"
              /\ \A i \in DOMAIN runs : runs[i].day # check[b].day
          BY <5>1, <3>2 DEF RunInv, RunChecks
        <5> QED BY <5>1, <5>2, <3>1, <1>11 DEF Schedule
      <4>2. \A a, b \in Checks : MayDream(check'[a]) /\ MayDream(check'[b])
               /\ check'[a].day = check'[b].day => a = b
        BY <3>4, <2>2 DEF RunInv, RunChecks
      <4>3. \A b \in Checks : PastDream(check'[b]) /\ check'[b].quiet = "completed"
               => check'[b].dream \in Terminal \cup {"scheduled"}
        BY <3>4, <2>1 DEF RunInv, RunChecks, Terminal
      <4> QED BY <4>1, <4>2, <4>3 DEF RunChecks
    <3> QED BY <3>3, <3>5, <1>11 DEF Schedule, RunInv
  <2> QED BY <2>3, <2>4, <1>11 DEF Schedule
<1>12. ASSUME NEW c \in Checks, NEW e \in Terminal, SettleRun(c, e) PROVE RunInv'
  <2>1. PICK s : Become(c, s) /\ s.dream = e /\ s.pc \in {"accept", "delete"}
    <3> DEFINE content == review[check[c].day]
               p == IF RunOutcome(content) = "completed" THEN "accept" ELSE "delete"
               s == [check[c] EXCEPT !.dream = e, !.pc = p, !.todo = ValidCandidates(content)]
    <3>1. s.dream = e /\ s.pc = p
      BY <1>1 DEF CheckStates
    <3>2. Become(c, s)
      BY <1>12 DEF SettleRun
    <3>3. p \in {"accept", "delete"}
      OBVIOUS
    <3> HIDE DEF s, p
    <3> QED BY <3>1, <3>2, <3>3
  <2>2. /\ DOMAIN runs' = DOMAIN runs
        /\ \A i \in DOMAIN runs : runs'[i].day = runs[i].day
    <3>1. \A i \in DOMAIN runs : runs[i] \in Run
      BY <1>1
    <3>2. runs' = [runs EXCEPT ![check[c].run].status = RunOutcome(review[check[c].day])]
      BY <1>12 DEF SettleRun
    <3> QED BY <3>1, <3>2 DEF Run
  <2>3. RunTables(Image)'
    BY <2>2, <1>4, <1>5, <1>12 DEF SettleRun
  <2>4. ~MayDream(s)
    BY <2>1 DEF MayDream
  <2>5. RunChecks'
    BY <2>1, <2>2, <2>4, <1>7, <1>12, LocalStep DEF SettleRun
  <2> QED BY <2>3, <2>5, <1>12 DEF SettleRun, RunInv
<1>13. ASSUME NEW c \in Checks, Settle(c) \/ Repair(c) PROVE RunInv'
  BY <1>12, <1>13, CandidatesType DEF Settle, Repair, Terminal
\* The remaining steps of a call leave the reviews and the runs alone and move
\* it further past the point where it could schedule.
<1>14. ASSUME NEW c \in Checks, NEW s, Become(c, s), UNCHANGED <<review, runs, disk>>, ~MayDream(s),
              \/ s.pc \in {"idle", "flush"}
              \/ PastDream(check[c]) /\ s.quiet = check[c].quiet /\ s.dream \in Terminal \cup {check[c].dream},
              RunTables(Image)'
       PROVE  RunInv'
  <2>1. PastDream(s) /\ s.quiet = "completed" => s.dream \in Terminal \cup {"scheduled"}
    BY <1>14 DEF PastDream, RunInv, RunChecks
  <2> QED BY <2>1, <1>14, <1>7, LocalStep DEF RunInv
<1>15. ASSUME NEW c \in Checks, ReadStale(c) \/ Accept(c) PROVE RunInv'
  <2>1. PICK s : /\ Become(c, s) /\ s.pc \in {"delete", "repair", "project", "supersede"}
                 /\ s.quiet = check[c].quiet /\ s.dream \in Terminal \cup {check[c].dream}
    <3>1. CASE ReadStale(c)
      <4> DEFINE s1 == [check[c] EXCEPT !.pc = "delete", !.dream = "completed"]
                 s2 == [check[c] EXCEPT !.pc = "delete"]
                 s3(i) == [check[c] EXCEPT !.pc = "repair", !.run = i]
      <4>1. /\ s1.pc = "delete" /\ s1.quiet = check[c].quiet /\ s1.dream = "completed"
            /\ s2.pc = "delete" /\ s2.quiet = check[c].quiet /\ s2.dream = check[c].dream
        BY <1>1 DEF CheckStates
      <4>2. \A i : s3(i).pc = "repair" /\ s3(i).quiet = check[c].quiet /\ s3(i).dream = check[c].dream
        BY <1>1 DEF CheckStates
      <4>3. Become(c, s1) \/ Become(c, s2) \/ \E i \in DOMAIN runs : Become(c, s3(i))
        BY <3>1 DEF ReadStale
      <4> HIDE DEF s1, s2, s3
      <4> QED BY <4>1, <4>2, <4>3 DEF Terminal
    <3>2. CASE Accept(c)
      <4> DEFINE s1(q) == [check[c] EXCEPT !.pc = q]
                 s2(i) == [check[c] EXCEPT !.pc = "supersede", !.active = i]
      <4>1. \A q : s1(q).pc = q /\ s1(q).quiet = check[c].quiet /\ s1(q).dream = check[c].dream
        BY <1>1 DEF CheckStates
      <4>2. \A i : s2(i).pc = "supersede" /\ s2(i).quiet = check[c].quiet /\ s2(i).dream = check[c].dream
        BY <1>1 DEF CheckStates
      <4>3. \/ Become(c, s1("delete")) \/ Become(c, s1("project"))
            \/ \E i \in ActiveRows(check[c].day) : Become(c, s2(i))
        BY <3>2 DEF Accept
      <4> HIDE DEF s1, s2
      <4> QED BY <4>1, <4>2, <4>3
    <3> QED BY <1>15, <3>1, <3>2
  <2>2. PastDream(check[c]) /\ ~MayDream(s)
    BY <1>15, <2>1 DEF ReadStale, Accept, PastDream, MayDream
  <2> QED BY <2>1, <2>2, <1>6, <1>14, <1>15 DEF ReadStale, Accept, tables
<1>16. ASSUME NEW c \in Checks, Supersede(c) \/ Project(c) PROVE RunInv'
  <2>1. PICK s : /\ Become(c, s) /\ s.pc \in {"project", "accept"}
                 /\ s.quiet = check[c].quiet /\ s.dream = check[c].dream
    <3> DEFINE s1 == [check[c] EXCEPT !.pc = "project", !.active = 0]
               s2 == [check[c] EXCEPT !.pc = "accept", !.todo = Tail(@)]
    <3>1. /\ s1.pc = "project" /\ s1.quiet = check[c].quiet /\ s1.dream = check[c].dream
          /\ s2.pc = "accept" /\ s2.quiet = check[c].quiet /\ s2.dream = check[c].dream
      BY <1>1 DEF CheckStates
    <3>2. Become(c, s1) \/ Become(c, s2)
      BY <1>16 DEF Supersede, Project
    <3> HIDE DEF s1, s2
    <3> QED BY <3>1, <3>2
  <2>2. PastDream(check[c]) /\ ~MayDream(s)
    BY <1>16, <2>1 DEF Supersede, Project, PastDream, MayDream
  <2>3. RunTables(Image)'
    BY <1>16, <1>4, <1>5 DEF Supersede, Project
  <2> QED BY <2>1, <2>2, <2>3, <1>14, <1>16 DEF Supersede, Project
<1>17. ASSUME NEW c \in Checks, DeleteRow(c) PROVE RunInv'
  <2>1. PICK s : /\ Become(c, s) /\ s.pc = "insert"
                 /\ s.quiet = check[c].quiet /\ s.dream = check[c].dream
    <3> DEFINE s == [check[c] EXCEPT !.pc = "insert"]
    <3>1. s.pc = "insert" /\ s.quiet = check[c].quiet /\ s.dream = check[c].dream
      BY <1>1 DEF CheckStates
    <3>2. Become(c, s)
      BY <1>17 DEF DeleteRow
    <3> HIDE DEF s
    <3> QED BY <3>1, <3>2
  <2>2. PastDream(check[c]) /\ ~MayDream(s)
    BY <1>17, <2>1 DEF DeleteRow, PastDream, MayDream
  <2>3. RunTables(Image)'
    BY <1>17, <1>1, <1>4, <1>5 DEF DeleteRow, NoRow
  <2> QED BY <2>1, <2>2, <2>3, <1>14, <1>17 DEF DeleteRow
<1>18. /\ [Idle EXCEPT !.pc = "flush"].pc = "flush" /\ Idle.pc = "idle"
       /\ ~MayDream([Idle EXCEPT !.pc = "flush"]) /\ ~MayDream(Idle)
  BY DEF Idle, MayDream
<1>19. ASSUME NEW c \in Checks, InsertRow(c) PROVE RunInv'
  <2>1. check[c].quiet = "completed" => check[c].dream \in Terminal \cup {"scheduled"}
    BY <1>19 DEF InsertRow, PastDream, RunInv, RunChecks
  <2>2. RunTables(Image)'
    BY <1>19, <2>1, <1>1, <1>4, <1>5 DEF InsertRow
  <2> QED BY <2>2, <1>18, <1>14, <1>19 DEF InsertRow
<1>20. ASSUME NEW c \in Checks, ReturnDegraded(c) PROVE RunInv'
  BY <1>18, <1>14, <1>6, <1>20 DEF ReturnDegraded, tables
<1>21. ASSUME NEW c \in Checks, Flush(c) PROVE RunInv'
  <2>1. RunChecks'
    BY <1>18, <1>7, <1>21, LocalStep DEF Flush, tables, PastDream
  <2>2. RunTables(Image)'
    BY <1>6, <1>21 DEF Flush
  <2>3. RunTables(disk)'
    BY <1>21 DEF Flush, RunInv
  <2> QED BY <2>1, <2>2, <2>3 DEF RunInv
<1>22. CASE RecordClosure \/ Tick \/ UNCHANGED vars
  <2>1. UNCHANGED <<review, runs, row, check, disk>>
    BY <1>22 DEF RecordClosure, Tick, vars, tables
  <2> QED BY <2>1, <1>4, <1>5 DEF RunInv, RunChecks
<1>23. CASE Crash
  <2>1. \A c \in Checks : check'[c].pc = "idle"
    BY <1>23 DEF Crash, Idle
  <2>2. RunChecks'
    BY <2>1 DEF RunChecks, MayDream, PastDream
  <2>3. RunTables(Image)'
    BY <1>23, <1>5 DEF Crash, RunInv, RunTables
  <2> QED BY <2>2, <2>3, <1>23 DEF Crash, RunInv
<1> QED
  BY <1>8, <1>9, <1>10, <1>11, <1>13, <1>15, <1>16, <1>17, <1>19, <1>20, <1>21, <1>22, <1>23
     DEF Next, Step

\* However many calls overlap, fail or are cut short by a crash, a day is
\* dreamt about at most once.
THEOREM OneRunPerDayHolds == Spec => []OneRunPerDay
<1>1. RunInv => OneRunPerDay
  BY DEF RunInv, RunTables, Image, OneRunPerDay
<1> QED BY <1>1, TypeInit, TypeNext, RunInit, RunNext, PTL DEF Spec

-----------------------------------------------------------------------------
\* The runs that ended, and the days between a run and day d.
Ended(rs) == {i \in DOMAIN rs : rs[i].status \in Terminal}
Since(rs, i, d) == d - rs[i].day

\* Facts about an image of the tables on day now: the runs that ended are
\* apart, none is of a day to come, and only the leftover of an earlier
\* release is a scheduled Dream in a row.
ApartTables(t, now) ==
    /\ \A i, j \in Ended(t.runs) :
          i # j => Since(t.runs, i, t.runs[j].day) >= DreamInterval
                   \/ Since(t.runs, j, t.runs[i].day) >= DreamInterval
    /\ \A i \in DOMAIN t.runs : t.runs[i].day <= now
    /\ \A d \in Days : t.row[d].dream = "scheduled" => d = 1

\* A call in state s is of today.  When it is about to schedule or to settle
\* its run, every other run ended long enough ago.
Placed(s, rs, now) ==
    /\ s.pc \notin {"idle", "flush"} => s.day = now
    /\ s.dream = "scheduled" /\ s.pc # "settle" => s.day = 1
    /\ s.pc \in {"stale", "repair"} => s.day = 1
    /\ s.pc \in {"settle", "repair"} => s.run \in DOMAIN rs /\ rs[s.run].day = s.day
    /\ s.pc = "schedule" => \A i \in Ended(rs) : Since(rs, i, s.day) >= DreamInterval
    /\ s.pc = "settle" => \A i \in Ended(rs) : i # s.run => Since(rs, i, s.day) >= DreamInterval

ApartInv ==
    /\ ApartTables(Image, today) /\ ApartTables(disk, today)
    /\ \A c \in Checks : Placed(check[c], runs, today)

LEMMA RunsTyped ==
    ASSUME TypeInv
    PROVE  /\ runs \in Seq(Run) /\ Len(runs) \in Nat /\ DOMAIN runs = 1..Len(runs)
           /\ \A i \in DOMAIN runs : runs[i] \in Run /\ runs[i].day \in Days /\ runs[i].day \in Nat \ {0}
           /\ today \in Days /\ today \in Nat \ {0} /\ DreamInterval \in Nat
           /\ check \in [Checks -> CheckStates] /\ row \in [Days -> RowValue]
           /\ review \in [Days -> Contents \cup {"none"}]
           /\ \A c \in Checks : check[c] \in CheckStates /\ check[c].day \in Nat \ {0}
<1>1. /\ runs \in Seq(Run) /\ today \in Days /\ check \in [Checks -> CheckStates]
      /\ row \in [Days -> RowValue] /\ review \in [Days -> Contents \cup {"none"}]
  BY DEF TypeInv, TypeOK, Image, Tables, Run, RowValue
<1>2. \A i \in DOMAIN runs : runs[i] \in Run
  BY <1>1
<1>3. Days \subseteq Nat \ {0} /\ DreamInterval \in Nat
  BY RhythmAssumption DEF Days
<1>4. \A c \in Checks : check[c] \in CheckStates /\ check[c].day \in Days
  BY <1>1 DEF CheckStates
<1>5. \A i \in DOMAIN runs : runs[i].day \in Days
  BY <1>2 DEF Run
<1> QED
  BY <1>1, <1>2, <1>3, <1>4, <1>5, SMTT(30)

LEMMA ApartBegins == Init => ApartInv
<1> SUFFICES ASSUME Init PROVE ApartInv
  OBVIOUS
<1>1. \A c \in Checks : check[c] = Idle
  BY DEF Init
<1>2. Placed(Idle, runs, today)
  BY DEF Placed, Idle
<1>3. Image.runs = runs /\ Image.row = row /\ disk = Image /\ today = 1
  BY DEF Image, Init
<1>4. \/ runs = <<>>
      \/ runs = <<[day |-> 1, status |-> "scheduled"]>>
  BY DEF Init
<1>5. Ended(runs) = {} /\ \A i \in DOMAIN runs : runs[i].day <= 1
  BY <1>4 DEF Ended, Terminal
<1>6. \A d \in Days : row[d].dream = "scheduled" => d = 1
  BY DEF Init, NoRow
<1> QED
  BY <1>1, <1>2, <1>3, <1>5, <1>6 DEF ApartInv, ApartTables

\* A call's step that leaves the runs alone.
LEMMA ApartStays ==
    ASSUME TypeInv, ApartInv, NEW c \in Checks, NEW s, Become(c, s), Placed(s, runs, today),
           UNCHANGED <<today, runs>>, disk' = disk \/ disk' = Image,
           \A d \in Days : row'[d].dream = "scheduled" => d = 1
    PROVE  ApartInv'
<1>1. Image'.runs = runs /\ Image'.row = row' /\ Image.runs = runs /\ Image.row = row
  BY DEF Image
<1>2. ApartTables(Image', today')
  BY <1>1 DEF ApartTables, ApartInv
<1>3. \A b \in Checks : check'[b] = s \/ check'[b] = check[b]
  BY RunsTyped DEF Become
<1> QED
  BY <1>2, <1>3 DEF ApartInv

LEMMA AfterQuietPlaced ==
    ASSUME NEW s \in CheckStates, NEW rs, NEW now, s.day = now, s.dream = "scheduled" => s.day = 1
    PROVE  Placed(AfterQuiet(s), rs, now)
<1> DEFINE t == AfterQuiet(s)
<1>1. t.day = s.day /\ t.pc \in {"delete", "stale", "interval"}
  BY AfterQuietType
<1>2. (t.dream = "scheduled" => s.dream = "scheduled") /\ (t.pc = "stale" => s.dream = "scheduled")
  BY DEF AfterQuiet, CheckStates
<1> HIDE DEF t
<1> QED
  BY <1>1, <1>2 DEF Placed, t

LEMMA ApartBegin == ASSUME TypeInv, ApartInv, NEW c \in Checks, Begin(c) PROVE ApartInv'
<1> DEFINE r  == RowOrDefault(today)
           s0 == [Idle EXCEPT !.day = today, !.quiet = r.quiet, !.dream = r.dream]
           s1 == [s0 EXCEPT !.quiet = "not_due"]
           s2 == [s0 EXCEPT !.quiet = "due", !.pc = "quiet"]
<1>1. r \in [quiet : RhythmStatus, dream : RhythmStatus] /\ (r.dream = "scheduled" => today = 1)
  <2>1. row[today] \in RowValue /\ (row[today].dream = "scheduled" => today = 1)
    BY RunsTyped DEF ApartInv, ApartTables, Image
  <2> QED
    BY <2>1 DEF RowOrDefault, RowValue, RhythmStatus
<1>2. {s0, s1, s2} \subseteq CheckStates
  <2>1. today \in Days /\ r.quiet \in RhythmStatus /\ r.dream \in RhythmStatus
        /\ {"not_due", "due"} \subseteq RhythmStatus /\ "quiet" \in PCs
    BY <1>1, RunsTyped DEF RhythmStatus, PCs
  <2> HIDE DEF r
  <2>2. s0 \in CheckStates
    BY <2>1, IdleType DEF CheckStates
  <2> HIDE DEF s0
  <2> QED
    BY <2>1, <2>2 DEF CheckStates
<1>3. /\ s0.day = today /\ s0.dream = r.dream /\ s1.day = today /\ s1.dream = r.dream
      /\ s2.day = today /\ s2.dream = r.dream /\ s2.pc = "quiet"
  BY DEF Idle
<1>4. Become(c, AfterQuiet(s0)) \/ Become(c, AfterQuiet(s1)) \/ Become(c, s2)
  BY DEF Begin
<1> HIDE DEF s0, s1, s2, r
<1>5. Placed(AfterQuiet(s0), runs, today) /\ Placed(AfterQuiet(s1), runs, today)
  BY <1>1, <1>2, <1>3, AfterQuietPlaced
<1>6. Placed(s2, runs, today)
  BY <1>1, <1>3 DEF Placed
<1>7. UNCHANGED <<today, runs, disk, row>>
  BY DEF Begin, tables
<1>8. \A d \in Days : row'[d].dream = "scheduled" => d = 1
  BY <1>7 DEF ApartInv, ApartTables, Image
<1> QED
  BY <1>4, <1>5, <1>6, <1>7, <1>8, ApartStays

LEMMA ApartQuiet == ASSUME TypeInv, ApartInv, NEW c \in Checks, BuildQuiet(c) PROVE ApartInv'
<1> DEFINE s(q) == [check[c] EXCEPT !.quiet = q]
<1>1. \A q \in {"completed", "blocked"} : s(q) \in CheckStates /\ s(q).day = check[c].day /\ s(q).dream = check[c].dream
  BY RunsTyped DEF CheckStates, RhythmStatus
<1>2. check[c].day = today /\ (check[c].dream = "scheduled" => check[c].day = 1)
  BY DEF BuildQuiet, ApartInv, Placed
<1>3. \E q \in {"completed", "blocked"} : Become(c, AfterQuiet(s(q)))
  BY DEF BuildQuiet
<1> HIDE DEF s
<1>4. \A q \in {"completed", "blocked"} : Placed(AfterQuiet(s(q)), runs, today)
  BY <1>1, <1>2, AfterQuietPlaced
<1>5. UNCHANGED <<today, runs, disk, row>>
  BY DEF BuildQuiet
<1>6. \A d \in Days : row'[d].dream = "scheduled" => d = 1
  BY <1>5 DEF ApartInv, ApartTables, Image
<1> QED
  BY <1>3, <1>4, <1>5, <1>6, ApartStays

\* The latest run that ended is the nearest one: when it is far enough away, or
\* there is none, all are.
LEMMA LatestDecides ==
    ASSUME TypeInv, ApartInv
    PROVE  /\ LatestTerminal(runs) = {} => Ended(runs) = {}
           /\ \A i \in LatestTerminal(runs) :
                 /\ i \in Ended(runs)
                 /\ \A j \in Ended(runs) : Since(runs, j, today) >= Since(runs, i, today)
<1>1. \A i \in LatestTerminal(runs) : i \in Ended(runs) /\ \A j \in Ended(runs) : runs[j].day <= runs[i].day
  BY DEF LatestTerminal, Ended
<1>2. \A i, j \in Ended(runs) : runs[j].day <= runs[i].day => Since(runs, j, today) >= Since(runs, i, today)
  BY RunsTyped DEF Since, Ended
<1>3. ASSUME Ended(runs) # {} PROVE LatestTerminal(runs) # {}
  <2> DEFINE T == {today - runs[i].day : i \in Ended(runs)}
  <2>1. \A i \in Ended(runs) : today - runs[i].day \in Nat
    BY RunsTyped DEF ApartInv, ApartTables, Image, Ended
  <2>2. PICK n \in T : \A m \in T : n <= m
    <3>1. T \subseteq Nat /\ T # {}
      BY <1>3, <2>1
    <3> HIDE DEF T
    <3> QED
      BY <3>1, LeastNat
  <2>3. PICK i \in Ended(runs) : n = today - runs[i].day
    BY <2>2
  <2>4. \A j \in Ended(runs) : today - runs[i].day <= today - runs[j].day
    BY <2>2, <2>3
  <2>5. \A j \in Ended(runs) : runs[j].day <= runs[i].day
    BY <2>4, RunsTyped DEF Ended
  <2> QED
    BY <2>5 DEF LatestTerminal, Ended
<1> QED
  BY <1>1, <1>2, <1>3

LEMMA ApartInterval == ASSUME TypeInv, ApartInv, NEW c \in Checks, CheckInterval(c) PROVE ApartInv'
<1> DEFINE s1 == [check[c] EXCEPT !.pc = "schedule", !.dream = "due"]
           s2(i) == [check[c] EXCEPT !.pc = "delete", !.dream = runs[i].status]
<1>1. /\ s1.pc = "schedule" /\ s1.dream = "due" /\ s1.day = check[c].day
      /\ \A i : s2(i).pc = "delete" /\ s2(i).day = check[c].day /\ s2(i).dream = runs[i].status
  BY RunsTyped DEF CheckStates
<1>2. check[c].day = today
  BY DEF CheckInterval, ApartInv, Placed
<1>3. \/ Become(c, s1) /\ \A i \in Ended(runs) : Since(runs, i, today) >= DreamInterval
      \/ \E i \in LatestTerminal(runs) : Become(c, s2(i))
  <2>1. CASE LatestTerminal(runs) = {} /\ Become(c, s1)
    BY <2>1, LatestDecides
  <2>2. ASSUME NEW i \in LatestTerminal(runs), MaybeOutside(runs[i], check[c].day), Become(c, s1)
        PROVE  \A j \in Ended(runs) : Since(runs, j, today) >= DreamInterval
    <3>1. Since(runs, i, today) >= DreamInterval
      BY <1>2, <2>2 DEF MaybeOutside, Since
    <3>2. \A j \in Ended(runs) : Since(runs, j, today) >= Since(runs, i, today)
      BY LatestDecides
    <3>3. \A j \in DOMAIN runs : Since(runs, j, today) \in Int
      BY RunsTyped DEF Since
    <3>4. i \in Ended(runs) /\ Ended(runs) \subseteq DOMAIN runs
      BY LatestDecides DEF Ended
    <3> QED
      BY <3>1, <3>2, <3>3, <3>4, RunsTyped
  <2> QED
    BY <2>1, <2>2 DEF CheckInterval
<1> HIDE DEF s1, s2
<1>4. UNCHANGED <<today, runs, disk, row>>
  BY DEF CheckInterval, tables
<1>5. \A d \in Days : row'[d].dream = "scheduled" => d = 1
  BY <1>4 DEF ApartInv, ApartTables, Image
<1>6. CASE Become(c, s1) /\ \A i \in Ended(runs) : Since(runs, i, today) >= DreamInterval
  <2>1. Placed(s1, runs, today)
    BY <1>1, <1>2, <1>6 DEF Placed
  <2> QED
    BY <1>4, <1>5, <1>6, <2>1, ApartStays
<1>7. ASSUME NEW i \in LatestTerminal(runs), Become(c, s2(i)) PROVE ApartInv'
  <2>1. runs[i].status # "scheduled"
    BY DEF LatestTerminal, Terminal
  <2>2. Placed(s2(i), runs, today)
    BY <1>1, <1>2, <2>1 DEF Placed
  <2> QED
    BY <1>4, <1>5, <1>7, <2>2, ApartStays
<1> QED
  BY <1>3, <1>6, <1>7

LEMMA ApartSchedule == ASSUME TypeInv, RunInv, ApartInv, NEW c \in Checks, Schedule(c) PROVE ApartInv'
<1> DEFINE n  == Len(runs) + 1
           s1 == [check[c] EXCEPT !.pc = "settle", !.dream = "scheduled", !.run = n]
           s2 == [check[c] EXCEPT !.pc = "delete", !.dream = "blocked"]
<1>1. /\ s1.pc = "settle" /\ s1.day = check[c].day /\ s1.run = n
      /\ s2.pc = "delete" /\ s2.day = check[c].day /\ s2.dream = "blocked"
  BY RunsTyped DEF CheckStates
<1>2. check[c].day = today /\ \A i \in Ended(runs) : Since(runs, i, today) >= DreamInterval
  BY DEF Schedule, ApartInv, Placed
<1>3. UNCHANGED <<today, disk, row>>
  BY DEF Schedule
<1>4. \A d \in Days : row'[d].dream = "scheduled" => d = 1
  BY <1>3 DEF ApartInv, ApartTables, Image
<1>5. CASE UNCHANGED runs /\ Become(c, s2)
  <2>1. Placed(s2, runs, today)
    BY <1>1, <1>2 DEF Placed
  <2> HIDE DEF s2
  <2> QED
    BY <1>3, <1>4, <1>5, <2>1, ApartStays
<1>6. CASE runs' = Append(runs, [day |-> check[c].day, status |-> "scheduled"]) /\ Become(c, s1)
  <2>1. /\ DOMAIN runs' = 1..n /\ DOMAIN runs = 1..Len(runs) /\ n \in Nat /\ n \notin DOMAIN runs
        /\ \A i \in DOMAIN runs : i \in DOMAIN runs' /\ runs'[i] = runs[i]
        /\ n \in DOMAIN runs' /\ runs'[n].day = today /\ runs'[n].status = "scheduled"
        /\ \A i \in DOMAIN runs' : i = n \/ i \in DOMAIN runs
    BY <1>2, <1>6, RunsTyped
  <2>2. Ended(runs') = Ended(runs) /\ Ended(runs) \subseteq DOMAIN runs
    BY <2>1 DEF Ended, Terminal
  <2>3. ASSUME NEW s, Placed(s, runs, today) PROVE Placed(s, runs', today)
    BY <2>1, <2>2, <2>3 DEF Placed, Since
  <2>4. Placed(s1, runs', today)
    <3>1. \A i \in Ended(runs) : Since(runs', i, today) >= DreamInterval
      BY <1>2, <2>1, <2>2 DEF Since
    <3> HIDE DEF s1
    <3> QED
      BY <1>1, <1>2, <2>1, <2>2, <3>1 DEF Placed
  <2> HIDE DEF s1
  <2>5. \A b \in Checks : check'[b] = s1 \/ check'[b] = check[b]
    BY <1>6, RunsTyped DEF Become
  <2>6. \A b \in Checks : Placed(check'[b], runs', today')
    BY <1>3, <2>3, <2>4, <2>5 DEF ApartInv
  <2>7. ApartTables(Image', today')
    <3>1. \A i, j \in Ended(runs) :
             i # j => Since(runs, i, runs[j].day) >= DreamInterval \/ Since(runs, j, runs[i].day) >= DreamInterval
      BY DEF ApartInv, ApartTables, Image
    <3>2. \A i, j \in Ended(runs') :
             i # j => Since(runs', i, runs'[j].day) >= DreamInterval \/ Since(runs', j, runs'[i].day) >= DreamInterval
      BY <2>1, <2>2, <3>1 DEF Since
    <3>3. \A i \in DOMAIN runs' : runs'[i].day <= today
      BY <2>1, RunsTyped DEF ApartInv, ApartTables, Image
    <3>4. Image'.runs = runs' /\ Image'.row = row'
      BY DEF Image
    <3> QED
      BY <1>3, <1>4, <3>2, <3>3, <3>4 DEF ApartTables
  <2> QED
    BY <1>3, <2>6, <2>7 DEF ApartInv
<1> QED
  BY <1>5, <1>6 DEF Schedule

\* The run that ends is of today.  When it was scheduled by the call that
\* settles it, the interval check found every other run far enough; when it is
\* the leftover that is repaired, there is no other.
LEMMA ApartSettle ==
    ASSUME TypeInv, RunInv, ApartInv, NEW c \in Checks, NEW e \in Terminal,
           check[c].pc \in {"settle", "repair"}, SettleRun(c, e)
    PROVE  ApartInv'
<1> DEFINE r == check[c].run
           content == review[check[c].day]
           p == IF RunOutcome(content) = "completed" THEN "accept" ELSE "delete"
           s == [check[c] EXCEPT !.dream = e, !.pc = p, !.todo = ValidCandidates(content)]
<1>1. s.pc = p /\ s.day = check[c].day /\ s.dream = e /\ p \in {"accept", "delete"}
  BY RunsTyped DEF CheckStates
<1>2. Become(c, s) /\ UNCHANGED <<today, disk, row>>
  BY DEF SettleRun
<1>3. check[c].day = today /\ r \in DOMAIN runs /\ runs[r].day = today
  BY DEF ApartInv, Placed
<1>4. /\ DOMAIN runs' = DOMAIN runs
      /\ \A i \in DOMAIN runs : runs'[i].day = runs[i].day /\ (i # r => runs'[i] = runs[i])
  <2>1. \A i \in DOMAIN runs : runs[i] \in Run
    BY RunsTyped
  <2>2. runs' = [runs EXCEPT ![r].status = RunOutcome(content)]
    BY DEF SettleRun
  <2> QED
    BY <2>1, <2>2 DEF Run
<1>5. \A i \in Ended(runs') : i \in DOMAIN runs /\ (i # r => i \in Ended(runs))
  BY <1>4 DEF Ended
<1>6. \A i \in DOMAIN runs : runs[i].day = today => i = r
  BY <1>3 DEF RunInv, RunTables, Image
<1> HIDE DEF s, p, r
<1>7. \A i \in Ended(runs') : i # r => Since(runs', i, today) >= DreamInterval
  <2>1. CASE check[c].pc = "settle"
    BY <1>3, <1>4, <1>5, <2>1 DEF ApartInv, Placed, Since, r
  <2>2. CASE check[c].pc = "repair"
    <3>1. today = 1
      BY <1>3, <2>2 DEF ApartInv, Placed
    <3>2. \A i \in DOMAIN runs : runs[i].day <= 1
      BY <3>1 DEF ApartInv, ApartTables, Image
    <3>3. \A i \in DOMAIN runs : runs[i].day = today
      BY <3>1, <3>2, RunsTyped
    <3> QED
      BY <1>5, <1>6, <3>3
  <2> QED
    BY <2>1, <2>2
<1>8. ApartTables(Image', today')
  <2>1. \A i, j \in Ended(runs) :
           i # j => Since(runs, i, runs[j].day) >= DreamInterval \/ Since(runs, j, runs[i].day) >= DreamInterval
    BY DEF ApartInv, ApartTables, Image
  <2>2. ASSUME NEW i \in Ended(runs'), NEW j \in Ended(runs'), i # j
        PROVE  Since(runs', i, runs'[j].day) >= DreamInterval \/ Since(runs', j, runs'[i].day) >= DreamInterval
    <3>1. CASE i = r
      BY <1>3, <1>4, <1>5, <1>7, <2>2, <3>1
    <3>2. CASE j = r
      BY <1>3, <1>4, <1>5, <1>7, <2>2, <3>2
    <3>3. CASE i # r /\ j # r
      BY <1>4, <1>5, <2>1, <2>2, <3>3 DEF Since
    <3> QED
      BY <3>1, <3>2, <3>3
  <2>3. \A i \in DOMAIN runs' : runs'[i].day <= today
    BY <1>4 DEF ApartInv, ApartTables, Image
  <2>4. \A d \in Days : row'[d].dream = "scheduled" => d = 1
    BY <1>2 DEF ApartInv, ApartTables, Image
  <2>5. Image'.runs = runs' /\ Image'.row = row'
    BY DEF Image
  <2> QED
    BY <1>2, <2>2, <2>3, <2>4, <2>5 DEF ApartTables
<1>9. ASSUME NEW b \in Checks, Placed(check[b], runs, today) PROVE Placed(check[b], runs', today)
  <2>1. CASE check[b].pc = "schedule"
    <3>1. check[b].day = today
      BY <1>9, <2>1 DEF Placed
    <3>2. FALSE
      BY <1>3, <2>1, <3>1 DEF RunInv, RunChecks, MayDream
    <3> QED
      BY <3>2
  <2>2. CASE check[b].pc = "settle"
    <3>1. check[b].run \in DOMAIN runs /\ runs[check[b].run].day = today /\ check[b].day = today
      BY <1>9, <2>2 DEF Placed
    <3>2. check[b].run = r
      BY <1>6, <3>1
    <3> QED
      BY <1>4, <1>7, <2>2, <3>1, <3>2 DEF Placed
  <2>3. CASE check[b].pc \notin {"schedule", "settle"}
    BY <1>4, <1>9, <2>3 DEF Placed
  <2> QED
    BY <2>1, <2>2, <2>3
<1>10. Placed(s, runs', today)
  BY <1>1, <1>3 DEF Placed, Terminal
<1>11. \A b \in Checks : check'[b] = s \/ check'[b] = check[b]
  BY <1>2, RunsTyped DEF Become
<1> QED
  BY <1>2, <1>8, <1>9, <1>10, <1>11 DEF ApartInv

\* The steps that only move a call on, or write its day's row.
LEMMA ApartMoves ==
    ASSUME TypeInv, ApartInv, NEW c \in Checks, NEW s, Become(c, s), UNCHANGED <<today, runs>>,
           disk' = disk \/ disk' = Image,
           \/ s = Idle \/ s = [Idle EXCEPT !.pc = "flush"]
           \/ /\ check[c].pc \notin {"idle", "flush", "settle"}
              /\ s.pc \in {"repair", "accept", "supersede", "project", "delete", "insert"}
              /\ s.day = check[c].day /\ s.dream \in {check[c].dream, "completed"}
              /\ s.pc = "repair" => /\ check[c].pc = "stale"
                                    /\ s.run \in DOMAIN runs /\ runs[s.run].day = s.day,
           \A d \in Days : row'[d].dream = "scheduled" => d = 1
    PROVE  ApartInv'
<1>1. CASE s = Idle \/ s = [Idle EXCEPT !.pc = "flush"]
  <2>1. Placed(s, runs, today)
    BY <1>1 DEF Placed, Idle
  <2> QED
    BY <2>1, ApartStays
<1>2. CASE ~(s = Idle \/ s = [Idle EXCEPT !.pc = "flush"])
  <2>1. Placed(check[c], runs, today)
    BY DEF ApartInv
  <2>2. Placed(s, runs, today)
    BY <1>2, <2>1 DEF Placed
  <2> QED
    BY <2>2, ApartStays
<1> QED
  BY <1>1, <1>2

LEMMA ApartMoving ==
    ASSUME TypeInv, ApartInv, NEW c \in Checks,
           \/ ReadStale(c) \/ Accept(c) \/ Supersede(c) \/ Project(c) \/ DeleteRow(c)
           \/ InsertRow(c) \/ ReturnDegraded(c) \/ Flush(c)
    PROVE  ApartInv'
<1>1. \A d \in Days : row[d].dream = "scheduled" => d = 1
  BY DEF ApartInv, ApartTables, Image
<1>2. CASE ReadStale(c)
  <2> DEFINE s1 == [check[c] EXCEPT !.pc = "delete", !.dream = "completed"]
             s2 == [check[c] EXCEPT !.pc = "delete"]
             s3(i) == [check[c] EXCEPT !.pc = "repair", !.run = i]
  <2>1. /\ s1.pc = "delete" /\ s1.day = check[c].day /\ s1.dream = "completed"
        /\ s2.pc = "delete" /\ s2.day = check[c].day /\ s2.dream = check[c].dream
        /\ \A i : s3(i).pc = "repair" /\ s3(i).day = check[c].day /\ s3(i).dream = check[c].dream /\ s3(i).run = i
    BY RunsTyped DEF CheckStates
  <2>2. \/ Become(c, s1) \/ Become(c, s2)
        \/ \E i \in DOMAIN runs : runs[i].day = check[c].day /\ Become(c, s3(i))
    BY <1>2 DEF ReadStale
  <2> HIDE DEF s1, s2, s3
  <2>3. UNCHANGED <<today, runs, row, disk>> /\ check[c].pc = "stale"
    BY <1>2 DEF ReadStale, tables
  <2>4. CASE Become(c, s1)
    BY <1>1, <2>1, <2>3, <2>4, ApartMoves
  <2>5. CASE Become(c, s2)
    BY <1>1, <2>1, <2>3, <2>5, ApartMoves
  <2>6. ASSUME NEW i \in DOMAIN runs, runs[i].day = check[c].day, Become(c, s3(i)) PROVE ApartInv'
    BY <1>1, <2>1, <2>3, <2>6, ApartMoves
  <2> QED
    BY <2>2, <2>4, <2>5, <2>6
<1>3. CASE Accept(c) \/ Supersede(c) \/ Project(c) \/ DeleteRow(c)
  <2> DEFINE s1(q) == [check[c] EXCEPT !.pc = q]
             s2(i) == [check[c] EXCEPT !.pc = "supersede", !.active = i]
             s3 == [check[c] EXCEPT !.pc = "project", !.active = 0]
             s4 == [check[c] EXCEPT !.pc = "accept", !.todo = Tail(@)]
  <2>1. /\ \A q : s1(q).pc = q /\ s1(q).day = check[c].day /\ s1(q).dream = check[c].dream
        /\ \A i : s2(i).pc = "supersede" /\ s2(i).day = check[c].day /\ s2(i).dream = check[c].dream
        /\ s3.pc = "project" /\ s3.day = check[c].day /\ s3.dream = check[c].dream
        /\ s4.pc = "accept" /\ s4.day = check[c].day /\ s4.dream = check[c].dream
    BY RunsTyped DEF CheckStates
  <2>2. \/ \E q \in {"delete", "project", "insert"} : Become(c, s1(q))
        \/ \E i \in ActiveRows(check[c].day) : Become(c, s2(i))
        \/ Become(c, s3) \/ Become(c, s4)
    BY <1>3 DEF Accept, Supersede, Project, DeleteRow
  <2> HIDE DEF s1, s2, s3, s4
  <2>3. PICK s : /\ Become(c, s) /\ s.pc \in {"accept", "supersede", "project", "delete", "insert"}
                 /\ s.day = check[c].day /\ s.dream = check[c].dream
    BY <2>1, <2>2
  <2>4. UNCHANGED <<today, runs, disk>> /\ check[c].pc \in {"accept", "supersede", "project", "delete"}
    BY <1>3 DEF Accept, Supersede, Project, DeleteRow, tables
  <2>5. \A d \in Days : row'[d].dream = "scheduled" => d = 1
    <3>1. CASE DeleteRow(c)
      <4>1. row \in [Days -> RowValue] /\ row' = [row EXCEPT ![check[c].day] = NoRow]
        BY <3>1, RunsTyped DEF DeleteRow
      <4>2. NoRow.dream # "scheduled"
        BY DEF NoRow
      <4> QED
        BY <1>1, <4>1, <4>2
    <3>2. CASE UNCHANGED row
      BY <1>1, <3>2
    <3> QED
      BY <1>3, <3>1, <3>2 DEF Accept, Supersede, Project, tables
  <2> QED
    BY <2>3, <2>4, <2>5, ApartMoves
<1>4. CASE InsertRow(c)
  <2>1. check[c].dream = "scheduled" => check[c].day = 1
    BY <1>4 DEF InsertRow, ApartInv, Placed
  <2>2. \A d \in Days : row'[d].dream = "scheduled" => d = 1
    BY <1>1, <1>4, <2>1, RunsTyped DEF InsertRow
  <2> QED
    BY <1>4, <2>2, ApartMoves DEF InsertRow
<1>5. CASE ReturnDegraded(c)
  BY <1>1, <1>5, ApartMoves DEF ReturnDegraded, tables
<1>6. CASE Flush(c)
  BY <1>1, <1>6, ApartMoves DEF Flush, tables
<1> QED
  BY <1>2, <1>3, <1>4, <1>5, <1>6

LEMMA ApartNext ==
    ASSUME ~MidnightOverlap, TypeInv, RunInv, ApartInv, [Next]_vars
    PROVE  ApartInv'
<1>1. ASSUME NEW c \in Checks, Step(c) PROVE ApartInv'
  <2>1. Settle(c) => check[c].pc = "settle" /\ \E e \in Terminal : SettleRun(c, e)
    BY CandidatesType DEF Settle, Terminal
  <2>2. Repair(c) => check[c].pc = "repair" /\ \E e \in Terminal : SettleRun(c, e)
    BY DEF Repair, Terminal
  <2> QED
    BY <1>1, <2>1, <2>2, ApartBegin, ApartQuiet, ApartInterval, ApartSchedule, ApartSettle, ApartMoving DEF Step
<1>2. CASE RecordClosure \/ UNCHANGED vars
  <2>1. UNCHANGED <<today, runs, row, disk, check>>
    BY <1>2 DEF RecordClosure, vars, tables
  <2> QED
    BY <2>1 DEF ApartInv, ApartTables, Image
<1>3. CASE Tick
  <2>1. today' = today + 1 /\ UNCHANGED <<runs, row, disk, check>>
    BY <1>3 DEF Tick, tables
  <2>2. ASSUME NEW t \in Tables, ApartTables(t, today) PROVE ApartTables(t, today + 1)
    <3>1. t.runs \in Seq(Run)
      BY DEF Tables, Run
    <3>2. \A i \in DOMAIN t.runs : t.runs[i] \in Run
      BY <3>1
    <3>3. \A i \in DOMAIN t.runs : t.runs[i].day \in Nat
      BY <3>2 DEF Run, Days
    <3> QED
      BY <2>2, <3>3, RunsTyped DEF ApartTables
  <2>3. Image' = Image /\ Image \in Tables /\ disk \in Tables
    BY <2>1, <1>3 DEF Image, Tick, tables, TypeInv, TypeOK
  <2>4. \A c \in Checks : Placed(check[c], runs, today + 1)
    BY <1>3 DEF Tick, ApartInv, Placed
  <2> QED
    BY <2>1, <2>2, <2>3, <2>4 DEF ApartInv
<1>4. CASE Crash
  <2>1. Placed(Idle, runs', today)
    BY DEF Placed, Idle
  <2>2. \A c \in Checks : check'[c] = Idle
    BY <1>4 DEF Crash
  <2>3. ApartTables(Image', today)
    BY <1>4 DEF Crash, Image, ApartInv, ApartTables
  <2> QED
    BY <1>4, <2>1, <2>2, <2>3 DEF Crash, ApartInv
<1> QED
  BY <1>1, <1>2, <1>3, <1>4 DEF Next

\* As long as no call runs across a change of day, two runs that ended are at
\* least the Dream interval apart: the interval check reads the runs before the
\* run is inserted, but on one day only one call may insert.
THEOREM DreamsKeptApart == ASSUME ~MidnightOverlap PROVE Spec => []DreamsApart
<1>1. TypeInv /\ ApartInv => DreamsApart
  <2> SUFFICES ASSUME TypeInv, ApartInv, NEW i \in DOMAIN runs, NEW j \in DOMAIN runs, i # j,
                      {runs[i].status, runs[j].status} \subseteq Terminal
               PROVE  runs[i].day - runs[j].day >= DreamInterval \/ runs[j].day - runs[i].day >= DreamInterval
    BY DEF DreamsApart
  <2>1. i \in Ended(runs) /\ j \in Ended(runs)
    BY DEF Ended
  <2> QED
    BY <2>1 DEF ApartInv, ApartTables, Image, Since
<1> QED
  BY <1>1, TypeInit, TypeNext, RunInit, RunNext, ApartBegins, ApartNext, PTL DEF Spec

-----------------------------------------------------------------------------
\* A call that may still schedule the day's run, or has and is not done with
\* the candidates of it.
Owner(s) == s.pc \in {"interval", "schedule", "settle", "accept", "supersede", "project"}

\* Facts about an image of the tables, in memory or on disk.
MemTables(t) ==
    /\ \A d \in Days : t.row[d].dream # "scheduled"
    /\ \A d \in Days : \A i, j \in DOMAIN t.proj[d] :
          t.proj[d][i].status = "active" /\ t.proj[d][j].status = "active" => i = j

\* A day with an owner has a review and no other owner, so what an owner has
\* read of its topic's projections still holds when it writes.
MemChecks ==
    /\ \A c \in Checks : Owner(check[c]) => review[check[c].day] # "none"
    /\ \A b, c \in Checks :
          Owner(check[b]) /\ Owner(check[c]) /\ check[b].day = check[c].day => b = c
    /\ \A c \in Checks : check[c].pc \notin {"stale", "repair"}
    /\ \A c \in Checks : check[c].dream = "scheduled" => check[c].pc = "settle"
    /\ \A c \in Checks : check[c].pc = "project" => ActiveRows(check[c].day) = {}
    /\ \A c \in Checks : check[c].pc = "supersede" => ActiveRows(check[c].day) = {check[c].active}

MemInv == MemTables(Image) /\ MemTables(disk) /\ MemChecks

LEMMA MemInit == ASSUME ~UpgradedDb PROVE Init => MemInv
<1> SUFFICES ASSUME Init PROVE MemInv
  OBVIOUS
<1>1. MemTables(Image)
  BY DEF Init, MemTables, Image, NoRow
<1>2. \A c \in Checks : check[c].pc = "idle" /\ check[c].dream = "not_due"
  BY DEF Init, Idle
<1>3. MemChecks
  BY <1>2 DEF MemChecks, Owner
<1> QED BY <1>1, <1>3 DEF MemInv, Init

\* A step of one call that takes a day only when nobody owns it, and changes
\* the projections of no day but the one it owns.
LEMMA OwnerStep ==
    ASSUME TypeInv, MemChecks, NEW c \in Checks, NEW s, Become(c, s),
           \A d \in Days : review[d] # "none" => review'[d] # "none",
           \A d \in Days : proj'[d] = proj[d] \/ (Owner(check[c]) /\ d = check[c].day),
           Owner(s) => /\ review'[s.day] # "none"
                       /\ \/ Owner(check[c]) /\ s.day = check[c].day
                          \/ \A b \in Checks : Owner(check[b]) => check[b].day # s.day,
           s.pc \notin {"stale", "repair"},
           s.dream = "scheduled" => s.pc = "settle",
           s.pc = "project" => ActiveRows(s.day)' = {},
           s.pc = "supersede" => ActiveRows(s.day)' = {s.active}
    PROVE  MemChecks'
<1>1. check \in [Checks -> CheckStates]
  BY DEF TypeInv, TypeOK
<1>2. \A b \in Checks : check'[b] = IF b = c THEN s ELSE check[b]
  BY <1>1 DEF Become
<1>3. \A b \in Checks : check[b].day \in Days
  BY <1>1 DEF CheckStates
<1>4. ASSUME NEW b \in Checks, b # c, Owner(check[b])
      PROVE  ActiveRows(check[b].day)' = ActiveRows(check[b].day)
  <2>1. check'[b] = check[b]
    BY <1>2, <1>4
  <2>2. proj'[check[b].day] = proj[check[b].day]
    BY <1>3, <1>4 DEF MemChecks
  <2> QED BY <2>1, <2>2 DEF ActiveRows
<1>5. \A b \in Checks : Owner(check'[b]) => review'[check'[b].day] # "none"
  BY <1>2, <1>3 DEF MemChecks
<1>6. \A a, b \in Checks :
         Owner(check'[a]) /\ Owner(check'[b]) /\ check'[a].day = check'[b].day => a = b
  BY <1>2 DEF MemChecks
<1>7. \A b \in Checks : /\ check'[b].pc \notin {"stale", "repair"}
                        /\ check'[b].dream = "scheduled" => check'[b].pc = "settle"
  BY <1>2 DEF MemChecks
<1>8. ASSUME NEW b \in Checks
      PROVE  /\ check'[b].pc = "project" => ActiveRows(check[b].day)' = {}
             /\ check'[b].pc = "supersede" => ActiveRows(check[b].day)' = {check'[b].active}
  <2>1. CASE b = c
    BY <2>1, <1>2
  <2>2. CASE b # c
    BY <2>2, <1>2, <1>4 DEF MemChecks, Owner
  <2> QED BY <2>1, <2>2
<1> QED BY <1>5, <1>6, <1>7, <1>8 DEF MemChecks

\* Without a completed Quiet there is no Dream, only the row to write.
LEMMA AfterQuietEnds ==
    ASSUME NEW s \in CheckStates, s.quiet \in {"not_due", "blocked"}
    PROVE  AfterQuiet(s).pc = "delete" /\ AfterQuiet(s).dream = s.quiet
  BY DEF AfterQuiet, CheckStates

LEMMA MemNext == TypeInv /\ RunInv /\ MemInv /\ [Next]_vars => MemInv'
<1> SUFFICES ASSUME TypeInv, RunInv, MemInv, [Next]_vars PROVE MemInv'
  OBVIOUS
<1>1. /\ check \in [Checks -> CheckStates] /\ today \in Days
      /\ row \in [Days -> RowValue] /\ review \in [Days -> Contents \cup {"none"}]
      /\ runs \in Seq(Run) /\ proj \in [Days -> Seq(Projection)]
  BY DEF TypeInv, TypeOK, Image, Tables, RowValue, Run, Projection
<1>2. \A c \in Checks : check[c].day \in Days
  BY <1>1 DEF CheckStates
\* The tables in memory, once their image is spelt out.
<1>3. /\ MemChecks
      /\ \A d \in Days : row[d].dream # "scheduled"
      /\ \A d \in Days : \A i, j \in ActiveRows(d) : i = j
  BY DEF MemInv, MemTables, Image, ActiveRows
<1>4. ASSUME \A d \in Days : row'[d].dream # "scheduled",
             \A d \in Days : \A i, j \in ActiveRows(d)' : i = j
      PROVE  MemTables(Image)'
  BY <1>4 DEF MemTables, Image, ActiveRows
<1>5. ASSUME UNCHANGED proj, \A d \in Days : row'[d].dream # "scheduled"
      PROVE  MemTables(Image)'
  BY <1>3, <1>4, <1>5 DEF ActiveRows
\* A step that owns nothing new and touches neither review nor projection.
<1>6. ASSUME NEW c \in Checks, NEW s, Become(c, s), UNCHANGED <<review, proj, disk>>,
             \A d \in Days : row'[d].dream # "scheduled",
             Owner(s) => Owner(check[c]) /\ s.day = check[c].day,
             s.pc \notin {"stale", "repair", "project", "supersede"},
             s.dream = "scheduled" => s.pc = "settle"
      PROVE  MemInv'
  <2>1. Owner(s) => review'[s.day] # "none"
    BY <1>3, <1>6 DEF MemChecks
  <2>2. MemChecks'
    BY <1>3, <1>6, <2>1, OwnerStep
  <2> QED BY <2>2, <1>5, <1>6 DEF MemInv
<1>7. ASSUME NEW c \in Checks, Begin(c) PROVE MemInv'
  <2> DEFINE r  == RowOrDefault(today)
             s0 == [Idle EXCEPT !.day = today, !.quiet = r.quiet, !.dream = r.dream]
  <2>1. r \in [quiet : RhythmStatus, dream : RhythmStatus] /\ r.dream # "scheduled"
    BY <1>1, <1>3 DEF RowOrDefault, RowValue, RhythmStatus
  <2>2. s0 \in CheckStates /\ s0.quiet = r.quiet /\ s0.dream = r.dream
    BY <2>1, <1>1, IdleType DEF CheckStates
  <2>3. r.quiet = "completed" => r.dream \in Terminal \cup {"scheduled"}
    BY <1>1 DEF RowOrDefault, RunInv, RunTables, Image
  <2>4. PICK s : Become(c, s) /\ s.pc \in {"delete", "quiet"} /\ s.dream # "scheduled"
    <3>1. CASE Become(c, AfterQuiet(s0)) /\ r.quiet \in Terminal
      <4>1. AfterQuiet(s0).pc = "delete" /\ AfterQuiet(s0).dream # "scheduled"
        BY <3>1, <2>1, <2>2, <2>3 DEF AfterQuiet, CheckStates, Terminal
      <4> QED BY <3>1, <4>1
    <3>2. CASE Become(c, AfterQuiet([s0 EXCEPT !.quiet = "not_due"]))
      <4> DEFINE s1 == [s0 EXCEPT !.quiet = "not_due"]
      <4>1. s1 \in CheckStates /\ s1.quiet = "not_due"
        BY <2>2 DEF CheckStates, RhythmStatus
      <4>2. AfterQuiet(s1).pc = "delete" /\ AfterQuiet(s1).dream = "not_due"
        BY <4>1, AfterQuietEnds
      <4> QED BY <3>2, <4>2
    <3>3. CASE Become(c, [s0 EXCEPT !.quiet = "due", !.pc = "quiet"])
      <4> DEFINE s1 == [s0 EXCEPT !.quiet = "due", !.pc = "quiet"]
      <4>1. s1.pc = "quiet" /\ s1.dream # "scheduled"
        BY <2>1, <2>2 DEF CheckStates
      <4>2. Become(c, s1)
        BY <3>3
      <4> HIDE DEF s1
      <4> QED BY <4>1, <4>2
    <3> QED BY <1>7, <3>1, <3>2, <3>3 DEF Begin, Handled
  <2> QED BY <2>4, <1>3, <1>6, <1>7 DEF Begin, tables, Owner
<1>8. ASSUME NEW c \in Checks, BuildQuiet(c) PROVE MemInv'
  <2> DEFINE d == check[c].day
             s(q) == AfterQuiet([check[c] EXCEPT !.quiet = q])
  <2>1. \A q \in {"completed", "blocked"} :
           /\ [check[c] EXCEPT !.quiet = q] \in CheckStates
           /\ [check[c] EXCEPT !.quiet = q].quiet = q
           /\ [check[c] EXCEPT !.quiet = q].dream = check[c].dream
           /\ [check[c] EXCEPT !.quiet = q].day = d
    BY <1>1, ZenonT(40) DEF CheckStates, RhythmStatus
  <2>2. check[c].dream # "scheduled"
    BY <1>3, <1>8 DEF MemChecks, BuildQuiet
  <2>3. CASE UNCHANGED review /\ Become(c, s("blocked"))
    <3>1. s("blocked").pc = "delete" /\ s("blocked").dream = "blocked"
      BY <2>1, AfterQuietEnds
    <3> QED BY <2>3, <3>1, <1>3, <1>6, <1>8 DEF BuildQuiet, Owner
  <2>4. CASE /\ ~ReviewConflict(d)
             /\ \E k \in Contents : review' = [review EXCEPT ![d] = k]
             /\ Become(c, s("completed"))
    <3>1. /\ review[d] = "none" /\ review'[d] # "none"
          /\ \A e \in Days : e # d => review'[e] = review[e]
      BY <2>4, <1>1, <1>2, RhythmAssumption DEF ReviewConflict
    <3>2. \A b \in Checks : Owner(check[b]) => check[b].day # d
      BY <3>1, <1>3 DEF MemChecks
    <3>3. /\ s("completed").pc \in {"delete", "interval"} /\ s("completed").day = d
          /\ s("completed").dream # "scheduled"
      BY <2>1, <2>2 DEF AfterQuiet, CheckStates
    <3> DEFINE t == s("completed")
    <3>4. PICK u : u = t
      OBVIOUS
    <3>5. UNCHANGED <<proj, row, disk>>
      BY <1>8 DEF BuildQuiet
    <3>6. Become(c, u) /\ u.pc \in {"delete", "interval"} /\ u.day = d /\ u.dream # "scheduled"
      BY <2>4, <3>3, <3>4
    <3>7. MemChecks'
      BY <3>1, <3>2, <3>5, <3>6, <1>2, <1>3, OwnerStep
    <3> QED BY <3>5, <3>7, <1>3, <1>5 DEF MemInv
  <2> QED BY <1>8, <2>3, <2>4 DEF BuildQuiet
<1>9. ASSUME NEW c \in Checks, CheckInterval(c) PROVE MemInv'
  <2>1. PICK s : /\ Become(c, s) /\ s.day = check[c].day
                 /\ s.pc \in {"schedule", "delete"} /\ s.dream # "scheduled"
    <3>1. \A i \in LatestTerminal(runs) : runs[i].status \in Terminal
      BY DEF LatestTerminal
    <3> DEFINE s1 == [check[c] EXCEPT !.pc = "schedule", !.dream = "due"]
               s2(i) == [check[c] EXCEPT !.pc = "delete", !.dream = runs[i].status]
    <3>2. s1.pc = "schedule" /\ s1.day = check[c].day /\ s1.dream = "due"
      BY <1>1 DEF CheckStates
    <3>3. \A i : s2(i).pc = "delete" /\ s2(i).day = check[c].day /\ s2(i).dream = runs[i].status
      BY <1>1 DEF CheckStates
    <3>4. Become(c, s1) \/ \E i \in LatestTerminal(runs) : Become(c, s2(i))
      BY <1>9 DEF CheckInterval
    <3> HIDE DEF s1, s2
    <3> QED BY <3>1, <3>2, <3>3, <3>4 DEF Terminal
  <2>2. Owner(check[c])
    BY <1>9 DEF CheckInterval, Owner
  <2> QED BY <2>1, <2>2, <1>3, <1>6, <1>9 DEF CheckInterval, tables
<1>10. ASSUME NEW c \in Checks, Schedule(c) PROVE MemInv'
  <2>1. PICK s : /\ Become(c, s) /\ s.day = check[c].day
                 /\ s.pc \in {"settle", "delete"} /\ (s.dream = "scheduled" => s.pc = "settle")
    <3> DEFINE s1 == [check[c] EXCEPT !.pc = "settle", !.dream = "scheduled", !.run = Len(runs) + 1]
               s2 == [check[c] EXCEPT !.pc = "delete", !.dream = "blocked"]
    <3>1. /\ s1.pc = "settle" /\ s1.day = check[c].day
          /\ s2.pc = "delete" /\ s2.day = check[c].day /\ s2.dream = "blocked"
      BY <1>1 DEF CheckStates
    <3>2. Become(c, s1) \/ Become(c, s2)
      BY <1>10 DEF Schedule
    <3> HIDE DEF s1, s2
    <3> QED BY <3>1, <3>2
  <2>2. Owner(check[c])
    BY <1>10 DEF Schedule, Owner
  <2> QED BY <2>1, <2>2, <1>3, <1>6, <1>10 DEF Schedule
<1>11. ASSUME NEW c \in Checks, Settle(c) PROVE MemInv'
  <2> DEFINE content == review[check[c].day]
             p == IF RunOutcome(content) = "completed" THEN "accept" ELSE "delete"
             e == RunOutcome(content)
             s == [check[c] EXCEPT !.dream = e, !.pc = p, !.todo = ValidCandidates(content)]
  <2>1. s.dream = e /\ s.pc = p /\ s.day = check[c].day
    BY <1>1 DEF CheckStates
  <2>2. Become(c, s) /\ Owner(check[c])
    BY <1>11 DEF Settle, SettleRun, Owner
  <2>3. p \in {"accept", "delete"} /\ e # "scheduled"
    BY CandidatesType
  <2>4. UNCHANGED <<review, proj, disk, row>>
    BY <1>11 DEF Settle, SettleRun
  <2>5. PICK u : u = s
    OBVIOUS
  <2> HIDE DEF s, p, e
  <2>6. Become(c, u) /\ u.pc \in {"accept", "delete"} /\ u.day = check[c].day /\ u.dream # "scheduled"
    BY <2>1, <2>2, <2>3, <2>5
  <2> QED BY <2>2, <2>4, <2>6, <1>3, <1>6
\* No call has got to the repair of a scheduled Dream.
<1>12. \A c \in Checks : ~ReadStale(c) /\ ~Repair(c)
  BY <1>3 DEF MemChecks, ReadStale, Repair
<1>13. ASSUME NEW c \in Checks, Accept(c) PROVE MemInv'
  <2> DEFINE d == check[c].day
             s1(q) == [check[c] EXCEPT !.pc = q]
             s2(i) == [check[c] EXCEPT !.pc = "supersede", !.active = i]
  <2>1. /\ Owner(check[c]) /\ check[c].dream # "scheduled" /\ review[d] # "none"
        /\ UNCHANGED <<review, proj, row, disk>>
    BY <1>3, <1>13 DEF Accept, Owner, MemChecks, tables
  <2>2. PICK s : /\ Become(c, s) /\ s.day = d /\ s.dream = check[c].dream
                 /\ \/ s.pc = "delete"
                    \/ s.pc = "project" /\ ActiveRows(d) = {}
                    \/ s.pc = "supersede" /\ s.active \in ActiveRows(d)
    <3>1. \A q : s1(q).pc = q /\ s1(q).day = d /\ s1(q).dream = check[c].dream
      BY <1>1 DEF CheckStates
    <3>2. \A i : s2(i).pc = "supersede" /\ s2(i).day = d /\ s2(i).dream = check[c].dream /\ s2(i).active = i
      BY <1>1 DEF CheckStates
    <3>3. \/ Become(c, s1("delete"))
          \/ Become(c, s1("project")) /\ ActiveRows(d) = {}
          \/ \E i \in ActiveRows(d) : Become(c, s2(i))
      BY <1>13 DEF Accept
    <3> HIDE DEF s1, s2
    <3> QED BY <3>1, <3>2, <3>3
  <2>3. s.pc = "project" => ActiveRows(s.day)' = {}
    BY <2>1, <2>2 DEF ActiveRows
  <2>4. s.pc = "supersede" => ActiveRows(s.day)' = {s.active}
    <3>1. ActiveRows(s.day)' = ActiveRows(s.day)
      BY <2>1 DEF ActiveRows
    <3> QED BY <3>1, <2>2, <1>2, <1>3
  <2>5. MemChecks'
    BY <2>1, <2>2, <2>3, <2>4, <1>3, OwnerStep
  <2> QED BY <2>1, <2>5, <1>3, <1>5 DEF MemInv
<1>14. ASSUME NEW c \in Checks, Supersede(c) PROVE MemInv'
  <2> DEFINE d == check[c].day
             i == check[c].active
             s == [check[c] EXCEPT !.pc = "project", !.active = 0]
  <2>1. /\ Owner(check[c]) /\ check[c].dream # "scheduled" /\ review[d] # "none" /\ d \in Days
        /\ ActiveRows(d) = {i} /\ UNCHANGED <<review, row, disk>>
    BY <1>2, <1>3, <1>14 DEF Supersede, Owner, MemChecks
  <2>2. proj' = [proj EXCEPT ![d] = [proj[d] EXCEPT ![i].status = "superseded"]]
    BY <1>14 DEF Supersede
  <2>3. \A e \in Days : e # d => proj'[e] = proj[e]
    BY <2>2, <1>1
  <2>4. /\ DOMAIN proj'[d] = DOMAIN proj[d] /\ i \in DOMAIN proj[d]
        /\ \A j \in DOMAIN proj[d] : j # i => proj'[d][j] = proj[d][j]
        /\ proj'[d][i].status = "superseded"
    <3>1. proj'[d] = [proj[d] EXCEPT ![i].status = "superseded"] /\ proj[d] \in Seq(Projection)
      BY <2>1, <2>2, <1>1
    <3>2. i \in DOMAIN proj[d]
      BY <2>1 DEF ActiveRows
    <3>3. proj[d][i] \in Projection
      BY <3>1, <3>2
    <3> QED BY <3>1, <3>2, <3>3 DEF Projection
  <2>5. {j \in DOMAIN proj'[d] : proj'[d][j].status = "active"} = {}
    BY <2>1, <2>4 DEF ActiveRows
  <2>6. PICK u : Become(c, u) /\ u.pc = "project" /\ u.day = d /\ u.dream = check[c].dream
    <3>1. s.pc = "project" /\ s.day = d /\ s.dream = check[c].dream
      BY <1>1 DEF CheckStates
    <3>2. Become(c, s)
      BY <1>14 DEF Supersede
    <3> HIDE DEF s
    <3> QED BY <3>1, <3>2
  <2>7. ActiveRows(u.day)' = {}
    BY <2>5, <2>6 DEF ActiveRows
  <2>8. MemChecks'
    BY <2>1, <2>3, <2>6, <2>7, <1>3, OwnerStep
  <2>9. ASSUME NEW e \in Days PROVE \A j, k \in ActiveRows(e)' : j = k
    BY <2>3, <2>5, <1>3 DEF ActiveRows
  <2> QED BY <2>1, <2>8, <2>9, <1>3, <1>4 DEF MemInv
<1>15. ASSUME NEW c \in Checks, Project(c) PROVE MemInv'
  <2> DEFINE d == check[c].day
             p == [cand |-> Head(check[c].todo), status |-> "active"]
             s == [check[c] EXCEPT !.pc = "accept", !.todo = Tail(@)]
  <2>1. /\ Owner(check[c]) /\ check[c].dream # "scheduled" /\ review[d] # "none" /\ d \in Days
        /\ ActiveRows(d) = {} /\ UNCHANGED <<review, row, disk>>
    BY <1>2, <1>3, <1>15 DEF Project, Owner, MemChecks
  <2>2. proj' = [proj EXCEPT ![d] = Append(proj[d], p)]
    BY <1>15 DEF Project
  <2>3. \A e \in Days : e # d => proj'[e] = proj[e]
    BY <2>2, <1>1
  <2>4. /\ DOMAIN proj'[d] = 1..Len(proj[d]) + 1 /\ DOMAIN proj[d] = 1..Len(proj[d])
        /\ Len(proj[d]) \in Nat
        /\ \A j \in DOMAIN proj[d] : proj'[d][j] = proj[d][j]
    BY <2>1, <2>2, <1>1
  <2>5. \A j \in DOMAIN proj'[d] : proj'[d][j].status = "active" => j = Len(proj[d]) + 1
    BY <2>1, <2>4 DEF ActiveRows
  <2>6. PICK u : Become(c, u) /\ u.pc = "accept" /\ u.day = d /\ u.dream = check[c].dream
    <3>1. s.pc = "accept" /\ s.day = d /\ s.dream = check[c].dream
      BY <1>1 DEF CheckStates
    <3>2. Become(c, s)
      BY <1>15 DEF Project
    <3> HIDE DEF s
    <3> QED BY <3>1, <3>2
  <2>7. MemChecks'
    BY <2>1, <2>3, <2>6, <1>3, OwnerStep
  <2>8. ASSUME NEW e \in Days PROVE \A j, k \in ActiveRows(e)' : j = k
    BY <2>3, <2>5, <1>3 DEF ActiveRows
  <2> QED BY <2>1, <2>7, <2>8, <1>3, <1>4 DEF MemInv
<1>16. ASSUME NEW c \in Checks, DeleteRow(c) PROVE MemInv'
  <2>1. PICK s : Become(c, s) /\ s.pc = "insert" /\ s.dream = check[c].dream
    <3> DEFINE s == [check[c] EXCEPT !.pc = "insert"]
    <3>1. s.pc = "insert" /\ s.dream = check[c].dream
      BY <1>1 DEF CheckStates
    <3>2. Become(c, s)
      BY <1>16 DEF DeleteRow
    <3> HIDE DEF s
    <3> QED BY <3>1, <3>2
  <2>2. check[c].dream # "scheduled"
    BY <1>3, <1>16 DEF DeleteRow, MemChecks
  <2>3. \A d \in Days : row'[d].dream # "scheduled"
    BY <1>1, <1>3, <1>16 DEF DeleteRow, NoRow
  <2> QED BY <2>1, <2>2, <2>3, <1>6, <1>16 DEF DeleteRow, Owner
\* A call that is idle or about to flush owns nothing.
<1>17. /\ ~Owner(Idle) /\ Idle.pc = "idle" /\ Idle.dream = "not_due"
       /\ ~Owner([Idle EXCEPT !.pc = "flush"])
       /\ [Idle EXCEPT !.pc = "flush"].pc = "flush" /\ [Idle EXCEPT !.pc = "flush"].dream = "not_due"
  BY DEF Idle, Owner
<1>18. ASSUME NEW c \in Checks, InsertRow(c) PROVE MemInv'
  <2>1. check[c].dream # "scheduled"
    BY <1>3, <1>18 DEF InsertRow, MemChecks
  <2>2. \A d \in Days : row'[d].dream # "scheduled"
    BY <2>1, <1>1, <1>3, <1>18 DEF InsertRow
  <2> QED BY <2>2, <1>6, <1>17, <1>18 DEF InsertRow
<1>19. ASSUME NEW c \in Checks, ReturnDegraded(c) PROVE MemInv'
  BY <1>3, <1>6, <1>17, <1>19 DEF ReturnDegraded, tables
<1>20. ASSUME NEW c \in Checks, Flush(c) PROVE MemInv'
  <2>1. Become(c, Idle) /\ UNCHANGED <<review, row, proj>>
    BY <1>20 DEF Flush, tables
  <2>2. MemChecks'
    BY <2>1, <1>3, <1>17, OwnerStep
  <2>3. MemTables(Image)' /\ MemTables(disk)'
    BY <2>1, <1>3, <1>5, <1>20 DEF Flush, MemInv
  <2> QED BY <2>2, <2>3 DEF MemInv
<1>21. CASE RecordClosure \/ Tick \/ UNCHANGED vars
  <2>1. UNCHANGED <<review, row, proj, check, disk>>
    BY <1>21 DEF RecordClosure, Tick, vars, tables
  <2>2. \A c \in Checks : ActiveRows(check[c].day)' = ActiveRows(check[c].day)
    BY <2>1 DEF ActiveRows
  <2> QED BY <2>1, <2>2, <1>3, <1>5 DEF MemInv, MemChecks
<1>22. CASE Crash
  <2>1. \A c \in Checks : check'[c].pc = "idle" /\ check'[c].dream = "not_due"
    BY <1>22 DEF Crash, Idle
  <2>2. MemChecks'
    BY <2>1 DEF MemChecks, Owner
  <2>3. MemTables(Image)' /\ MemTables(disk)'
    BY <1>22 DEF Crash, MemInv, MemTables, Image
  <2> QED BY <2>2, <2>3 DEF MemInv
<1> QED
  BY <1>7, <1>8, <1>9, <1>10, <1>11, <1>12, <1>13, <1>14, <1>15, <1>16, <1>18, <1>19, <1>20, <1>21, <1>22
     DEF Next, Step

LEMMA MemHolds == ASSUME ~UpgradedDb PROVE Spec => []MemInv
  BY TypeInit, TypeNext, RunInit, RunNext, MemInit, MemNext, PTL DEF Spec

\* On a database without a leftover no row of a day is persisted with a
\* scheduled Dream, so the repair of stale runs is never reached.
THEOREM NeverScheduled == ASSUME ~UpgradedDb PROVE Spec => []ScheduledNotPersisted
<1>1. MemInv => ScheduledNotPersisted
  BY DEF MemInv, MemTables, Image, ScheduledNotPersisted
<1> QED BY <1>1, MemHolds, PTL

\* On such a database a topic has at most one active projection, however the
\* calls that accept candidates overlap, fail or are cut short by a crash.
THEOREM OneActiveHolds == ASSUME ~UpgradedDb PROVE Spec => []OneActiveProjection
<1>1. MemInv => OneActiveProjection
  BY DEF MemInv, MemTables, Image, OneActiveProjection, ActiveRows
<1> QED BY <1>1, MemHolds, PTL

-----------------------------------------------------------------------------
\* A completed run of day d, or of a day within the interval before it.
Backed(d, rs) ==
    \E i \in DOMAIN rs : rs[i].status = "completed" /\ d - rs[i].day \in 0..DreamInterval

\* What a status q of a Quiet and d of a Dream of one day say has happened.
Told(day, quiet, dream, rv, rs) ==
    /\ quiet = "completed" => rv[day] # "none"
    /\ dream = "completed" => Backed(day, rs)

\* Facts about an image of the tables: what its rows say has happened, and a
\* run that ended has the outcome its review calls for.
BackTables(t) ==
    /\ \A d \in Days : Told(d, t.row[d].quiet, t.row[d].dream, t.review, t.runs)
    /\ \A i \in Ended(t.runs) : t.runs[i].status = RunOutcome(t.review[t.runs[i].day])

BackInv ==
    /\ BackTables(Image) /\ BackTables(disk)
    /\ \A c \in Checks : Told(check[c].day, check[c].quiet, check[c].dream, review, runs)

LEMMA BackBegins == ASSUME ~UpgradedDb, Init PROVE BackInv
<1>1. BackTables(Image)
  BY DEF Init, BackTables, Image, NoRow, Told, Ended
<1>2. \A c \in Checks : check[c].quiet = "not_due" /\ check[c].dream = "not_due"
  BY DEF Init, Idle
<1> QED
  BY <1>1, <1>2 DEF BackInv, Told, Init

\* What has happened has happened: a step that takes no review and no completed
\* run away leaves true what was told.
LEMMA BackStep ==
    ASSUME TypeInv, BackInv, NEW c \in Checks, NEW s, Become(c, s),
           \A d \in Days : review[d] # "none" => review'[d] # "none",
           \A d \in Days : Backed(d, runs) => Backed(d, runs'),
           \A d \in Days : row'[d] = row[d] \/ Told(d, row'[d].quiet, row'[d].dream, review', runs'),
           \A i \in Ended(runs') : runs'[i].status = RunOutcome(review'[runs'[i].day]),
           disk' = disk \/ disk' = Image,
           Told(s.day, s.quiet, s.dream, review', runs')
    PROVE  BackInv'
<1>1. Image'.runs = runs' /\ Image'.row = row' /\ Image'.review = review'
  BY DEF Image
<1>2. BackTables(Image')
  <2>1. \A d \in Days : Told(d, row[d].quiet, row[d].dream, review, runs)
    BY DEF BackInv, BackTables, Image
  <2> QED
    BY <1>1, <2>1 DEF BackTables, Told
<1>3. \A b \in Checks : check'[b] = s \/ check'[b] = check[b]
  BY RunsTyped DEF Become
<1>4. \A b \in Checks : check[b].day \in Days
  BY RunsTyped DEF CheckStates
<1>5. ASSUME NEW b \in Checks
      PROVE  Told(check'[b].day, check'[b].quiet, check'[b].dream, review', runs')
  <2>1. Told(check[b].day, check[b].quiet, check[b].dream, review, runs)
    BY DEF BackInv
  <2>2. Told(check[b].day, check[b].quiet, check[b].dream, review', runs')
    BY <1>4, <2>1 DEF Told
  <2> QED
    BY <1>3, <2>2
<1> QED
  BY <1>2, <1>5 DEF BackInv

\* The steps that touch neither reviews nor runs.
LEMMA BackStays ==
    ASSUME TypeInv, BackInv, NEW c \in Checks, NEW s, Become(c, s), UNCHANGED <<review, runs>>,
           \A d \in Days : row'[d] = row[d] \/ Told(d, row'[d].quiet, row'[d].dream, review, runs),
           disk' = disk \/ disk' = Image,
           Told(s.day, s.quiet, s.dream, review, runs)
    PROVE  BackInv'
<1>1. \A i \in Ended(runs') : runs'[i].status = RunOutcome(review'[runs'[i].day])
  BY DEF BackInv, BackTables, Image
<1> QED
  BY <1>1, BackStep

LEMMA AfterQuietTold ==
    ASSUME NEW s \in CheckStates, NEW rv, NEW rs, Told(s.day, s.quiet, s.dream, rv, rs)
    PROVE  LET t == AfterQuiet(s) IN Told(t.day, t.quiet, t.dream, rv, rs)
<1> DEFINE t == AfterQuiet(s)
<1>1. t.day = s.day /\ t.quiet = s.quiet /\ (t.dream = "completed" => s.dream = "completed")
  BY DEF AfterQuiet, CheckStates
<1> HIDE DEF t
<1>2. Told(t.day, t.quiet, t.dream, rv, rs)
  BY <1>1 DEF Told
<1> QED
  BY <1>2 DEF t

LEMMA BackBegin == ASSUME TypeInv, BackInv, NEW c \in Checks, Begin(c) PROVE BackInv'
<1> DEFINE r  == RowOrDefault(today)
           s0 == [Idle EXCEPT !.day = today, !.quiet = r.quiet, !.dream = r.dream]
           s1 == [s0 EXCEPT !.quiet = "not_due"]
           s2 == [s0 EXCEPT !.quiet = "due", !.pc = "quiet"]
<1>1. r \in [quiet : RhythmStatus, dream : RhythmStatus] /\ Told(today, r.quiet, r.dream, review, runs)
  <2>1. row[today] \in RowValue /\ Told(today, row[today].quiet, row[today].dream, review, runs)
    BY RunsTyped DEF BackInv, BackTables, Image
  <2> QED
    BY <2>1 DEF RowOrDefault, RowValue, RhythmStatus, Told
<1>2. s0 \in CheckStates /\ s1 \in CheckStates /\ s2 \in CheckStates
  BY <1>1, RunsTyped, IdleType DEF CheckStates, RhythmStatus, PCs
<1>3. /\ s0.day = today /\ s0.dream = r.dream /\ s0.quiet = r.quiet
      /\ s1.day = today /\ s1.dream = r.dream /\ s1.quiet = "not_due"
      /\ s2.day = today /\ s2.dream = r.dream /\ s2.quiet = "due"
  BY DEF Idle
<1>4. Become(c, AfterQuiet(s0)) \/ Become(c, AfterQuiet(s1)) \/ Become(c, s2)
  BY DEF Begin
<1> HIDE DEF s0, s1, s2, r
<1>5. /\ Told(s0.day, s0.quiet, s0.dream, review, runs)
      /\ Told(s1.day, s1.quiet, s1.dream, review, runs)
      /\ Told(s2.day, s2.quiet, s2.dream, review, runs)
  BY <1>1, <1>3 DEF Told
<1>6. UNCHANGED <<review, runs, disk, row>>
  BY DEF Begin, tables
<1>7. PICK s : Become(c, s) /\ Told(s.day, s.quiet, s.dream, review, runs)
  BY <1>2, <1>4, <1>5, AfterQuietTold
<1> QED
  BY <1>6, <1>7, BackStays

LEMMA BackQuiet == ASSUME TypeInv, RunInv, BackInv, NEW c \in Checks, BuildQuiet(c) PROVE BackInv'
<1> DEFINE d == check[c].day
           s(q) == [check[c] EXCEPT !.quiet = q]
<1>1. \A q \in {"completed", "blocked"} :
         s(q) \in CheckStates /\ s(q).day = d /\ s(q).dream = check[c].dream /\ s(q).quiet = q
  BY RunsTyped DEF CheckStates, RhythmStatus
<1>2. Told(d, check[c].quiet, check[c].dream, review, runs) /\ d \in Days
  BY RunsTyped DEF BackInv, CheckStates
<1>3. UNCHANGED <<runs, disk, row>>
  BY DEF BuildQuiet
<1>4. \/ UNCHANGED review /\ Become(c, AfterQuiet(s("blocked")))
      \/ /\ review[d] = "none" /\ \E k \in Contents : review' = [review EXCEPT ![d] = k]
         /\ Become(c, AfterQuiet(s("completed")))
  BY DEF BuildQuiet, ReviewConflict
<1> HIDE DEF s
<1>5. CASE UNCHANGED review /\ Become(c, AfterQuiet(s("blocked")))
  <2>1. Told(s("blocked").day, s("blocked").quiet, s("blocked").dream, review, runs)
    BY <1>1, <1>2 DEF Told
  <2>2. PICK t : Become(c, t) /\ Told(t.day, t.quiet, t.dream, review, runs)
    BY <1>1, <1>5, <2>1, AfterQuietTold
  <2> QED
    BY <1>3, <1>5, <2>2, BackStays
<1>6. CASE /\ review[d] = "none" /\ \E k \in Contents : review' = [review EXCEPT ![d] = k]
           /\ Become(c, AfterQuiet(s("completed")))
  <2>1. review'[d] # "none" /\ \A e \in Days : e # d => review'[e] = review[e]
    BY <1>2, <1>6, RunsTyped, RhythmAssumption
  <2>2. Told(s("completed").day, s("completed").quiet, s("completed").dream, review', runs)
    BY <1>1, <1>2, <2>1 DEF Told
  <2>3. PICK t : Become(c, t) /\ Told(t.day, t.quiet, t.dream, review', runs)
    BY <1>1, <1>6, <2>2, AfterQuietTold
  <2>4. \A i \in DOMAIN runs : runs[i].day \in Days /\ runs[i].day # d
    BY <1>6, RunsTyped DEF RunInv, RunTables, Image
  <2>5. \A i \in Ended(runs') : runs'[i].status = RunOutcome(review'[runs'[i].day])
    <3>1. \A i \in Ended(runs) : i \in DOMAIN runs /\ runs[i].status = RunOutcome(review[runs[i].day])
      BY DEF BackInv, BackTables, Image, Ended
    <3> QED
      BY <1>3, <2>1, <2>4, <3>1
  <2>6. \A e \in Days : review[e] # "none" => review'[e] # "none"
    BY <1>6, <2>1
  <2>7. Told(t.day, t.quiet, t.dream, review', runs')
    BY <1>3, <2>3
  <2> QED
    BY <1>3, <2>3, <2>5, <2>6, <2>7, BackStep
<1> QED
  BY <1>4, <1>5, <1>6

LEMMA BackInterval == ASSUME TypeInv, ApartInv, BackInv, NEW c \in Checks, CheckInterval(c) PROVE BackInv'
<1> DEFINE s1 == [check[c] EXCEPT !.pc = "schedule", !.dream = "due"]
           s2(i) == [check[c] EXCEPT !.pc = "delete", !.dream = runs[i].status]
<1>1. /\ s1.quiet = check[c].quiet /\ s1.dream = "due" /\ s1.day = check[c].day
      /\ \A i : s2(i).quiet = check[c].quiet /\ s2(i).day = check[c].day /\ s2(i).dream = runs[i].status
  BY RunsTyped DEF CheckStates
<1>2. check[c].day = today /\ Told(check[c].day, check[c].quiet, check[c].dream, review, runs)
  BY DEF CheckInterval, ApartInv, Placed, BackInv
<1>3. \/ Become(c, s1)
      \/ \E i \in LatestTerminal(runs) : MaybeWithin(runs[i], today) /\ Become(c, s2(i))
  BY <1>2 DEF CheckInterval
<1> HIDE DEF s1, s2
<1>4. UNCHANGED <<review, runs, disk, row>>
  BY DEF CheckInterval, tables
<1>5. CASE Become(c, s1)
  <2>1. Told(s1.day, s1.quiet, s1.dream, review, runs)
    BY <1>1, <1>2 DEF Told
  <2> QED
    BY <1>4, <1>5, <2>1, BackStays
<1>6. ASSUME NEW i \in LatestTerminal(runs), MaybeWithin(runs[i], today), Become(c, s2(i)) PROVE BackInv'
  <2>1. i \in DOMAIN runs /\ runs[i].day <= today
    BY DEF LatestTerminal, ApartInv, ApartTables, Image
  <2>2. today - runs[i].day \in 0..DreamInterval
    BY <1>6, <2>1, RunsTyped DEF MaybeWithin
  <2>3. runs[i].status = "completed" => Backed(today, runs)
    BY <2>1, <2>2 DEF Backed
  <2>4. Told(s2(i).day, s2(i).quiet, s2(i).dream, review, runs)
    BY <1>1, <1>2, <2>3 DEF Told
  <2> QED
    BY <1>4, <1>6, <2>4, BackStays
<1> QED
  BY <1>3, <1>5, <1>6

LEMMA BackSchedule == ASSUME TypeInv, BackInv, NEW c \in Checks, Schedule(c) PROVE BackInv'
<1> DEFINE n  == Len(runs) + 1
           s1 == [check[c] EXCEPT !.pc = "settle", !.dream = "scheduled", !.run = n]
           s2 == [check[c] EXCEPT !.pc = "delete", !.dream = "blocked"]
<1>1. /\ s1.quiet = check[c].quiet /\ s1.day = check[c].day /\ s1.dream = "scheduled"
      /\ s2.quiet = check[c].quiet /\ s2.day = check[c].day /\ s2.dream = "blocked"
  BY RunsTyped DEF CheckStates
<1>2. Told(check[c].day, check[c].quiet, check[c].dream, review, runs)
  BY DEF BackInv
<1>3. UNCHANGED <<review, disk, row>>
  BY DEF Schedule
<1>4. CASE UNCHANGED runs /\ Become(c, s2)
  <2>1. Told(s2.day, s2.quiet, s2.dream, review, runs)
    BY <1>1, <1>2 DEF Told
  <2> HIDE DEF s2
  <2> QED
    BY <1>3, <1>4, <2>1, BackStays
<1>5. CASE runs' = Append(runs, [day |-> check[c].day, status |-> "scheduled"]) /\ Become(c, s1)
  <2>1. /\ DOMAIN runs' = 1..n /\ DOMAIN runs = 1..Len(runs) /\ n \in Nat /\ n \notin DOMAIN runs
        /\ \A i \in DOMAIN runs : i \in DOMAIN runs' /\ runs'[i] = runs[i]
        /\ n \in DOMAIN runs' /\ runs'[n].status = "scheduled"
        /\ \A i \in DOMAIN runs' : i = n \/ i \in DOMAIN runs
    BY <1>5, RunsTyped
  <2>2. \A d \in Days : Backed(d, runs) => Backed(d, runs')
    BY <2>1 DEF Backed
  <2>3. \A i \in Ended(runs') : runs'[i].status = RunOutcome(review'[runs'[i].day])
    BY <1>3, <2>1 DEF Ended, Terminal, BackInv, BackTables, Image
  <2> HIDE DEF s1
  <2>4. Told(s1.day, s1.quiet, s1.dream, review', runs')
    BY <1>1, <1>2, <1>3 DEF Told
  <2> QED
    BY <1>3, <1>5, <2>2, <2>3, <2>4, BackStep
<1> QED
  BY <1>4, <1>5 DEF Schedule

\* The Dream a call reports after executing its own run is the run's outcome.
LEMMA BackSettle == ASSUME TypeInv, ApartInv, BackInv, NEW c \in Checks, Settle(c) PROVE BackInv'
<1> DEFINE r == check[c].run
           d == check[c].day
           e == RunOutcome(review[d])
           p == IF e = "completed" THEN "accept" ELSE "delete"
           s == [check[c] EXCEPT !.dream = e, !.pc = p, !.todo = ValidCandidates(review[d])]
<1>1. s.day = d /\ s.dream = e /\ s.quiet = check[c].quiet
  BY RunsTyped DEF CheckStates
<1>2. Become(c, s) /\ UNCHANGED <<review, disk, row>>
  BY DEF Settle, SettleRun
<1>3. r \in DOMAIN runs /\ runs[r].day = d /\ d \in Nat
  BY RunsTyped DEF Settle, ApartInv, Placed
<1>4. /\ DOMAIN runs' = DOMAIN runs
      /\ \A i \in DOMAIN runs : runs'[i].day = runs[i].day /\ (i # r => runs'[i] = runs[i])
      /\ runs'[r].status = e
  <2>1. \A i \in DOMAIN runs : runs[i] \in Run
    BY RunsTyped
  <2>2. runs' = [runs EXCEPT ![r].status = e]
    BY DEF Settle, SettleRun
  <2> QED
    BY <1>3, <2>1, <2>2 DEF Run
<1>5. \A i \in Ended(runs) : runs[i].status = RunOutcome(review[runs[i].day])
  BY DEF BackInv, BackTables, Image
<1>6. \A i \in Ended(runs') : runs'[i].status = RunOutcome(review'[runs'[i].day])
  BY <1>2, <1>3, <1>4, <1>5 DEF Ended
<1>7. \A i \in DOMAIN runs : runs[i].status = "completed" => runs'[i].status = "completed"
  BY <1>3, <1>4, <1>5 DEF Ended, Terminal
<1>8. \A x \in Days : Backed(x, runs) => Backed(x, runs')
  BY <1>4, <1>7 DEF Backed
<1>9. e = "completed" => Backed(d, runs')
  <2>1. d - runs'[r].day \in 0..DreamInterval
    BY <1>3, <1>4, RhythmAssumption
  <2> QED
    BY <1>3, <1>4, <2>1 DEF Backed
<1>10. Told(s.day, s.quiet, s.dream, review', runs')
  BY <1>1, <1>2, <1>9 DEF Told, BackInv
<1> HIDE DEF s
<1> QED
  BY <1>2, <1>6, <1>8, <1>10, BackStep

LEMMA BackMoving ==
    ASSUME TypeInv, BackInv, NEW c \in Checks,
           \/ Accept(c) \/ Supersede(c) \/ Project(c) \/ DeleteRow(c)
           \/ InsertRow(c) \/ ReturnDegraded(c) \/ Flush(c)
    PROVE  BackInv'
<1>1. Told(check[c].day, check[c].quiet, check[c].dream, review, runs)
  BY DEF BackInv
<1>2. CASE Accept(c) \/ Supersede(c) \/ Project(c) \/ DeleteRow(c)
  <2> DEFINE s1(q) == [check[c] EXCEPT !.pc = q]
             s2(i) == [check[c] EXCEPT !.pc = "supersede", !.active = i]
             s3 == [check[c] EXCEPT !.pc = "project", !.active = 0]
             s4 == [check[c] EXCEPT !.pc = "accept", !.todo = Tail(@)]
             Same(s) == s.day = check[c].day /\ s.quiet = check[c].quiet /\ s.dream = check[c].dream
  <2>1. /\ \A q : Same(s1(q))
        /\ \A i : Same(s2(i))
        /\ Same(s3) /\ Same(s4)
    BY RunsTyped DEF CheckStates
  <2>2. \/ \E q \in {"delete", "project", "insert"} : Become(c, s1(q))
        \/ \E i \in ActiveRows(check[c].day) : Become(c, s2(i))
        \/ Become(c, s3) \/ Become(c, s4)
    BY <1>2 DEF Accept, Supersede, Project, DeleteRow
  <2> HIDE DEF s1, s2, s3, s4
  <2>3. PICK s : Become(c, s) /\ Same(s)
    BY <2>1, <2>2
  <2>4. UNCHANGED <<review, runs, disk>>
    BY <1>2 DEF Accept, Supersede, Project, DeleteRow, tables
  <2>5. \A d \in Days : row'[d] = row[d] \/ Told(d, row'[d].quiet, row'[d].dream, review, runs)
    <3>1. CASE DeleteRow(c)
      <4>1. row \in [Days -> RowValue] /\ row' = [row EXCEPT ![check[c].day] = NoRow]
        BY <3>1, RunsTyped DEF DeleteRow
      <4>2. \A d \in Days : Told(d, NoRow.quiet, NoRow.dream, review, runs)
        BY DEF NoRow, Told
      <4> QED
        BY <4>1, <4>2
    <3>2. CASE UNCHANGED row
      BY <3>2
    <3> QED
      BY <1>2, <3>1, <3>2 DEF Accept, Supersede, Project, tables
  <2>6. Told(s.day, s.quiet, s.dream, review, runs)
    BY <1>1, <2>3
  <2> QED
    BY <2>3, <2>4, <2>5, <2>6, BackStays
<1>3. Told(Idle.day, Idle.quiet, Idle.dream, review, runs)
  BY DEF Told, Idle
<1>4. LET s == [Idle EXCEPT !.pc = "flush"] IN Told(s.day, s.quiet, s.dream, review, runs)
  BY DEF Told, Idle
<1>5. CASE InsertRow(c)
  <2>1. \A d \in Days : row'[d] = row[d] \/ Told(d, row'[d].quiet, row'[d].dream, review, runs)
    BY <1>1, <1>5, RunsTyped DEF InsertRow
  <2> QED
    BY <1>4, <1>5, <2>1, BackStays DEF InsertRow
<1>6. CASE ReturnDegraded(c)
  BY <1>4, <1>6, BackStays DEF ReturnDegraded, tables
<1>7. CASE Flush(c)
  BY <1>3, <1>7, BackStays DEF Flush, tables
<1> QED
  BY <1>2, <1>5, <1>6, <1>7

LEMMA BackNext ==
    ASSUME TypeInv, RunInv, MemInv, ApartInv, BackInv, [Next]_vars
    PROVE  BackInv'
<1>1. ASSUME NEW c \in Checks, Step(c) PROVE BackInv'
  <2>1. ~ReadStale(c) /\ ~Repair(c)
    BY DEF MemInv, MemChecks, ReadStale, Repair
  <2> QED
    BY <1>1, <2>1, BackBegin, BackQuiet, BackInterval, BackSchedule, BackSettle, BackMoving DEF Step
<1>2. CASE RecordClosure \/ Tick \/ UNCHANGED vars
  <2>1. UNCHANGED <<review, runs, row, disk, check>>
    BY <1>2 DEF RecordClosure, Tick, vars, tables
  <2> QED
    BY <2>1 DEF BackInv, BackTables, Image
<1>3. CASE Crash
  <2>1. \A c \in Checks : check'[c].quiet = "not_due" /\ check'[c].dream = "not_due"
    BY <1>3 DEF Crash, Idle
  <2>2. BackTables(Image')
    BY <1>3 DEF Crash, Image, BackInv, BackTables
  <2> QED
    BY <1>3, <2>1, <2>2 DEF Crash, BackInv, Told
<1> QED
  BY <1>1, <1>2, <1>3 DEF Next

\* On a database without a leftover, and as long as no call runs across a
\* change of day, what a row reports has happened: a completed Quiet has its
\* review, and a completed Dream a completed run within the interval.
THEOREM RowsBacked == ASSUME ~UpgradedDb, ~MidnightOverlap PROVE Spec => []BackedRow
<1>1. BackInv => BackedRow
  BY DEF BackInv, BackTables, Image, Told, Backed, BackedRow
<1> QED
  BY <1>1, TypeInit, TypeNext, RunInit, RunNext, MemInit, MemNext, ApartBegins, ApartNext,
     BackBegins, BackNext, PTL DEF Spec

-----------------------------------------------------------------------------
\* A call that has got past the day's Quiet, and a topic that has an active
\* projection if it has any.
Past(s) == s.pc \notin {"idle", "flush", "quiet"}
Remembered(q) == q = <<>> \/ \E i \in DOMAIN q : q[i].status = "active"

\* What holds of the tables t and of the only call there is, in state s: the
\* day's review and its row agree except while the call that knows of the review
\* has not written the row, and a topic is without an active projection only
\* between the two writes that replace it.
Lone(s, t) ==
    /\ s.quiet # "blocked"
    /\ s.pc = "quiet" => t.review[s.day] = "none"
    /\ Past(s) /\ t.review[s.day] # "none" => s.quiet = "completed"
    /\ s.pc = "insert" => t.row[s.day] = NoRow
    /\ s.pc = "supersede" => s.active \in DOMAIN t.proj[s.day]
    /\ \A d \in Days : t.review[d] # "none" =>
          t.row[d].quiet = "completed" \/ (Past(s) /\ s.day = d /\ s.quiet = "completed")
    /\ \A d \in Days : t.row[d].quiet # "blocked"
    /\ \A d \in Days : Remembered(t.proj[d]) \/ (s.pc = "project" /\ s.day = d)

LoneInv == Lone(Idle, disk) /\ \A c \in Checks : Lone(check[c], Image)

\* The state of a call matters only once it is begun.
LEMMA LoneRests ==
    ASSUME NEW s, NEW t, Lone(s, t), ~Past(s)
    PROVE  /\ Lone(Idle, t)
           /\ Lone([Idle EXCEPT !.pc = "flush"], t)
  BY DEF Lone, Past, Idle

LEMMA LoneBegins == Init => LoneInv
<1> SUFFICES ASSUME Init PROVE LoneInv
  OBVIOUS
<1>1. Lone(Idle, Image)
  <2>1. \A d \in Days : review[d] # "none" => row[d].quiet = "completed"
    BY DEF Init, NoRow
  <2>2. \A d \in Days : row[d].quiet # "blocked" /\ proj[d] = <<>>
    BY DEF Init, NoRow
  <2> QED
    BY <2>1, <2>2 DEF Lone, Past, Idle, Image, Remembered
<1> QED
  BY <1>1 DEF LoneInv, Init

\* A step of the only call.
LEMMA LoneStep ==
    ASSUME NEW c, Checks = {c}, TypeInv, LoneInv, NEW s, Become(c, s), Lone(s, Image'),
           disk' = disk \/ (disk' = Image /\ check[c].pc = "flush")
    PROVE  LoneInv'
<1>1. check'[c] = s
  BY RunsTyped DEF Become
<1>2. Lone(check[c], Image)
  BY DEF LoneInv
<1>3. Lone(Idle, disk')
  BY <1>2, LoneRests DEF LoneInv, Past
<1> QED
  BY <1>1, <1>3 DEF LoneInv

LEMMA LoneBegin ==
    ASSUME NEW c, Checks = {c}, TypeInv, LoneInv, Begin(c)
    PROVE  LoneInv'
<1> DEFINE r  == RowOrDefault(today)
           s0 == [Idle EXCEPT !.day = today, !.quiet = r.quiet, !.dream = r.dream]
           s1 == [s0 EXCEPT !.quiet = "not_due"]
           s2 == [s0 EXCEPT !.quiet = "due", !.pc = "quiet"]
<1>1. /\ \A d \in Days : review[d] # "none" => row[d].quiet = "completed"
      /\ \A d \in Days : row[d].quiet # "blocked" /\ Remembered(proj[d])
  BY DEF LoneInv, Lone, Begin, Image, Past
<1>2. /\ r \in [quiet : RhythmStatus, dream : RhythmStatus] /\ r.quiet # "blocked"
      /\ review[today] # "none" => r.quiet = "completed"
  <2>1. row[today] \in RowValue /\ today \in Days
    BY RunsTyped
  <2> QED
    BY <1>1, <2>1 DEF RowOrDefault, RowValue, RhythmStatus, NoRow
<1>3. s0 \in CheckStates /\ s1 \in CheckStates /\ s2 \in CheckStates
  BY <1>2, RunsTyped, IdleType DEF CheckStates, RhythmStatus, PCs
<1>4. /\ s0.day = today /\ s0.quiet = r.quiet
      /\ s1.day = today /\ s1.quiet = "not_due"
      /\ s2.day = today /\ s2.quiet = "due" /\ s2.pc = "quiet"
  BY DEF Idle
<1>5. \/ Become(c, AfterQuiet(s0)) /\ r.quiet \in Terminal
      \/ Become(c, AfterQuiet(s1)) /\ r.quiet \notin Terminal
      \/ Become(c, s2) /\ r.quiet \notin Terminal
  BY DEF Begin, Handled
<1> HIDE DEF s0, s1, s2, r
<1>6. Image' = Image /\ disk' = disk
  BY DEF Begin, tables, Image
<1>7. ASSUME NEW s, s.day = today, s.quiet # "blocked",
             s.pc \in {"quiet", "delete", "stale", "interval"},
             review[today] # "none" => s.quiet = "completed" /\ s.pc # "quiet"
      PROVE  Lone(s, Image')
  BY <1>1, <1>6, <1>7 DEF Lone, Image, Past
<1>8. CASE Become(c, AfterQuiet(s0)) /\ r.quiet \in Terminal
  <2>1. PICK s : s = AfterQuiet(s0)
    OBVIOUS
  <2>2. s.day = today /\ s.quiet = r.quiet /\ s.pc \in {"delete", "stale", "interval"}
    BY <1>3, <1>4, <2>1, AfterQuietType
  <2> QED
    BY <1>2, <1>6, <1>7, <1>8, <2>1, <2>2, LoneStep
<1>9. CASE Become(c, AfterQuiet(s1)) /\ r.quiet \notin Terminal
  <2>1. PICK s : s = AfterQuiet(s1)
    OBVIOUS
  <2>2. s.day = today /\ s.quiet = "not_due" /\ s.pc \in {"delete", "stale", "interval"}
    BY <1>3, <1>4, <2>1, AfterQuietType
  <2>3. review[today] = "none"
    BY <1>2, <1>9 DEF Terminal
  <2> QED
    BY <1>6, <1>7, <1>9, <2>1, <2>2, <2>3, LoneStep
<1>10. CASE Become(c, s2) /\ r.quiet \notin Terminal
  <2>1. review[today] = "none"
    BY <1>2, <1>10 DEF Terminal
  <2> QED
    BY <1>4, <1>6, <1>7, <1>10, <2>1, LoneStep
<1> QED
  BY <1>5, <1>8, <1>9, <1>10

LEMMA LoneQuiet ==
    ASSUME NEW c, Checks = {c}, MaxFailures = 0, TypeInv, LoneInv, BuildQuiet(c)
    PROVE  LoneInv'
<1> DEFINE d == check[c].day
           s1 == [check[c] EXCEPT !.quiet = "completed"]
<1>1. d \in Days /\ s1 \in CheckStates /\ s1.quiet = "completed" /\ s1.day = d
  BY RunsTyped DEF CheckStates, RhythmStatus
<1>2. Lone(check[c], Image) /\ check[c].pc = "quiet" /\ review[d] = "none"
  BY DEF LoneInv, Lone, BuildQuiet, Image
<1>3. ~Fail
  BY DEF Fail, TypeInv, TypeOK
<1>4. /\ \E k \in Contents : review' = [review EXCEPT ![d] = k]
      /\ Become(c, AfterQuiet(s1)) /\ UNCHANGED <<row, proj, disk>>
  BY <1>2, <1>3 DEF BuildQuiet, ReviewConflict
<1> HIDE DEF s1
<1>5. review'[d] # "none" /\ \A e \in Days : e # d => review'[e] = review[e]
  BY <1>1, <1>4, RunsTyped, RhythmAssumption
<1>6. PICK s : s = AfterQuiet(s1)
  OBVIOUS
<1>7. s.day = d /\ s.quiet = "completed" /\ s.pc \in {"delete", "stale", "interval"}
  BY <1>1, <1>6, AfterQuietType
<1>8. Lone(s, Image')
  BY <1>2, <1>4, <1>5, <1>7 DEF Lone, Image, Past
<1> QED
  BY <1>4, <1>6, <1>8, LoneStep

\* The steps past the Quiet that touch neither reviews, rows nor projections.
LEMMA LoneMoves ==
    ASSUME NEW c, Checks = {c}, TypeInv, LoneInv, NEW s, Become(c, s), UNCHANGED <<review, row, proj, disk>>,
           Past(check[c]), check[c].pc # "project", s.day = check[c].day, s.quiet = check[c].quiet,
           s.pc \in {"interval", "schedule", "settle", "stale", "repair", "accept", "supersede", "project", "delete"},
           s.pc = "supersede" => s.active \in DOMAIN proj[s.day]
    PROVE  LoneInv'
<1>1. Image'.review = review /\ Image'.row = row /\ Image'.proj = proj
  BY DEF Image
<1>2. Lone(check[c], Image)
  BY DEF LoneInv
<1>3. Lone(s, Image')
  BY <1>1, <1>2 DEF Lone, Image, Past
<1> QED
  BY <1>3, LoneStep

LEMMA LoneMoving ==
    ASSUME NEW c, Checks = {c}, MaxFailures = 0, TypeInv, LoneInv,
           \/ CheckInterval(c) \/ Schedule(c) \/ Settle(c) \/ Repair(c) \/ ReadStale(c) \/ Accept(c)
    PROVE  LoneInv'
<1> DEFINE s1(q, d) == [check[c] EXCEPT !.pc = q, !.dream = d]
           s2(q, i) == [check[c] EXCEPT !.pc = q, !.run = i]
           s3(q) == [check[c] EXCEPT !.pc = q]
           s4(i) == [check[c] EXCEPT !.pc = "supersede", !.active = i]
           s5(i) == [check[c] EXCEPT !.pc = "settle", !.dream = "scheduled", !.run = i]
           s6(q, d, t) == [check[c] EXCEPT !.dream = d, !.pc = q, !.todo = t]
           Same(s) == s.day = check[c].day /\ s.quiet = check[c].quiet
<1>1. /\ \A q, d : Same(s1(q, d)) /\ s1(q, d).pc = q
      /\ \A q, i : Same(s2(q, i)) /\ s2(q, i).pc = q
      /\ \A q : Same(s3(q)) /\ s3(q).pc = q
      /\ \A i : Same(s4(i)) /\ s4(i).pc = "supersede" /\ s4(i).active = i
      /\ \A i : Same(s5(i)) /\ s5(i).pc = "settle"
      /\ \A q, d, t : Same(s6(q, d, t)) /\ s6(q, d, t).pc = q
  BY RunsTyped DEF CheckStates
<1>2. ~Fail
  BY DEF Fail, TypeInv, TypeOK
<1> DEFINE Plain == {"schedule", "settle", "repair", "accept", "project", "delete"}
<1>3. \/ \E q \in Plain : \E d : Become(c, s1(q, d))
      \/ \E q \in Plain : \E i : Become(c, s2(q, i))
      \/ \E q \in Plain : Become(c, s3(q))
      \/ \E i \in ActiveRows(check[c].day) : Become(c, s4(i))
      \/ \E i : Become(c, s5(i))
      \/ \E q \in Plain : \E d, t : Become(c, s6(q, d, t))
  <2>1. CASE CheckInterval(c)
    BY <2>1 DEF CheckInterval
  <2>2. CASE Schedule(c)
    BY <1>2, <2>2 DEF Schedule
  <2>3. CASE Settle(c) \/ Repair(c)
    BY <2>3 DEF Settle, Repair, SettleRun
  <2>4. CASE ReadStale(c)
    BY <2>4 DEF ReadStale
  <2>5. CASE Accept(c)
    BY <2>5 DEF Accept
  <2> QED
    BY <2>1, <2>2, <2>3, <2>4, <2>5
<1> HIDE DEF s1, s2, s3, s4, s5, s6
<1>4. PICK s : /\ Become(c, s) /\ Same(s)
               /\ s.pc \in Plain \/ (s.pc = "supersede" /\ s.active \in ActiveRows(s.day))
  BY <1>1, <1>3
<1>5. UNCHANGED <<review, row, proj, disk>> /\ Past(check[c]) /\ check[c].pc # "project"
  BY DEF CheckInterval, Schedule, Settle, Repair, SettleRun, ReadStale, Accept, tables, Past
<1> QED
  BY <1>4, <1>5, LoneMoves DEF ActiveRows

LEMMA LoneWrites ==
    ASSUME NEW c, Checks = {c}, MaxFailures = 0, TypeInv, LoneInv,
           \/ Supersede(c) \/ Project(c) \/ DeleteRow(c) \/ InsertRow(c) \/ ReturnDegraded(c) \/ Flush(c)
    PROVE  LoneInv'
<1>1. Lone(check[c], Image) /\ check[c].day \in Days /\ proj \in [Days -> Seq(Projection)]
      /\ check[c] \in CheckStates /\ row \in [Days -> RowValue]
  BY RunsTyped DEF LoneInv, CheckStates, TypeInv, TypeOK, Image, Tables, Projection
<1>2. ~Fail
  BY DEF Fail, TypeInv, TypeOK
<1>3. CASE Supersede(c)
  <2> DEFINE d == check[c].day
             s == [check[c] EXCEPT !.pc = "project", !.active = 0]
  <2>1. s.pc = "project" /\ s.day = d /\ s.quiet = check[c].quiet
    BY <1>1 DEF CheckStates
  <2>2. Become(c, s) /\ UNCHANGED <<review, row, disk>> /\ check[c].pc = "supersede"
    BY <1>3 DEF Supersede
  <2>3. \A e \in Days : e # d => proj'[e] = proj[e]
    BY <1>1, <1>3 DEF Supersede
  <2> HIDE DEF s
  <2>4. Lone(s, Image')
    BY <1>1, <2>1, <2>2, <2>3 DEF Lone, Image, Past
  <2> QED
    BY <2>2, <2>4, LoneStep
<1>4. CASE Project(c)
  <2> DEFINE d == check[c].day
             p == [cand |-> Head(check[c].todo), status |-> "active"]
             s == [check[c] EXCEPT !.pc = "accept", !.todo = Tail(@)]
  <2>1. s.pc = "accept" /\ s.day = d /\ s.quiet = check[c].quiet
    BY <1>1 DEF CheckStates
  <2>2. Become(c, s) /\ UNCHANGED <<review, row, disk>> /\ check[c].pc = "project"
    BY <1>4 DEF Project
  <2>3. \A e \in Days : e # d => proj'[e] = proj[e]
    BY <1>1, <1>4 DEF Project
  <2>4. Remembered(proj'[d])
    <3>1. proj'[d] = Append(proj[d], p) /\ proj[d] \in Seq(Projection)
      BY <1>1, <1>4 DEF Project
    <3>2. Len(proj[d]) + 1 \in DOMAIN proj'[d] /\ proj'[d][Len(proj[d]) + 1] = p
      BY <3>1
    <3> QED
      BY <3>2 DEF Remembered
  <2> HIDE DEF s
  <2>5. Lone(s, Image')
    BY <1>1, <2>1, <2>2, <2>3, <2>4 DEF Lone, Image, Past
  <2> QED
    BY <2>2, <2>5, LoneStep
<1>5. CASE DeleteRow(c)
  <2> DEFINE d == check[c].day
             s == [check[c] EXCEPT !.pc = "insert"]
  <2>1. s.pc = "insert" /\ s.day = d /\ s.quiet = check[c].quiet
    BY <1>1 DEF CheckStates
  <2>2. Become(c, s) /\ UNCHANGED <<review, proj, disk>> /\ check[c].pc = "delete"
    BY <1>5 DEF DeleteRow
  <2>3. row'[d] = NoRow /\ \A e \in Days : e # d => row'[e] = row[e]
    BY <1>1, <1>5 DEF DeleteRow
  <2> HIDE DEF s
  <2>4. review[d] # "none" => s.quiet = "completed"
    BY <1>1, <2>1, <2>2 DEF Lone, Image, Past
  <2>5. NoRow.quiet # "blocked"
    BY DEF NoRow
  <2>6. \A e \in Days : review[e] # "none" => row'[e].quiet = "completed" \/ (s.day = e /\ s.quiet = "completed")
    BY <1>1, <2>1, <2>2, <2>3, <2>4 DEF Lone, Image
  <2>7. \A e \in Days : row'[e].quiet # "blocked" /\ Remembered(proj[e])
    BY <1>1, <2>2, <2>3, <2>5 DEF Lone, Image
  <2>8. s.quiet # "blocked"
    BY <1>1, <2>1 DEF Lone
  <2>9. Image'.review = review /\ Image'.row = row' /\ Image'.proj = proj
    BY <2>2 DEF Image
  <2>10. Lone(s, Image')
    BY <2>1, <2>3, <2>4, <2>6, <2>7, <2>8, <2>9 DEF Lone, Past
  <2> QED
    BY <2>2, <2>10, LoneStep
<1>6. CASE InsertRow(c)
  <2> DEFINE d == check[c].day
             s == [Idle EXCEPT !.pc = "flush"]
  <2>1. s.pc = "flush" /\ s.quiet = "not_due"
    BY DEF Idle
  <2>2. Become(c, s) /\ UNCHANGED <<review, proj, disk>> /\ check[c].pc = "insert"
    BY <1>6 DEF InsertRow
  <2>3. row[d] = NoRow
    BY <1>1, <2>2 DEF Lone, Image
  <2>4. row'[d].quiet = check[c].quiet /\ \A e \in Days : e # d => row'[e] = row[e]
    BY <1>1, <1>6, <2>3 DEF InsertRow
  <2> HIDE DEF s
  <2>5. Lone(s, Image')
    BY <1>1, <2>1, <2>2, <2>4 DEF Lone, Image, Past
  <2> QED
    BY <2>2, <2>5, LoneStep
<1>7. ~ReturnDegraded(c)
  BY <1>2 DEF ReturnDegraded
<1>8. CASE Flush(c)
  <2>1. Become(c, Idle) /\ disk' = Image /\ Image' = Image /\ check[c].pc = "flush"
    BY <1>2, <1>8 DEF Flush, tables, Image
  <2>2. Lone(Idle, Image')
    BY <1>1, <2>1, LoneRests DEF Past
  <2> QED
    BY <2>1, <2>2, LoneStep
<1> QED
  BY <1>3, <1>4, <1>5, <1>6, <1>7, <1>8

LEMMA LoneNext ==
    ASSUME NEW c, Checks = {c}, MaxFailures = 0, TypeInv, LoneInv, [Next]_vars
    PROVE  LoneInv'
<1>1. CASE Step(c)
  BY <1>1, LoneBegin, LoneQuiet, LoneMoving, LoneWrites DEF Step
<1>2. CASE RecordClosure \/ Tick \/ UNCHANGED vars
  <2>1. UNCHANGED <<review, row, proj, disk, check>>
    BY <1>2 DEF RecordClosure, Tick, vars, tables
  <2> QED
    BY <2>1 DEF LoneInv, Lone, Image
<1>3. CASE Crash
  <2>1. check'[c] = Idle /\ disk' = disk
    BY <1>3 DEF Crash
  <2>2. Lone(Idle, disk)
    BY DEF LoneInv
  <2>3. Lone(Idle, Image')
    BY <1>3, <2>2 DEF Crash, Image, Lone
  <2> QED
    BY <2>1, <2>2, <2>3 DEF LoneInv
<1> QED
  BY <1>1, <1>2, <1>3 DEF Next

\* When calls do not overlap and none fails, a crash at any step or a change of
\* day within a call does no harm: no Quiet is reported blocked, and a topic
\* that was remembered keeps an active projection.
THEOREM LoneUndisturbed ==
    ASSUME \E c : Checks = {c}, MaxFailures = 0 PROVE Spec => []Undisturbed
<1>1. PICK c : Checks = {c}
  OBVIOUS
<1>2. LoneInv => Undisturbed
  <2> SUFFICES ASSUME LoneInv PROVE Undisturbed
    OBVIOUS
  <2>1. Lone(check[c], Image)
    BY <1>1 DEF LoneInv
  <2>2. BlockedOnlyByFailure
    BY <2>1 DEF Lone, Image, BlockedOnlyByFailure
  <2>3. TopicNotForgotten
    BY <1>1, <2>1 DEF Lone, Image, TopicNotForgotten, Remembered, ActiveRows
  <2> QED
    BY <2>2, <2>3 DEF Undisturbed
<1>3. TypeInv /\ LoneInv /\ [Next]_vars => LoneInv'
  BY <1>1, LoneNext
<1> QED
  BY <1>2, <1>3, TypeInit, TypeNext, LoneBegins, PTL DEF Spec
=============================================================================
