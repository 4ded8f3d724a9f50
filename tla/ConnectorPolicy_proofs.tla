----------------------- MODULE ConnectorPolicy_proofs -----------------------
(***************************************************************************)
(* Proofs about ConnectorPolicy, for any number of requests, intents and   *)
(* attempts, any threshold and cooldown: its types, and that no capability *)
(* is closed without an answer of its platform that says so; and, for one  *)
(* request at a time (the alone behaviours of MCConnectorPolicy), that the *)
(* cooldowns hold and are kept.                                            *)
(*                                                                         *)
(* The argument: a row counts no more terminal failures than the platform  *)
(* has answered, in the table and in the hands of a request that is about  *)
(* to write one; and a window is only ever set from the answer being       *)
(* recorded, or copied from a row that was justified.  A request that is   *)
(* alone leaves one row for an intent at most, which counts its terminal   *)
(* answers exactly, and sleeps until the window it wrote has opened.       *)
(***************************************************************************)
EXTENDS MCConnectorPolicy, SequenceTheorems, FiniteSetTheorems, TLAPS

Answer == [kind : Kinds, at : Nat, wait : Nat]
CallState == [pc : PCs, intent : Intents, attempt : Nat, kind : Kinds,
              wait : Nat, wake : Nat, new : Row]

Terminals(answers, k) == {m \in 1..k : answers[m].kind = "terminal"}

\* What closes an intent until the time u: one of its answers so far.
Justified(u, answers) ==
    \E k \in 1..Len(answers) :
        \/ answers[k].kind = "rate_limited" /\ u = answers[k].at + answers[k].wait
        \/ /\ answers[k].kind = "terminal" /\ u = answers[k].at + Cooldown
           /\ Cardinality(Terminals(answers, k)) >= Threshold

JustRow(r, answers, t) ==
    /\ r.terminal <= Cardinality(Terminals(answers, Len(answers)))
    /\ r.until > t => Justified(r.until, answers)

JustInv ==
    /\ TypeOK
    /\ \A r \in rows : JustRow(r, log[r.intent], now)
    /\ \A c \in Calls :
           /\ call[c].pc \in {"delete", "insert"} =>
                  JustRow(call[c].new, log[call[c].new.intent], now)
           /\ call[c].pc = "read" =>
                  /\ call[c].kind # "success"
                  /\ call[c].wait # 0 <=> call[c].kind = "rate_limited"

-----------------------------------------------------------------------------
LEMMA TerminalsFinite ==
    ASSUME NEW answers \in Seq(Answer), NEW k \in Nat
    PROVE  IsFiniteSet(Terminals(answers, k)) /\ Cardinality(Terminals(answers, k)) \in Nat
<1>1. IsFiniteSet(1..k)
  BY FS_Interval
<1>2. Terminals(answers, k) \subseteq 1..k
  BY DEF Terminals
<1> QED
  BY <1>1, <1>2, FS_Subset, FS_CardinalityType

\* One more answer: the earlier counts stay, and the last grows by a terminal one.
LEMMA CountAfter ==
    ASSUME NEW answers \in Seq(Answer), NEW e \in Answer
    PROVE  LET more == Append(answers, e)
           IN  /\ \A k \in 1..Len(answers) : Terminals(more, k) = Terminals(answers, k)
               /\ Cardinality(Terminals(more, Len(more))) =
                      Cardinality(Terminals(answers, Len(answers)))
                      + (IF e.kind = "terminal" THEN 1 ELSE 0)
<1> DEFINE more == Append(answers, e)
           n == Len(answers)
<1>1. /\ more \in Seq(Answer) /\ n \in Nat /\ Len(more) = n + 1
      /\ \A k \in 1..n : more[k] = answers[k]
      /\ more[n + 1] = e
  BY AppendProperties, LenProperties
<1> HIDE DEF more
<1>2. \A k \in 1..n : Terminals(more, k) = Terminals(answers, k)
  BY <1>1 DEF Terminals
<1>3. Terminals(more, n + 1) =
          Terminals(answers, n) \cup (IF e.kind = "terminal" THEN {n + 1} ELSE {})
  BY <1>1 DEF Terminals
<1>4. n + 1 \notin Terminals(answers, n)
  BY <1>1 DEF Terminals
<1>5. IsFiniteSet(Terminals(answers, n)) /\ Cardinality(Terminals(answers, n)) \in Nat
  BY <1>1, TerminalsFinite
<1>6. CASE e.kind = "terminal"
  <2>1. Cardinality(Terminals(answers, n) \cup {n + 1}) = Cardinality(Terminals(answers, n)) + 1
    BY <1>4, <1>5, FS_AddElement
  <2> QED
    BY <1>1, <1>2, <1>3, <1>6, <2>1 DEF more
<1>7. CASE e.kind # "terminal"
  <2>1. Terminals(more, n + 1) = Terminals(answers, n)
    BY <1>3, <1>7
  <2> QED
    BY <1>1, <1>2, <1>5, <1>7, <2>1 DEF more
<1> QED
  BY <1>6, <1>7

\* What was justified stays so.
LEMMA StaysJustified ==
    ASSUME NEW answers \in Seq(Answer), NEW e \in Answer, NEW r \in Row, NEW t \in Nat,
           JustRow(r, answers, t)
    PROVE  JustRow(r, Append(answers, e), t)
<1> DEFINE more == Append(answers, e)
<1>1. /\ Len(more) = Len(answers) + 1 /\ Len(answers) \in Nat
      /\ \A k \in 1..Len(answers) : more[k] = answers[k]
  BY AppendProperties, LenProperties
<1>2. /\ \A k \in 1..Len(answers) : Terminals(more, k) = Terminals(answers, k)
      /\ Cardinality(Terminals(more, Len(more))) =
             Cardinality(Terminals(answers, Len(answers)))
             + (IF e.kind = "terminal" THEN 1 ELSE 0)
  BY CountAfter
<1>3. Cardinality(Terminals(answers, Len(answers))) \in Nat
  BY <1>1, TerminalsFinite
<1> HIDE DEF more
<1>4. r.terminal <= Cardinality(Terminals(more, Len(more)))
  BY <1>2, <1>3 DEF JustRow, Row
<1>5. r.until > t => Justified(r.until, more)
  BY <1>1, <1>2 DEF JustRow, Justified
<1> QED
  BY <1>4, <1>5 DEF JustRow, more

-----------------------------------------------------------------------------
\* The row a failure leaves is one of the table's.
LEMMA MarkedTyped ==
    ASSUME TypeOK, NEW i \in Intents, NEW kind \in Kinds, NEW wait \in Nat,
           NEW old, old \subseteq rows
    PROVE  Marked(i, kind, wait, old) \in Row
<1>1. TerminalOf(old) \in Nat /\ UntilOf(old) \in Nat
  BY DEF TerminalOf, UntilOf, TypeOK, Row
<1>2. now \in Nat /\ Cooldown \in Nat
  BY PolicyAssumption DEF TypeOK
<1>3. \A terminal, until \in Nat : MarkedUntil(kind, wait, terminal, until) \in Nat
  BY <1>2 DEF MarkedUntil
<1> DEFINE terminal == TerminalOf(old) + (IF kind \in Retryable THEN 0 ELSE 1)
           until == MarkedUntil(kind, wait, terminal, UntilOf(old))
<1>4. terminal \in Nat
  BY <1>1
<1>5. until \in Nat
  BY <1>1, <1>3, <1>4
<1>6. Marked(i, kind, wait, old) = [intent |-> i, terminal |-> terminal, until |-> until]
  BY DEF Marked, NewRow
<1> HIDE DEF terminal, until
<1> QED
  BY <1>4, <1>5, <1>6 DEF Row

\* And it is justified by the answer that is recorded with it.
LEMMA MarkedJustified ==
    ASSUME JustInv, NEW i \in Intents, NEW kind \in Kinds \ {"success"}, NEW wait \in Nat,
           wait # 0 <=> kind = "rate_limited", NEW old, old \subseteq RowOf(i)
    PROVE  LET e == [kind |-> kind, at |-> now, wait |-> wait]
           IN  JustRow(Marked(i, kind, wait, old), Append(log[i], e), now)
<1> DEFINE e == [kind |-> kind, at |-> now, wait |-> wait]
           answers == log[i]
           more == Append(answers, e)
           n == Len(answers)
           terminal == TerminalOf(old) + (IF kind \in Retryable THEN 0 ELSE 1)
           until == MarkedUntil(kind, wait, terminal, UntilOf(old))
           new == Marked(i, kind, wait, old)
<1>1. /\ now \in Nat /\ e \in Answer /\ answers \in Seq(Answer) /\ rows \subseteq Row
      /\ Threshold \in Nat \ {0} /\ Cooldown \in Nat
  BY PolicyAssumption DEF JustInv, TypeOK, Answer
<1>2. new.terminal = terminal /\ new.until = until
  BY DEF Marked, NewRow
<1>3. old = {} \/ \E r \in rows : r.intent = i /\ TerminalOf(old) = r.terminal /\ UntilOf(old) = r.until
  BY DEF TerminalOf, UntilOf, RowOf
<1>4. /\ Cardinality(Terminals(answers, n)) \in Nat /\ n \in Nat
      /\ \A k \in 1..n : Terminals(more, k) = Terminals(answers, k)
      /\ Cardinality(Terminals(more, Len(more))) =
             Cardinality(Terminals(answers, n)) + (IF kind = "terminal" THEN 1 ELSE 0)
  BY <1>1, TerminalsFinite, LenProperties, CountAfter
<1>5. /\ Len(more) = n + 1 /\ more[n + 1] = e /\ \A k \in 1..n : more[k] = answers[k]
  BY <1>1, AppendProperties, LenProperties
<1>6. /\ TerminalOf(old) \in Nat /\ TerminalOf(old) <= Cardinality(Terminals(answers, n))
      /\ UntilOf(old) \in Nat /\ (UntilOf(old) > now => Justified(UntilOf(old), answers))
  <2>1. CASE old = {}
    BY <1>1, <1>4, <2>1 DEF TerminalOf, UntilOf
  <2>2. ASSUME NEW r \in rows, r.intent = i, TerminalOf(old) = r.terminal, UntilOf(old) = r.until
        PROVE  /\ TerminalOf(old) \in Nat /\ TerminalOf(old) <= Cardinality(Terminals(answers, n))
               /\ UntilOf(old) \in Nat /\ (UntilOf(old) > now => Justified(UntilOf(old), answers))
    <3>1. JustRow(r, answers, now) /\ r \in Row
      BY <1>1, <2>2 DEF JustInv
    <3> QED
      BY <2>2, <3>1 DEF JustRow, Row
  <2> QED
    BY <1>3, <2>1, <2>2
<1>7. terminal \in Nat /\ terminal <= Cardinality(Terminals(more, Len(more)))
  BY <1>4, <1>6 DEF Retryable, Kinds
<1> HIDE DEF new, more, answers, e, n, terminal
<1>8. Justified(UntilOf(old), answers) => Justified(UntilOf(old), more)
  BY <1>4, <1>5 DEF Justified, n
<1>9. until > now => Justified(until, more)
  <2>1. CASE wait > 0
    <3>1. until = now + wait /\ e.kind = "rate_limited" /\ e.at = now /\ e.wait = wait
      BY <2>1 DEF MarkedUntil, e
    <3> QED
      BY <1>4, <1>5, <3>1 DEF Justified
  <2>2. CASE wait = 0 /\ kind = "terminal" /\ terminal >= Threshold
    <3>1. until = now + Cooldown /\ e.kind = "terminal" /\ e.at = now
      BY <2>2 DEF MarkedUntil, Retryable, e
    <3>2. Cardinality(Terminals(more, n + 1)) >= Threshold
      BY <1>1, <1>4, <1>5, <1>7, <2>2
    <3> QED
      BY <1>4, <1>5, <3>1, <3>2 DEF Justified
  <2>3. CASE wait = 0 /\ kind \in Retryable
    BY <1>1, <2>3 DEF MarkedUntil, Retryable
  <2>4. CASE wait = 0 /\ kind \notin Retryable /\ ~(kind = "terminal" /\ terminal >= Threshold)
    BY <1>1, <1>6, <1>8, <2>4 DEF MarkedUntil
  <2> QED
    BY <2>1, <2>2, <2>3, <2>4
<1> QED
  BY <1>2, <1>7, <1>9 DEF JustRow, new, more, answers, e

-----------------------------------------------------------------------------
LEMMA JustInit == Init => JustInv
<1> SUFFICES ASSUME Init PROVE JustInv
  OBVIOUS
<1>1. AnyIntent \in Intents
  BY PolicyAssumption DEF AnyIntent
<1>2. Idle \in CallState
  BY <1>1 DEF Idle, CallState, PCs, Kinds, Row, NewRow
<1>3. TypeOK
  BY <1>2 DEF Init, TypeOK, CallState
<1> QED
  BY <1>3 DEF Init, JustInv, Idle

\* A step of a request that neither records an answer nor touches the table.
LEMMA CallMoves ==
    ASSUME JustInv, NEW c \in Calls, NEW s \in CallState, call' = [call EXCEPT ![c] = s],
           UNCHANGED <<now, rows, log>>, begun' \in Nat, failures' \in Nat,
           s.pc \in {"delete", "insert"} => JustRow(s.new, log[s.new.intent], now),
           s.pc = "read" => s.kind # "success" /\ (s.wait # 0 <=> s.kind = "rate_limited")
    PROVE  JustInv'
<1>1. TypeOK'
  BY DEF JustInv, TypeOK, CallState
<1>2. \A d \in Calls : call'[d] = IF d = c THEN s ELSE call[d]
  BY DEF JustInv, TypeOK
<1>3. \A d \in Calls :
          /\ call'[d].pc \in {"delete", "insert"} =>
                 JustRow(call'[d].new, log[call'[d].new.intent], now)
          /\ call'[d].pc = "read" =>
                 /\ call'[d].kind # "success"
                 /\ call'[d].wait # 0 <=> call'[d].kind = "rate_limited"
  BY <1>2 DEF JustInv
<1> HIDE DEF JustRow
<1> QED
  BY <1>1, <1>3 DEF JustInv

\* A step of a request that leaves rows that are justified.
LEMMA RowsMove ==
    ASSUME JustInv, NEW c \in Calls, NEW s \in CallState, call' = [call EXCEPT ![c] = s],
           UNCHANGED <<now, log>>, begun' \in Nat, failures' \in Nat,
           rows' \subseteq rows \cup {call[c].new}, call[c].pc \in {"delete", "insert"},
           s.pc = "insert" => s.new = call[c].new,
           s.pc \in {"idle", "insert", "sleep"}
    PROVE  JustInv'
<1>1. call[c] \in CallState /\ JustRow(call[c].new, log[call[c].new.intent], now)
  BY DEF JustInv, TypeOK, CallState
<1>2. TypeOK'
  BY <1>1 DEF JustInv, TypeOK, CallState
<1>3. \A d \in Calls : call'[d] = IF d = c THEN s ELSE call[d]
  BY DEF JustInv, TypeOK
<1>4. \A r \in rows' : JustRow(r, log[r.intent], now)
  BY <1>1 DEF JustInv
<1>5. \A d \in Calls :
          /\ call'[d].pc \in {"delete", "insert"} =>
                 JustRow(call'[d].new, log[call'[d].new.intent], now)
          /\ call'[d].pc = "read" =>
                 /\ call'[d].kind # "success"
                 /\ call'[d].wait # 0 <=> call'[d].kind = "rate_limited"
  BY <1>1, <1>3 DEF JustInv
<1> QED
  BY <1>2, <1>4, <1>5 DEF JustInv

\* What one request does, step by step.
LEMMA Local ==
    ASSUME JustInv, NEW c \in Calls
    PROVE  /\ call[c] \in CallState /\ call[c].intent \in Intents /\ Idle \in CallState
           /\ Idle.pc = "idle" /\ begun \in Nat /\ failures \in Nat
           /\ call[c].new \in Row /\ rows \subseteq Row /\ now \in Nat
<1>1. call[c] \in CallState
  BY DEF JustInv, TypeOK, CallState
<1>2. AnyIntent \in Intents
  BY PolicyAssumption DEF AnyIntent
<1>3. Idle \in CallState /\ Idle.pc = "idle"
  BY <1>2 DEF Idle, CallState, PCs, Kinds, Row, NewRow
<1> QED
  BY <1>1, <1>3 DEF CallState, JustInv, TypeOK

\* A step to where a request neither holds a row nor an answer.
LEMMA QuietMoves ==
    ASSUME JustInv, NEW c \in Calls, NEW s \in CallState, call' = [call EXCEPT ![c] = s],
           UNCHANGED <<now, rows, log>>, begun' \in {begun, begun + 1},
           failures' \in {failures, failures + 1}, s.pc \notin {"delete", "insert", "read"}
    PROVE  JustInv'
<1>1. begun' \in Nat /\ failures' \in Nat
  BY Local
<1>2. /\ s.pc \in {"delete", "insert"} => JustRow(s.new, log[s.new.intent], now)
      /\ s.pc = "read" => s.kind # "success" /\ (s.wait # 0 <=> s.kind = "rate_limited")
  OBVIOUS
<1> QED
  BY <1>1, <1>2, CallMoves

LEMMA BeginJust == ASSUME JustInv, NEW c \in Calls, NEW i \in Intents, Begin(c, i) PROVE JustInv'
<1> DEFINE s == [Idle EXCEPT !.pc = "check", !.intent = i]
<1>1. s \in CallState /\ s.pc = "check"
  BY Local DEF CallState, PCs
<1>2. call' = [call EXCEPT ![c] = s] /\ UNCHANGED <<now, rows, log>>
      /\ begun' = begun + 1 /\ failures' = failures
  BY DEF Begin, Become
<1> HIDE DEF s
<1> QED
  BY <1>1, <1>2, QuietMoves

LEMMA CheckJust == ASSUME JustInv, NEW c \in Calls, Check(c) \/ Plan(c) PROVE JustInv'
<1>1. PICK s \in {Idle, [call[c] EXCEPT !.pc = "plan"],
                  [call[c] EXCEPT !.pc = "run", !.attempt = 1]} : call' = [call EXCEPT ![c] = s]
  BY DEF Check, Plan, Become, Return
<1>2. s \in CallState /\ s.pc \in {"idle", "plan", "run"}
  <2>1. CASE s = Idle
    BY <2>1, Local
  <2>2. CASE s = [call[c] EXCEPT !.pc = "plan"]
    BY <2>2, Local DEF CallState, PCs
  <2>3. CASE s = [call[c] EXCEPT !.pc = "run", !.attempt = 1]
    BY <2>3, Local DEF CallState, PCs
  <2> QED
    BY <1>1, <2>1, <2>2, <2>3
<1>3. UNCHANGED <<now, rows, log>> /\ begun' = begun /\ failures' \in {failures, failures + 1}
  BY DEF Check, Plan, FailDb
<1> QED
  BY <1>1, <1>2, <1>3, QuietMoves

LEMMA WakeJust == ASSUME JustInv, NEW c \in Calls, Wake(c) PROVE JustInv'
<1>1. PICK s \in {Idle, [call[c] EXCEPT !.pc = "run", !.attempt = @ + 1]} :
          call' = [call EXCEPT ![c] = s]
  BY DEF Wake, Become, Return
<1>2. s \in CallState /\ s.pc \in {"idle", "run"}
  <2>1. CASE s = Idle
    BY <2>1, Local
  <2>2. CASE s = [call[c] EXCEPT !.pc = "run", !.attempt = @ + 1]
    <3>1. call[c].attempt + 1 \in Nat
      BY Local DEF CallState
    <3> QED
      BY <2>2, <3>1, Local DEF CallState, PCs
  <2> QED
    BY <1>1, <2>1, <2>2
<1>3. UNCHANGED <<now, rows, log>> /\ begun' = begun /\ failures' \in {failures, failures + 1}
  BY DEF Wake, FailDb
<1> QED
  BY <1>1, <1>2, <1>3, QuietMoves

\* An answer goes into the log, which takes no justification away.
LEMMA LogGrows ==
    ASSUME JustInv, NEW c \in Calls, NEW i \in Intents, NEW kind \in Kinds, NEW wait \in Nat,
           Answered(i, kind, wait), NEW s \in CallState, call' = [call EXCEPT ![c] = s],
           UNCHANGED <<now, rows>>, begun' \in Nat, failures' \in Nat,
           s.pc \notin {"read", "insert"},
           s.pc = "delete" => JustRow(s.new, log'[s.new.intent], now)
    PROVE  JustInv'
<1> DEFINE e == [kind |-> kind, at |-> now, wait |-> wait]
<1>1. e \in Answer /\ log \in [Intents -> Seq(Answer)] /\ now \in Nat /\ rows \subseteq Row
      /\ log' = [log EXCEPT ![i] = Append(log[i], e)]
  BY DEF Answered, Answer, JustInv, TypeOK
<1> HIDE DEF e
<1>2. log' \in [Intents -> Seq(Answer)]
  BY <1>1, AppendProperties
<1>3. TypeOK'
  BY <1>2 DEF JustInv, TypeOK, CallState, Answer
<1>4. ASSUME NEW r \in Row, JustRow(r, log[r.intent], now)
      PROVE  JustRow(r, log'[r.intent], now)
  <2>1. r.intent \in Intents
    BY DEF Row
  <2>2. CASE r.intent = i
    BY <1>1, <1>4, <2>1, <2>2, StaysJustified
  <2>3. CASE r.intent # i
    BY <1>1, <1>4, <2>1, <2>3
  <2> QED
    BY <2>2, <2>3
<1>5. \A r \in rows' : JustRow(r, log'[r.intent], now)
  BY <1>1, <1>4 DEF JustInv
<1>6. \A d \in Calls : call'[d] = IF d = c THEN s ELSE call[d]
  BY DEF JustInv, TypeOK
<1>7. \A d \in Calls :
          /\ call'[d].pc \in {"delete", "insert"} =>
                 JustRow(call'[d].new, log'[call'[d].new.intent], now)
          /\ call'[d].pc = "read" =>
                 /\ call'[d].kind # "success"
                 /\ call'[d].wait # 0 <=> call'[d].kind = "rate_limited"
  <2> TAKE d \in Calls
  <2>1. CASE d = c
    BY <1>6, <2>1
  <2>2. CASE d # c
    <3>1. call'[d] = call[d] /\ call[d].new \in Row
      BY <1>6, <2>2, Local
    <3> QED
      BY <1>4, <3>1 DEF JustInv
  <2> QED
    BY <2>1, <2>2
<1> QED
  BY <1>3, <1>5, <1>7 DEF JustInv

LEMMA RunJust == ASSUME JustInv, NEW c \in Calls, Run(c) PROVE JustInv'
<1>1. PICK kind \in Kinds, wait \in RetryAfter \cup {0} :
          /\ wait # 0 <=> kind = "rate_limited"
          /\ \/ /\ kind = "success"
                /\ Return(c) /\ Answered(call[c].intent, kind, 0)
                /\ UNCHANGED failures
             \/ /\ kind # "success"
                /\ Become(c, [call[c] EXCEPT !.pc = "read", !.kind = kind, !.wait = wait])
                /\ UNCHANGED <<log, failures>>
             \/ FailDb /\ Return(c) /\ UNCHANGED log
  BY DEF Run
<1>2. wait \in Nat /\ UNCHANGED <<now, rows, begun>>
  BY PolicyAssumption DEF Run
<1>3. CASE Return(c) /\ Answered(call[c].intent, "success", 0) /\ UNCHANGED failures
  <2>1. "success" \in Kinds /\ call' = [call EXCEPT ![c] = Idle]
    BY <1>3 DEF Kinds, Return, Become
  <2> QED
    BY <1>2, <1>3, <2>1, Local, LogGrows
<1>4. CASE /\ kind # "success" /\ UNCHANGED <<log, failures>>
           /\ Become(c, [call[c] EXCEPT !.pc = "read", !.kind = kind, !.wait = wait])
  <2> DEFINE s == [call[c] EXCEPT !.pc = "read", !.kind = kind, !.wait = wait]
  <2>1. s \in CallState /\ s.pc = "read" /\ s.kind = kind /\ s.wait = wait
    BY <1>2, Local DEF CallState, PCs
  <2>2. call' = [call EXCEPT ![c] = s]
    BY <1>4 DEF Become
  <2> HIDE DEF s
  <2> QED
    BY <1>1, <1>2, <1>4, <2>1, <2>2, Local, CallMoves
<1>5. CASE FailDb /\ Return(c) /\ UNCHANGED log
  <2>1. call' = [call EXCEPT ![c] = Idle] /\ failures' = failures + 1
    BY <1>5 DEF FailDb, Return, Become
  <2> QED
    BY <1>2, <1>5, <2>1, Local, QuietMoves
<1> QED
  BY <1>1, <1>3, <1>4, <1>5

LEMMA ReadJust == ASSUME JustInv, NEW c \in Calls, ReadRow(c) PROVE JustInv'
<1> DEFINE i == call[c].intent
           kind == call[c].kind
           wait == call[c].wait
           e == [kind |-> kind, at |-> now, wait |-> wait]
<1>1. PICK old : /\ old \in {RowOf(i), {}} /\ failures' \in {failures, failures + 1}
                 /\ Become(c, [call[c] EXCEPT !.pc = "delete", !.new = Marked(i, kind, wait, old)])
  BY DEF ReadRow, FailDb
<1>2. /\ Answered(i, kind, wait) /\ UNCHANGED <<now, rows, begun>>
      /\ kind # "success" /\ (wait # 0 <=> kind = "rate_limited")
  BY DEF ReadRow, JustInv
<1>3. i \in Intents /\ kind \in Kinds /\ wait \in Nat
  BY Local DEF CallState
<1> DEFINE new == Marked(i, kind, wait, old)
           s == [call[c] EXCEPT !.pc = "delete", !.new = new]
<1>4. old \subseteq RowOf(i) /\ old \subseteq rows
  BY <1>1 DEF RowOf
<1>5. new \in Row
  BY <1>3, <1>4, MarkedTyped DEF JustInv
<1>6. new.intent = i
  BY DEF Marked, NewRow
<1>7. JustRow(new, Append(log[i], e), now)
  BY <1>2, <1>3, <1>4, MarkedJustified
<1>8. log'[i] = Append(log[i], e)
  BY <1>2, <1>3 DEF Answered, JustInv, TypeOK
<1> HIDE DEF new, e
<1>9. s \in CallState /\ s.pc = "delete" /\ s.new = new
  BY <1>5, Local DEF CallState, PCs
<1>10. call' = [call EXCEPT ![c] = s]
  BY <1>1 DEF Become, new
<1>11. JustRow(s.new, log'[s.new.intent], now)
  BY <1>6, <1>7, <1>8, <1>9
<1> HIDE DEF s
<1>12. begun' \in Nat /\ failures' \in Nat
  BY <1>1, <1>2, Local
<1>13. s.pc \notin {"read", "insert"}
  BY <1>9
<1> HIDE DEF i, kind, wait
<1> QED
  BY <1>2, <1>3, <1>9, <1>10, <1>11, <1>12, <1>13, LogGrows

\* The state after a mark.
LEMMA AfterMarkIs ==
    ASSUME JustInv, NEW c \in Calls, AfterMark(c)
    PROVE  \E s \in CallState : s.pc \in {"idle", "sleep"} /\ call' = [call EXCEPT ![c] = s]
<1> DEFINE s == [call[c] EXCEPT !.pc = "sleep", !.wake = now + call[c].wait]
<1>0. now + call[c].wait \in Nat
  BY Local DEF CallState
<1>1. s \in CallState /\ s.pc = "sleep"
  BY <1>0, Local DEF CallState, PCs
<1>2. call' = [call EXCEPT ![c] = s] \/ call' = [call EXCEPT ![c] = Idle]
  BY DEF AfterMark, Become, Return
<1> QED
  BY <1>1, <1>2, Local

LEMMA WriteJust == ASSUME JustInv, NEW c \in Calls, DeleteRow(c) \/ InsertRow(c) PROVE JustInv'
<1> DEFINE t == [call[c] EXCEPT !.pc = "insert"]
<1>1. t \in CallState /\ t.pc = "insert" /\ t.new = call[c].new
  BY Local DEF CallState, PCs
<1>2. PICK s \in CallState : /\ s.pc \in {"idle", "insert", "sleep"} /\ call' = [call EXCEPT ![c] = s]
                             /\ s.pc = "insert" => s.new = call[c].new
  <2>1. CASE Become(c, t)
    BY <1>1, <2>1 DEF Become
  <2>2. CASE AfterMark(c)
    BY <2>2, AfterMarkIs
  <2> QED
    BY <2>1, <2>2 DEF DeleteRow, InsertRow
<1>3. /\ UNCHANGED <<now, log, begun>> /\ failures' \in {failures, failures + 1}
      /\ rows' \subseteq rows \cup {call[c].new} /\ call[c].pc \in {"delete", "insert"}
  BY DEF DeleteRow, InsertRow, FailDb, RowOf
<1>4. begun' \in Nat /\ failures' \in Nat
  BY <1>3, Local
<1> QED
  BY <1>2, <1>3, <1>4, RowsMove

\* As time passes only fewer windows have to be justified.
LEMMA TickJust == JustInv /\ Tick => JustInv'
<1> SUFFICES ASSUME JustInv, Tick PROVE JustInv'
  OBVIOUS
<1>1. now \in Nat /\ now' = now + 1 /\ UNCHANGED <<rows, call, log, begun, failures>>
  BY DEF JustInv, TypeOK, Tick
<1>2. ASSUME NEW r \in Row, NEW answers, JustRow(r, answers, now) PROVE JustRow(r, answers, now + 1)
  BY <1>1, <1>2 DEF JustRow, Row
<1>3. TypeOK'
  <2>1. now' \in Nat
    BY <1>1
  <2> QED
    BY <1>1, <2>1 DEF JustInv, TypeOK
<1>4. \A r \in rows : JustRow(r, log[r.intent], now')
  BY <1>1, <1>2 DEF JustInv, TypeOK
<1>5. \A c \in Calls : call[c].pc \in {"delete", "insert"} =>
                           JustRow(call[c].new, log[call[c].new.intent], now')
  BY <1>1, <1>2, Local DEF JustInv
<1> QED
  BY <1>1, <1>3, <1>4, <1>5 DEF JustInv

LEMMA JustStep == JustInv /\ [Next]_vars => JustInv'
<1> SUFFICES ASSUME JustInv, [Next]_vars PROVE JustInv'
  OBVIOUS
<1>1. CASE UNCHANGED vars
  <2>1. UNCHANGED <<now, rows, call, log, begun, failures>>
    BY <1>1 DEF vars
  <2>2. TypeOK'
    BY <2>1 DEF JustInv, TypeOK
  <2> QED
    BY <2>1, <2>2 DEF JustInv
<1> QED
  BY <1>1, BeginJust, CheckJust, WakeJust, RunJust, ReadJust, WriteJust, TickJust DEF Next, Step
-----------------------------------------------------------------------------
\* The invariant the two theorems rest on.
LEMMA Inductive == Spec => []JustInv
  BY JustInit, JustStep, PTL DEF Spec

\* The types of the table, of the requests and of the platform's answers
\* (executeWithPolicy, markFailure).
THEOREM TypeCorrect == Spec => []TypeOK
<1>1. JustInv => TypeOK
  BY DEF JustInv
<1> QED
  BY <1>1, Inductive, PTL

\* No capability is closed but by an answer of its platform: a wait it asked for,
\* or the last of at least Threshold terminal failures (markFailure).
THEOREM BlocksAreJustified == Spec => []BlockJustified
<1>1. JustInv => BlockJustified
  <2> SUFFICES ASSUME JustInv, NEW r \in rows, r.until > now
               PROVE  \E k \in DOMAIN log[r.intent] :
                          LET e == log[r.intent][k]
                          IN  \/ e.kind = "rate_limited" /\ r.until = e.at + e.wait
                              \/ /\ e.kind = "terminal" /\ r.until = e.at + Cooldown
                                 /\ Cardinality({m \in 1..k : log[r.intent][m].kind = "terminal"})
                                      >= Threshold
    BY DEF BlockJustified
  <2>1. r.intent \in Intents /\ Justified(r.until, log[r.intent])
    BY DEF JustInv, JustRow, TypeOK, Row
  <2>2. DOMAIN log[r.intent] = 1..Len(log[r.intent])
    BY <2>1, LenProperties DEF JustInv, TypeOK
  <2> QED
    BY <2>1, <2>2 DEF Justified, Terminals
<1> QED
  BY <1>1, Inductive, PTL

-----------------------------------------------------------------------------
\* One request at a time.  The rows of an intent, and what they must say of its
\* answers: how many were terminal and, after the last that counts, the cooldown.
RowsFor(rs, i) == {r \in rs : r.intent = i}
Tells(answers, old) ==
    /\ TerminalOf(old) = Cardinality(Terminals(answers, Len(answers)))
    /\ (/\ Len(answers) > 0 /\ answers[Len(answers)].kind = "terminal"
        /\ Cardinality(Terminals(answers, Len(answers))) >= Threshold)
       => \E r \in old : r.until >= answers[Len(answers)].at + Cooldown

\* An intent is open at t.
OpenAt(rs, i, t) == \A r \in RowsFor(rs, i) : r.until <= t

\* Where the rows and the answers are at each point of a request.
Fits(s, rs, answers, t) ==
    /\ s.pc \in {"plan", "run", "read", "delete", "insert"} => OpenAt(rs, s.intent, t)
    /\ s.pc = "sleep" => OpenAt(rs, s.intent, s.wake)
    /\ s.pc \in {"delete", "insert"} =>
           /\ s.new.intent = s.intent /\ Tells(answers[s.intent], {s.new})
           /\ s.kind \in Retryable => s.new.until <= t + s.wait
    /\ s.pc = "insert" => RowsFor(rs, s.intent) = {}

Unwritten(i) == \E c \in Calls : call[c].pc \in {"delete", "insert"} /\ call[c].intent = i

AloneInv ==
    alone => /\ failures = 0 /\ \A c \in Calls : call[c].pc # "idle" => c = c1
             /\ \A r, s \in rows : r.intent = s.intent => r = s
             /\ \A i \in Intents : Unwritten(i) \/ Tells(log[i], RowsFor(rows, i))
             /\ \A c \in Calls : Fits(call[c], rows, log, now)

LEMMA IdleFits == ASSUME NEW s, s.pc \in {"idle", "check"}, NEW rs, NEW answers, NEW t PROVE Fits(s, rs, answers, t)
  BY DEF Fits

\* A step of the request that is alone, which touches the rows and the answers of
\* its own intent only.
LEMMA AloneMoves ==
    ASSUME JustInv, JustInv', AloneInv, alone, failures' = 0, Busy' \subseteq {c1},
           NEW c \in Calls, NEW s \in CallState, call' = [call EXCEPT ![c] = s],
           call[c].pc = "idle" => s.pc # "idle",
           NEW i \in Intents, s.pc # "idle" => s.intent = i, call[c].pc # "idle" => call[c].intent = i,
           \A j \in Intents \ {i} : log'[j] = log[j] /\ RowsFor(rows', j) = RowsFor(rows, j),
           \A r, q \in RowsFor(rows', i) : r = q,
           Fits(s, rows', log', now'),
           s.pc \notin {"delete", "insert"} => Tells(log'[i], RowsFor(rows', i))
    PROVE  AloneInv'
<1>1. \A d \in Calls : call'[d] = IF d = c THEN s ELSE call[d]
  BY DEF JustInv, TypeOK
<1>2. \A d \in Calls : call'[d].pc # "idle" => d = c1
  BY DEF Busy
<1>3. \A d \in Calls \ {c} : call[d].pc = "idle"
  <2> SUFFICES ASSUME NEW d \in Calls \ {c}, call[d].pc # "idle" PROVE FALSE
    OBVIOUS
  <2>1. d = c1 /\ (call[c].pc # "idle" => c = c1)
    BY DEF AloneInv
  <2>2. call[c].pc = "idle" => c = c1
    BY <1>1, <1>2
  <2> QED
    BY <2>1, <2>2
<1>4. \A d \in Calls : Fits(call'[d], rows', log', now')
  <2> SUFFICES ASSUME NEW d \in Calls \ {c} PROVE Fits(call'[d], rows', log', now')
    BY <1>1
  <2>1. call'[d].pc = "idle"
    BY <1>1, <1>3
  <2> QED
    BY <2>1, IdleFits
<1>5. \A r, q \in rows' : r.intent = q.intent => r = q
  <2> SUFFICES ASSUME NEW r \in rows', NEW q \in rows', r.intent = q.intent PROVE r = q
    OBVIOUS
  <2>1. r.intent \in Intents
    BY DEF JustInv, TypeOK, Row
  <2>2. CASE r.intent = i
    BY <2>2 DEF RowsFor
  <2>3. CASE r.intent # i
    <3>1. r \in RowsFor(rows, r.intent) /\ q \in RowsFor(rows, r.intent)
      BY <2>1, <2>3 DEF RowsFor
    <3> QED
      BY <3>1 DEF RowsFor, AloneInv
  <2> QED
    BY <2>2, <2>3
<1>6. ASSUME NEW j \in Intents PROVE Unwritten(j)' \/ Tells(log'[j], RowsFor(rows', j))
  <2>1. CASE j = i
    <3>1. CASE s.pc \in {"delete", "insert"}
      <4>1. call'[c] = s /\ s.intent = i
        BY <1>1, <3>1
      <4> QED
        BY <2>1, <3>1, <4>1 DEF Unwritten
    <3> QED
      BY <2>1, <3>1
  <2>2. CASE j # i
    <3>1. ~Unwritten(j)
      <4> SUFFICES ASSUME NEW d \in Calls, call[d].pc \in {"delete", "insert"}, call[d].intent = j PROVE FALSE
        BY DEF Unwritten
      <4>1. call[d].pc # "idle"
        OBVIOUS
      <4>2. d = c
        BY <1>3, <4>1
      <4> QED
        BY <2>2, <4>1, <4>2
    <3>2. Tells(log[j], RowsFor(rows, j))
      BY <3>1 DEF AloneInv
    <3> QED
      BY <2>2, <3>2
  <2> QED
    BY <2>1, <2>2
<1> QED
  BY <1>2, <1>4, <1>5, <1>6 DEF AloneInv

\* What a request that is alone finds.
LEMMA AloneFinds ==
    ASSUME JustInv, AloneInv, alone, NEW c \in Calls
    PROVE  /\ Fits(call[c], rows, log, now) /\ failures = 0
           /\ \A i \in Intents : \A r, q \in RowsFor(rows, i) : r = q
           /\ call[c].pc \notin {"idle", "delete", "insert"} =>
                  Tells(log[call[c].intent], RowsFor(rows, call[c].intent))
           /\ (\A d \in Calls : call[d].pc = "idle") => \A i \in Intents : Tells(log[i], RowsFor(rows, i))
<1>1. call[c].intent \in Intents
  BY Local
<1>2. ASSUME call[c].pc \notin {"idle", "delete", "insert"}
      PROVE  Tells(log[call[c].intent], RowsFor(rows, call[c].intent))
  <2>1. ~Unwritten(call[c].intent)
    BY <1>2 DEF Unwritten, AloneInv
  <2> QED
    BY <1>1, <2>1 DEF AloneInv
<1>3. (\A d \in Calls : call[d].pc = "idle") => \A i \in Intents : Tells(log[i], RowsFor(rows, i))
  BY DEF AloneInv, Unwritten
<1> QED
  BY <1>2, <1>3 DEF AloneInv, RowsFor

\* An answer that is not terminal needs nothing new from the rows.
LEMMA TellsStill ==
    ASSUME NEW answers \in Seq(Answer), NEW e \in Answer, e.kind # "terminal", NEW old, Tells(answers, old)
    PROVE  Tells(Append(answers, e), old)
<1> DEFINE more == Append(answers, e)
<1>1. Cardinality(Terminals(more, Len(more))) = Cardinality(Terminals(answers, Len(answers))) + 0
  BY CountAfter
<1>2. Len(more) = Len(answers) + 1 /\ more[Len(answers) + 1] = e
  BY AppendProperties
<1>3. Cardinality(Terminals(answers, Len(answers))) \in Nat
  BY TerminalsFinite, LenProperties
<1> HIDE DEF more
<1>4. Tells(more, old)
  BY <1>1, <1>2, <1>3 DEF Tells
<1> QED
  BY <1>4 DEF more

\* The row a failure leaves tells its answers.
LEMMA MarkTells ==
    ASSUME JustInv, NEW i \in Intents, NEW kind \in Kinds \ {"success"}, NEW wait \in Nat,
           wait # 0 <=> kind = "rate_limited", Tells(log[i], RowOf(i))
    PROVE  LET new == Marked(i, kind, wait, RowOf(i))
           IN  /\ Tells(Append(log[i], [kind |-> kind, at |-> now, wait |-> wait]), {new})
               /\ kind \in Retryable => new.until <= now + wait
<1> DEFINE e == [kind |-> kind, at |-> now, wait |-> wait]
           answers == log[i]
           more == Append(answers, e)
           old == RowOf(i)
           new == Marked(i, kind, wait, old)
           terminal == TerminalOf(old) + (IF kind \in Retryable THEN 0 ELSE 1)
           n == Cardinality(Terminals(answers, Len(answers)))
           m == Cardinality(Terminals(more, Len(more)))
<1>1. /\ now \in Nat /\ e \in Answer /\ e.kind = kind /\ e.at = now /\ answers \in Seq(Answer)
      /\ Threshold \in Nat \ {0} /\ Cooldown \in Nat
  BY PolicyAssumption DEF JustInv, TypeOK, Answer
<1>2. new.terminal = terminal /\ new.until = MarkedUntil(kind, wait, terminal, UntilOf(old))
  BY DEF Marked, NewRow
<1>3. TerminalOf(old) = n
  BY DEF Tells
<1>4. m = n + (IF kind = "terminal" THEN 1 ELSE 0)
  BY <1>1, CountAfter
<1>5. n \in Nat
  BY <1>1, TerminalsFinite, LenProperties
<1>6. Len(more) = Len(answers) + 1 /\ more[Len(answers) + 1] = e
  BY <1>1, AppendProperties
<1>7. kind \in {"timeout", "rate_limited", "terminal"} /\ (kind \in Retryable <=> kind # "terminal")
  BY DEF Kinds, Retryable
<1>8. TerminalOf({new}) = new.terminal
  BY DEF TerminalOf
<1> HIDE DEF new, more, e, answers, old
<1>9. terminal = m
  BY <1>3, <1>4, <1>5, <1>7
<1> HIDE DEF terminal, n, m
<1>10. kind = "terminal" /\ m >= Threshold => new.until = now + Cooldown
  <2> SUFFICES ASSUME kind = "terminal", m >= Threshold PROVE new.until = now + Cooldown
    OBVIOUS
  <2>1. ~(wait > 0) /\ wait = 0
    OBVIOUS
  <2> QED
    BY <1>2, <1>9, <2>1 DEF MarkedUntil, Retryable
<1>11. kind \in Retryable => new.until <= now + wait
  <2> SUFFICES ASSUME kind \in Retryable PROVE new.until <= now + wait
    OBVIOUS
  <2>1. CASE wait > 0
    BY <1>1, <1>2, <2>1 DEF MarkedUntil
  <2>2. CASE wait = 0
    <3>1. new.until = now
      BY <1>2, <1>7, <2>2 DEF MarkedUntil
    <3> QED
      BY <1>1, <2>2, <3>1
  <2> QED
    BY <2>1, <2>2
<1>12. Tells(more, {new})
  <2>1. TerminalOf({new}) = m
    BY <1>2, <1>8, <1>9
  <2>2. ASSUME more[Len(more)].kind = "terminal", m >= Threshold
        PROVE  \E r \in {new} : r.until >= more[Len(more)].at + Cooldown
    <3>0. Len(more) = Len(answers) + 1
      BY <1>6
    <3>1. more[Len(more)] = e
      BY <1>6, <3>0
    <3>2. new.until = now + Cooldown /\ now + Cooldown \in Nat
      BY <1>1, <1>10, <2>2, <3>1
    <3> QED
      BY <1>1, <3>1, <3>2
  <2> QED
    BY <2>1, <2>2 DEF Tells, m
<1> QED
  BY <1>11, <1>12 DEF new, more, e, answers, old

-----------------------------------------------------------------------------
\* A step that leaves the rows and the answers as they are.
LEMMA AloneQuiet ==
    ASSUME JustInv, JustInv', AloneInv, alone, failures' = 0, Busy' \subseteq {c1},
           NEW c \in Calls, NEW s \in CallState, call' = [call EXCEPT ![c] = s],
           UNCHANGED <<now, rows, log>>, call[c].pc \notin {"idle", "delete", "insert"},
           s.pc \in {"idle", "plan", "run", "read"}, s.pc # "idle" => s.intent = call[c].intent,
           s.pc # "idle" => OpenAt(rows, call[c].intent, now)
    PROVE  AloneInv'
<1> DEFINE i == call[c].intent
<1>1. /\ i \in Intents /\ \A r, q \in RowsFor(rows, i) : r = q
      /\ Tells(log[i], RowsFor(rows, i))
  BY Local, AloneFinds
<1>2. Fits(s, rows', log', now')
  BY DEF Fits
<1> HIDE DEF i
<1>3. s.pc # "idle" => s.intent = i
  BY DEF i
<1>4. call[c].pc # "idle" /\ call[c].intent = i
  BY DEF i
<1> QED
  BY <1>1, <1>2, <1>3, <1>4, AloneMoves

LEMMA BeginAlone ==
    ASSUME JustInv, JustInv', AloneInv, alone, failures' = 0, Busy' \subseteq {c1},
           NEW c \in Calls, NEW i \in Intents, Begin(c, i)
    PROVE  AloneInv'
<1> DEFINE s == [Idle EXCEPT !.pc = "check", !.intent = i]
<1>1. s \in CallState /\ s.pc = "check" /\ s.intent = i
  BY Local DEF CallState, PCs
<1>2. call' = [call EXCEPT ![c] = s] /\ UNCHANGED <<now, rows, log>> /\ call[c].pc = "idle"
  BY DEF Begin, Become
<1> HIDE DEF s
<1>3. \A d \in Calls : call[d].pc = "idle"
  <2>1. call'[c].pc # "idle"
    BY <1>1, <1>2 DEF JustInv, TypeOK
  <2> QED
    BY <1>2, <2>1 DEF Busy, AloneInv
<1>4. Tells(log[i], RowsFor(rows, i)) /\ \A r, q \in RowsFor(rows, i) : r = q
  BY <1>3, AloneFinds
<1>5. Fits(s, rows', log', now')
  BY <1>1, IdleFits
<1> QED
  BY <1>1, <1>2, <1>4, <1>5, AloneMoves

LEMMA CheckAlone ==
    ASSUME JustInv, JustInv', AloneInv, alone, failures' = 0, Busy' \subseteq {c1},
           NEW c \in Calls, Check(c) \/ Plan(c) \/ Wake(c)
    PROVE  AloneInv'
<1>0. /\ call[c] \in CallState /\ rows \subseteq Row /\ now \in Nat /\ Fits(call[c], rows, log, now)
      /\ call[c].pc \in {"check", "plan", "sleep"} /\ UNCHANGED <<now, rows, log>>
      /\ Idle \in CallState /\ Idle.pc = "idle"
  BY Local, AloneFinds DEF Check, Plan, Wake
<1>1. CASE Return(c)
  BY <1>0, <1>1, AloneQuiet DEF Return, Become
<1>2. CASE Check(c) /\ ~Return(c)
  <2> DEFINE s == [call[c] EXCEPT !.pc = "plan"]
  <2>1. s \in CallState /\ s.pc = "plan" /\ s.intent = call[c].intent
    BY <1>0 DEF CallState, PCs
  <2>2. call' = [call EXCEPT ![c] = s] /\ ~Blocked(call[c].intent)
    BY <1>2 DEF Check, Become
  <2>3. OpenAt(rows, call[c].intent, now)
    <3> SUFFICES ASSUME NEW r \in rows, r.intent = call[c].intent PROVE r.until <= now
      BY DEF OpenAt, RowsFor
    <3>1. r.until \in Nat /\ ~(r.until > now)
      BY <1>0, <2>2 DEF Blocked, RowOf, Row
    <3> QED
      BY <1>0, <3>1
  <2> HIDE DEF s
  <2> QED
    BY <1>0, <2>1, <2>2, <2>3, AloneQuiet
<1>3. CASE Plan(c) /\ ~Return(c)
  <2> DEFINE s == [call[c] EXCEPT !.pc = "run", !.attempt = 1]
  <2>1. s \in CallState /\ s.pc = "run" /\ s.intent = call[c].intent
    BY <1>0 DEF CallState, PCs
  <2>2. call' = [call EXCEPT ![c] = s] /\ OpenAt(rows, call[c].intent, now)
    BY <1>0, <1>3 DEF Plan, Become, Fits
  <2> HIDE DEF s
  <2> QED
    BY <1>0, <2>1, <2>2, AloneQuiet
<1>4. CASE Wake(c) /\ ~Return(c)
  <2> DEFINE s == [call[c] EXCEPT !.pc = "run", !.attempt = @ + 1]
  <2>1. s \in CallState /\ s.pc = "run" /\ s.intent = call[c].intent
    <3>1. call[c].attempt + 1 \in Nat
      BY <1>0 DEF CallState
    <3> QED
      BY <1>0, <3>1 DEF CallState, PCs
  <2>2. call' = [call EXCEPT ![c] = s] /\ call[c].wake <= now /\ call[c].wake \in Nat
        /\ OpenAt(rows, call[c].intent, call[c].wake)
    BY <1>0, <1>4 DEF Wake, Become, Fits, CallState
  <2>3. OpenAt(rows, call[c].intent, now)
    <3> SUFFICES ASSUME NEW r \in rows, r.intent = call[c].intent PROVE r.until <= now
      BY DEF OpenAt, RowsFor
    <3>1. r.until \in Nat /\ r.until <= call[c].wake
      BY <1>0, <2>2 DEF OpenAt, RowsFor, Row
    <3> QED
      BY <1>0, <2>2, <3>1
  <2> HIDE DEF s
  <2> QED
    BY <1>0, <2>1, <2>2, <2>3, AloneQuiet
<1> QED
  BY <1>1, <1>2, <1>3, <1>4

LEMMA RunAlone ==
    ASSUME JustInv, JustInv', AloneInv, alone, failures' = 0, Busy' \subseteq {c1},
           NEW c \in Calls, Run(c)
    PROVE  AloneInv'
<1> DEFINE i == call[c].intent
<1>0. /\ call[c] \in CallState /\ i \in Intents /\ now \in Nat /\ log \in [Intents -> Seq(Answer)]
      /\ Idle \in CallState /\ Idle.pc = "idle" /\ call[c].pc = "run" /\ UNCHANGED <<now, rows>>
      /\ OpenAt(rows, i, now) /\ Tells(log[i], RowsFor(rows, i)) /\ \A r, q \in RowsFor(rows, i) : r = q
  BY Local, AloneFinds DEF Run, Fits, JustInv, TypeOK, Answer
<1>1. PICK kind \in Kinds, wait \in RetryAfter \cup {0} :
          \/ Return(c) /\ Answered(i, "success", 0)
          \/ /\ Become(c, [call[c] EXCEPT !.pc = "read", !.kind = kind, !.wait = wait])
             /\ UNCHANGED log
          \/ Return(c) /\ UNCHANGED log
  BY DEF Run
<1>2. CASE Return(c) /\ Answered(i, "success", 0)
  <2> DEFINE e == [kind |-> "success", at |-> now, wait |-> 0]
  <2>1. e \in Answer /\ e.kind # "terminal" /\ log' = [log EXCEPT ![i] = Append(@, e)]
    BY <1>0, <1>2 DEF Answer, Kinds, Answered
  <2> HIDE DEF e, i
  <2>2. log'[i] = Append(log[i], e) /\ \A j \in Intents \ {i} : log'[j] = log[j]
    BY <1>0, <2>1
  <2>3. Tells(log'[i], RowsFor(rows', i))
    BY <1>0, <2>1, <2>2, TellsStill
  <2>4. Fits(Idle, rows', log', now') /\ call' = [call EXCEPT ![c] = Idle] /\ call[c].intent = i
    BY <1>0, <1>2, IdleFits DEF Return, Become, i
  <2> QED
    BY <1>0, <2>2, <2>3, <2>4, AloneMoves
<1>3. CASE /\ Become(c, [call[c] EXCEPT !.pc = "read", !.kind = kind, !.wait = wait])
           /\ UNCHANGED log
  <2> DEFINE s == [call[c] EXCEPT !.pc = "read", !.kind = kind, !.wait = wait]
  <2>1. s \in CallState /\ s.pc = "read" /\ s.intent = call[c].intent
    <3>1. wait \in Nat
      BY PolicyAssumption
    <3> QED
      BY <1>0, <3>1 DEF CallState, PCs
  <2>2. call' = [call EXCEPT ![c] = s]
    BY <1>3 DEF Become
  <2> HIDE DEF s
  <2> QED
    BY <1>0, <1>3, <2>1, <2>2, AloneQuiet
<1>4. CASE Return(c) /\ UNCHANGED log
  BY <1>0, <1>4, AloneQuiet DEF Return, Become
<1> QED
  BY <1>1, <1>2, <1>3, <1>4

LEMMA ReadAlone ==
    ASSUME JustInv, JustInv', AloneInv, alone, failures' = 0, Busy' \subseteq {c1},
           NEW c \in Calls, ReadRow(c)
    PROVE  AloneInv'
<1> DEFINE i == call[c].intent
           kind == call[c].kind
           wait == call[c].wait
           e == [kind |-> kind, at |-> now, wait |-> wait]
           new == Marked(i, kind, wait, RowOf(i))
           s == [call[c] EXCEPT !.pc = "delete", !.new = new]
<1>1. /\ call[c] \in CallState /\ i \in Intents /\ kind \in Kinds \ {"success"} /\ wait \in Nat
      /\ (wait # 0 <=> kind = "rate_limited") /\ now \in Nat /\ log \in [Intents -> Seq(Answer)]
      /\ call[c].pc = "read" /\ UNCHANGED <<now, rows>>
  BY Local DEF ReadRow, JustInv, TypeOK, Answer, CallState
<1>2. /\ OpenAt(rows, i, now) /\ Tells(log[i], RowsFor(rows, i)) /\ \A r, q \in RowsFor(rows, i) : r = q
      /\ failures = 0
  BY <1>1, AloneFinds DEF Fits
<1>3. Answered(i, kind, wait) /\ (Become(c, s) \/ FailDb)
  BY DEF ReadRow
<1>4. Become(c, s)
  BY <1>2, <1>3 DEF FailDb
<1>5. new \in Row /\ new.intent = i
  <2>1. RowOf(i) \subseteq rows
    BY DEF RowOf
  <2> QED
    BY <1>1, <2>1, MarkedTyped DEF JustInv, Marked, NewRow
<1>6. Tells(Append(log[i], e), {new}) /\ (kind \in Retryable => new.until <= now + wait)
  <2>1. RowOf(i) = RowsFor(rows, i)
    BY DEF RowOf, RowsFor
  <2>2. Tells(log[i], RowOf(i))
    BY <1>2, <2>1
  <2> HIDE DEF i, kind, wait
  <2> QED
    BY <1>1, <2>2, MarkTells
<1> HIDE DEF new, e
<1>7. s \in CallState /\ s.pc = "delete" /\ s.new = new /\ s.intent = i /\ s.kind = kind /\ s.wait = wait
  BY <1>1, <1>5 DEF CallState, PCs
<1>8. call' = [call EXCEPT ![c] = s] /\ log' = [log EXCEPT ![i] = Append(@, e)]
  BY <1>3, <1>4 DEF Become, Answered, e
<1>9. call[c].intent = i
  OBVIOUS
<1> HIDE DEF s, i, kind, wait
<1>10. log'[i] = Append(log[i], e) /\ \A j \in Intents \ {i} : log'[j] = log[j]
  BY <1>1, <1>8
<1>11. Fits(s, rows', log', now')
  BY <1>1, <1>2, <1>5, <1>6, <1>7, <1>10 DEF Fits
<1> QED
  BY <1>1, <1>2, <1>7, <1>8, <1>9, <1>10, <1>11, AloneMoves

LEMMA DeleteAlone ==
    ASSUME JustInv, JustInv', AloneInv, alone, failures' = 0, Busy' \subseteq {c1},
           NEW c \in Calls, DeleteRow(c)
    PROVE  AloneInv'
<1> DEFINE i == call[c].intent
           s == [call[c] EXCEPT !.pc = "insert"]
<1>1. /\ call[c] \in CallState /\ i \in Intents /\ call[c].pc = "delete" /\ UNCHANGED <<now, log>>
      /\ failures = 0 /\ Fits(call[c], rows, log, now)
  BY Local, AloneFinds DEF DeleteRow
<1>2. rows' = rows \ RowOf(i) /\ call' = [call EXCEPT ![c] = s]
  BY <1>1 DEF DeleteRow, FailDb, Become
<1>3. /\ s \in CallState /\ s.pc = "insert" /\ s.new = call[c].new /\ s.intent = i /\ s.kind = call[c].kind
      /\ s.wait = call[c].wait
  BY <1>1 DEF CallState, PCs
<1>4. RowsFor(rows', i) = {} /\ \A j \in Intents \ {i} : RowsFor(rows', j) = RowsFor(rows, j)
  BY <1>2 DEF RowsFor, RowOf
<1>5. Fits(s, rows', log', now')
  BY <1>1, <1>3, <1>4 DEF Fits, OpenAt
<1>6. call[c].intent = i
  OBVIOUS
<1> HIDE DEF s, i
<1> QED
  BY <1>1, <1>2, <1>3, <1>4, <1>5, <1>6, AloneMoves

LEMMA InsertAlone ==
    ASSUME JustInv, JustInv', AloneInv, alone, failures' = 0, Busy' \subseteq {c1},
           NEW c \in Calls, InsertRow(c)
    PROVE  AloneInv'
<1> DEFINE i == call[c].intent
           new == call[c].new
<1>1. /\ call[c] \in CallState /\ i \in Intents /\ call[c].pc = "insert" /\ UNCHANGED <<now, log>>
      /\ failures = 0 /\ Fits(call[c], rows, log, now) /\ now \in Nat /\ new \in Row
      /\ Idle \in CallState /\ Idle.pc = "idle"
  BY Local, AloneFinds DEF InsertRow
<1>2. /\ RowsFor(rows, i) = {} /\ new.intent = i /\ Tells(log[i], {new})
      /\ call[c].kind \in Retryable => new.until <= now + call[c].wait
  BY <1>1 DEF Fits
<1>3. rows' = rows \cup {new}
  <2>1. RowOf(i) = {}
    BY <1>2 DEF RowOf, RowsFor
  <2> QED
    BY <1>1, <2>1 DEF InsertRow, FailDb
<1>4. RowsFor(rows', i) = {new} /\ \A j \in Intents \ {i} : RowsFor(rows', j) = RowsFor(rows, j)
  BY <1>2, <1>3 DEF RowsFor
<1>5. AfterMark(c) /\ call[c].intent = i
  BY DEF InsertRow
<1>6. CASE call' = [call EXCEPT ![c] = Idle]
  <2>1. Fits(Idle, rows', log', now')
    BY <1>1, IdleFits
  <2> HIDE DEF i, new
  <2> QED
    BY <1>1, <1>2, <1>4, <1>5, <1>6, <2>1, AloneMoves
<1>7. CASE call[c].kind \in Retryable /\ call' = [call EXCEPT ![c] = [call[c] EXCEPT !.pc = "sleep", !.wake = now + call[c].wait]]
  <2> DEFINE s == [call[c] EXCEPT !.pc = "sleep", !.wake = now + call[c].wait]
  <2>0. now + call[c].wait \in Nat
    BY <1>1 DEF CallState
  <2>1. s \in CallState /\ s.pc = "sleep" /\ s.intent = i /\ s.wake = now + call[c].wait
    BY <1>1, <2>0 DEF CallState, PCs
  <2>2. call' = [call EXCEPT ![c] = s]
    BY <1>7
  <2> HIDE DEF s, i, new
  <2>3. Fits(s, rows', log', now')
    BY <1>2, <1>4, <1>7, <2>1 DEF Fits, OpenAt
  <2> QED
    BY <1>1, <1>2, <1>4, <1>5, <2>1, <2>2, <2>3, AloneMoves
<1> QED
  BY <1>5, <1>6, <1>7 DEF AfterMark, Become, Return

\* Time opens what it does not close.
LEMMA TickAlone == ASSUME JustInv, AloneInv, Tick PROVE alone /\ alone' = alone => AloneInv'
<1> SUFFICES ASSUME alone, alone' = alone PROVE AloneInv'
  OBVIOUS
<1>1. now \in Nat /\ now' = now + 1 /\ rows \subseteq Row
      /\ rows' = rows /\ call' = call /\ log' = log /\ failures' = failures
  BY DEF JustInv, TypeOK, Tick
<1>2. ASSUME NEW c \in Calls PROVE Fits(call[c], rows, log, now + 1)
  <2>1. Fits(call[c], rows, log, now) /\ call[c] \in CallState
    BY AloneFinds, Local
  <2>2. OpenAt(rows, call[c].intent, now) => OpenAt(rows, call[c].intent, now + 1)
    <3> SUFFICES ASSUME NEW r \in rows, r.until <= now PROVE r.until <= now + 1
      BY DEF OpenAt, RowsFor
    <3>1. r.until \in Nat
      BY <1>1 DEF Row
    <3> QED
      BY <1>1, <3>1
  <2>3. call[c].new.until <= now + call[c].wait => call[c].new.until <= (now + 1) + call[c].wait
    <3>1. call[c].new.until \in Nat /\ call[c].wait \in Nat
      BY <2>1 DEF CallState, Row
    <3> QED
      BY <1>1, <3>1
  <2> QED
    BY <2>1, <2>2, <2>3 DEF Fits
<1> QED
  BY <1>1, <1>2 DEF AloneInv, Unwritten

LEMMA AloneStep == JustInv /\ JustInv' /\ AloneInv /\ [MCNext]_mcVars => AloneInv'
<1> SUFFICES ASSUME JustInv, JustInv', AloneInv, [MCNext]_mcVars PROVE AloneInv'
  OBVIOUS
<1>1. alone' = alone
  BY DEF MCNext, Within, mcVars
<1>2. CASE ~alone
  BY <1>1, <1>2 DEF AloneInv
<1>3. CASE UNCHANGED mcVars
  BY <1>3 DEF mcVars, vars, AloneInv, Unwritten
<1>4. CASE alone /\ MCNext
  <2>1. alone /\ failures' = 0 /\ Busy' \subseteq {c1} /\ Next
    BY <1>4 DEF MCNext, Within
  <2>2. ASSUME NEW c \in Calls, Step(c) PROVE AloneInv'
    BY <2>1, <2>2, CheckAlone, RunAlone, ReadAlone, DeleteAlone, InsertAlone DEF Step
  <2> QED
    BY <1>1, <2>1, <2>2, BeginAlone, TickAlone DEF Next
<1> QED
  BY <1>2, <1>3, <1>4

LEMMA AloneInvariant == MCSpec => [](JustInv /\ AloneInv)
<1>1. MCInit => JustInv /\ AloneInv
  <2> SUFFICES ASSUME MCInit PROVE JustInv /\ AloneInv
    OBVIOUS
  <2>1. Init /\ JustInv
    BY JustInit DEF MCInit
  <2>2. rows = {} /\ failures = 0 /\ \A c \in Calls : call[c].pc = "idle"
    BY <2>1 DEF Init, Idle
  <2>3. \A i \in Intents : log[i] = <<>>
    BY <2>1 DEF Init
  <2>4. Tells(<<>>, {})
    <3>1. Terminals(<<>>, Len(<<>>)) = {} /\ Len(<<>>) = 0
      BY DEF Terminals
    <3>2. TerminalOf({}) = 0
      BY DEF TerminalOf
    <3> QED
      BY <3>1, <3>2, FS_EmptySet DEF Tells
  <2>5. \A i \in Intents : Tells(log[i], RowsFor(rows, i))
    <3>1. \A i \in Intents : RowsFor(rows, i) = {}
      BY <2>2 DEF RowsFor
    <3> QED
      BY <2>3, <2>4, <3>1
  <2>6. \A c \in Calls : Fits(call[c], rows, log, now)
    BY <2>2, IdleFits
  <2> QED
    BY <2>1, <2>2, <2>5, <2>6 DEF AloneInv
<1>2. JustInv /\ AloneInv /\ [MCNext]_mcVars => (JustInv /\ AloneInv)'
  <2>1. [MCNext]_mcVars => [Next]_vars
    BY DEF MCNext, mcVars
  <2> QED
    BY <2>1, JustStep, AloneStep
<1> QED
  BY <1>1, <1>2, PTL DEF MCSpec

\* The window of an intent is closed to no attempt, and tells every failure.
LEMMA RowsAreDue ==
    ASSUME JustInv, AloneInv, alone
    PROVE  /\ RepeatedFailureBlocks /\ NoAttemptInCooldown
<1>1. RepeatedFailureBlocks
  <2> SUFFICES ASSUME NEW i \in Intents, NEW n, n = Len(log[i]),
                      \A c \in Calls : call[c].intent = i => call[c].pc \in {"idle", "check"},
                      n > 0, n \in {m \in 1..n : log[i][m].kind = "terminal"},
                      Cardinality({m \in 1..n : log[i][m].kind = "terminal"}) >= Threshold
               PROVE  \E r \in rows : r.intent = i /\ r.until >= log[i][n].at + Cooldown
    BY DEF RepeatedFailureBlocks
  <2>1. ~Unwritten(i)
    BY DEF Unwritten
  <2>2. Tells(log[i], RowsFor(rows, i))
    BY <2>1 DEF AloneInv
  <2> QED
    BY <2>2 DEF Tells, RowsFor, Terminals
<1>2. NoAttemptInCooldown
  <2> SUFFICES ASSUME NEW c \in Calls, call[c].pc = "run", NEW r \in rows, r.intent = call[c].intent,
                      r.until > now
               PROVE  FALSE
    BY DEF NoAttemptInCooldown, Blocked, RowOf
  <2>1. r.until <= now
    BY AloneFinds DEF Fits, OpenAt, RowsFor
  <2>2. r.until \in Nat /\ now \in Nat
    BY DEF JustInv, TypeOK, Row
  <2> QED
    BY <2>1, <2>2
<1> QED
  BY <1>1, <1>2

\* One request at a time with a table that can be written, repeated terminal
\* failures close the capability for a whole cooldown, and no attempt, first or
\* repeated, is made in one, for any threshold, cooldown and number of attempts
\* (executeWithPolicy, markFailure, isBlocked).
THEOREM CooldownsHold == MCSpec => []CooldownHolds
<1>1. JustInv /\ AloneInv => CooldownHolds
  BY RowsAreDue DEF CooldownHolds
<1> QED
  BY <1>1, AloneInvariant, PTL

\* And a cooldown in force is neither shortened nor forgotten before its end
\* (markFailure deletes the row and inserts another).
THEOREM CooldownsAreKept == MCSpec => CooldownKept
<1> DEFINE Kept == alone => \A r \in rows : r.until > now' =>
                       \E s \in rows' : s.intent = r.intent /\ s.until >= r.until
<1>1. JustInv /\ AloneInv /\ [MCNext]_mcVars => Kept
  <2> SUFFICES ASSUME JustInv, AloneInv, MCNext \/ UNCHANGED mcVars, alone, NEW r \in rows, r.until > now'
               PROVE  \E s \in rows' : s.intent = r.intent /\ s.until >= r.until
    OBVIOUS
  <2>1. r.until \in Nat /\ r.until >= r.until /\ r \in Row /\ now \in Nat
    BY DEF JustInv, TypeOK, Row
  <2>2. SUFFICES r \in rows'
    BY <2>1
  <2>3. ASSUME NEW c \in Calls, DeleteRow(c) PROVE r \in rows'
    <3>1. call[c].pc = "delete" /\ now' = now /\ rows \ RowOf(call[c].intent) \subseteq rows'
      BY <2>3 DEF DeleteRow
    <3>2. OpenAt(rows, call[c].intent, now)
      BY <3>1, AloneFinds DEF Fits
    <3>3. r \notin RowOf(call[c].intent)
      <4> SUFFICES ASSUME r.intent = call[c].intent PROVE FALSE
        BY DEF RowOf
      <4>1. r.until <= now
        BY <3>2 DEF OpenAt, RowsFor
      <4> QED
        BY <2>1, <3>1, <4>1
    <3> QED
      BY <3>1, <3>3
  <2>4. ASSUME NEW c \in Calls, InsertRow(c) PROVE r \in rows'
    BY <2>4 DEF InsertRow
  <2>5. CASE UNCHANGED rows
    BY <2>5
  <2>6. ASSUME NEW c \in Calls, Step(c) PROVE UNCHANGED rows \/ DeleteRow(c) \/ InsertRow(c)
    BY <2>6 DEF Step, Check, Plan, Run, ReadRow, Wake
  <2>7. (\E c \in Calls, i \in Intents : Begin(c, i)) \/ Tick \/ UNCHANGED mcVars => UNCHANGED rows
    BY DEF Begin, Tick, mcVars, vars
  <2> QED
    BY <2>3, <2>4, <2>5, <2>6, <2>7 DEF MCNext, Next
<1> QED
  BY <1>1, AloneInvariant, PTL DEF MCSpec, CooldownKept
=============================================================================
