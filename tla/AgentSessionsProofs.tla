------------------------ MODULE AgentSessionsProofs ------------------------
(***************************************************************************)
(* The properties of AgentSessions for every set of agents, every lifetime *)
(* of codes and tokens and every number of crashes and refused writes.     *)
(***************************************************************************)
EXTENDS AgentSessions, TLAPS

(***************************************************************************)
(* The inductive invariant.  PairingInv ties the current code to what the  *)
(* agents did with it.  AgentInv follows one agent: what its progress says *)
(* of its session, token and row, and why a revoked token cannot come      *)
(* back: its row is gone, or it is stale and was restored without a ttl.   *)
(***************************************************************************)
PairingInv ==
  /\ wrongs[pairing.code] = pairing.failed
  /\ \A c \in 1..MaxCodes : c > pairing.code => wrongs[c] = 0
  /\ \A a \in Agents : codeOf[a] <= pairing.code
  /\ \A a \in Agents : codeOf[a] = pairing.code => pairing.used
  /\ ~pairing.used => pairing.failed < MaxPairingAttempts

Early == {"idle", "paired", "stored"}

AgentInv(a) ==
  /\ pc[a] = "idle" => codeOf[a] = 0
  /\ pc[a] \in {"stored", "issued", "open"} => a \in started
  /\ pc[a] \in Early => tokens[a] = None /\ rows[a] = None /\ a \notin revoked
  /\ pc[a] = "issued" => issued[a] \in Nat /\ issued[a] <= active[a] + TokenTTL
  /\ tokens[a] # None => a \in started
  /\ ttl[a] \in {0, TokenTTL}
  /\ rows[a] # None => a \in started
  /\ active[a] <= now
  /\ up /\ a \notin stale /\ pc[a] # "issued" => rows[a] = tokens[a]
  /\ ~up => tokens[a] = None /\ pc[a] \notin {"paired", "stored", "issued"}
  /\ a \in revoked \ stale => tokens[a] = None /\ rows[a] = None
  /\ a \in revoked => ttl[a] = 0
  /\ a \in revoked /\ pc[a] = "issued" => tokens[a] = None
  /\ tokens[a] <= active[a] + TokenTTL
  /\ rows[a] <= active[a] + TokenTTL

CodesInv == PairingInv /\ CodeOpensOne /\ GuessesBounded

SessionsInv ==
  /\ TypeOK
  /\ CodesInv
  /\ \A a \in Agents : AgentInv(a)

-----------------------------------------------------------------------------
\* The initial state satisfies it.
LEMMA InitInv == Init => SessionsInv
BY ConstantsAssumption DEF Init, SessionsInv, CodesInv, TypeOK, PairingInv, CodeOpensOne,
   ConstantsAssumption, PairingRecord,
   GuessesBounded, AgentInv, None, Early, Progress

\* The sink keeps the table well typed, whether the write is refused or not.
LEMMA WriteRowType ==
  ASSUME TypeOK, NEW a \in Agents, NEW e \in Nat \cup {None}, WriteRow(a, e)
  PROVE  /\ rows' \in [Agents -> Nat \cup {None}]
         /\ stale' \in SUBSET Agents
         /\ faults' \in Nat
<1>1. rows \in [Agents -> Nat \cup {None}] /\ stale \in SUBSET Agents /\ faults \in Nat
  BY DEF TypeOK
<1>2. QED
  BY <1>1 DEF WriteRow

\* Using up a code, or counting a wrong guess, keeps a well-typed code.
LEMMA PairingUpdate ==
  ASSUME NEW p \in PairingRecord, NEW u \in BOOLEAN, NEW f \in Nat
  PROVE  /\ [p EXCEPT !.failed = f, !.used = u] \in PairingRecord
         /\ [p EXCEPT !.used = u] \in PairingRecord
BY DEF PairingRecord

\* A new code is well typed while the bound on codes allows one.
LEMMA NewCodeType ==
  ASSUME TypeOK, pairing.code < MaxCodes
  PROVE  /\ NewCode(pairing.code + 1) \in PairingRecord
         /\ NewCode(pairing.code + 1).code = pairing.code + 1
<1>1. pairing.code + 1 \in 1..MaxCodes /\ now + CodeTTL \in Nat
  BY ConstantsAssumption DEF TypeOK, PairingRecord, ConstantsAssumption
<1>2. QED
  BY <1>1 DEF NewCode, PairingRecord

\* A wrong guess keeps the types.
LEMMA WrongCodeType ==
  ASSUME TypeOK, NEW a \in Agents, WrongCode(a)
  PROVE  pairing' \in PairingRecord /\ wrongs' \in [1..MaxCodes -> Nat]
<1>1. /\ pairing.failed + 1 \in Nat
      /\ pairing.used \in BOOLEAN
      /\ pairing.code \in 1..MaxCodes
      /\ pairing \in PairingRecord
  BY DEF TypeOK, PairingRecord
<1>2. (IF pairing.failed + 1 >= MaxPairingAttempts THEN TRUE ELSE pairing.used) \in BOOLEAN
  BY <1>1
<1>3. pairing' \in PairingRecord
  BY <1>1, <1>2, PairingUpdate DEF WrongCode
<1>4. wrongs \in [1..MaxCodes -> Nat]
  BY DEF TypeOK
<1>5. wrongs' \in [1..MaxCodes -> Nat]
  BY <1>1, <1>4 DEF WrongCode
<1>6. QED
  BY <1>3, <1>5

\* Every step keeps the types.
LEMMA TypeStep == TypeOK /\ [Next]_vars => TypeOK'
<1> SUFFICES ASSUME TypeOK, [Next]_vars PROVE TypeOK'
  OBVIOUS
<1>0. Deadline(now) \in Nat
  BY ConstantsAssumption DEF ConstantsAssumption, Deadline, Never, TypeOK
<1> USE DEF codeVars, tokenVars, serverVars, sessionVars
<1>1. ASSUME NEW a \in Agents, WrongCode(a) PROVE TypeOK'
  BY <1>1, WrongCodeType DEF WrongCode, TypeOK
<1>2. ASSUME NEW a \in Agents, Consume(a) PROVE TypeOK'
  <2>0. pairing \in PairingRecord /\ pairing.code \in Nat
    BY DEF TypeOK, PairingRecord
  <2>1. pairing' \in PairingRecord
    BY <1>2, <2>0, PairingUpdate DEF Consume
  <2>2. pc' \in [Agents -> Progress] /\ codeOf' \in [Agents -> Nat]
    BY <1>2, <2>0 DEF Consume, TypeOK, Progress
  <2>3. QED
    BY <1>2, <2>1, <2>2 DEF Consume, TypeOK
<1>3. ASSUME NEW a \in Agents, InsertSession(a) PROVE TypeOK'
  <2>1. pc' \in [Agents -> Progress]
    BY <1>3 DEF InsertSession, TypeOK, Progress
  <2>2. started' \in SUBSET Agents
    BY <1>3 DEF InsertSession, TypeOK
  <2>3. faults' \in Nat
    BY <1>3 DEF InsertSession, TypeOK
  <2>4. QED
    BY <1>3, <2>1, <2>2, <2>3 DEF InsertSession, TypeOK
<1>4. ASSUME NEW a \in Agents, IssueToken(a) PROVE TypeOK'
  <2>1. pc' \in [Agents -> Progress]
    BY <1>4 DEF IssueToken, TypeOK, Progress
  <2>2. TokenTTL \in Nat
    BY ConstantsAssumption DEF ConstantsAssumption
  <2>3. QED
    BY <1>0, <1>4, <2>1, <2>2 DEF IssueToken, TypeOK
<1>5. ASSUME NEW a \in Agents, IssueRow(a) PROVE TypeOK'
  <2>1. pc' \in [Agents -> Progress]
    BY <1>5 DEF IssueRow, TypeOK, Progress
  <2>2. rows' \in [Agents -> Nat \cup {None}]
    BY <1>5 DEF IssueRow, TypeOK
  <2>3. stale' \in SUBSET Agents
    BY <1>5 DEF IssueRow, TypeOK
  <2>4. faults' \in Nat
    BY <1>5 DEF IssueRow, TypeOK
  <2>5. QED
    BY <1>5, <2>1, <2>2, <2>3, <2>4 DEF IssueRow, TypeOK
<1>6. ASSUME NEW a \in Agents, VerifyExpired(a) PROVE TypeOK'
  BY <1>6, WriteRowType DEF VerifyExpired, TypeOK
<1>7. ASSUME NEW a \in Agents, VerifySlides(a) PROVE TypeOK'
  <2>1. now \in Nat /\ now + ttl[a] \in Nat
    BY DEF TypeOK
  <2>2. tokens' \in [Agents -> Nat \cup {None}] /\ active' \in [Agents -> Nat]
    BY <1>7, <2>1 DEF VerifySlides, TypeOK
  <2>3. QED
    BY <1>7, <2>1, <2>2, WriteRowType DEF VerifySlides, TypeOK
<1>8. ASSUME NEW a \in Agents, RevokeSession(a) PROVE TypeOK'
  <2>1. CASE tokens[a] # None
    <3>1. /\ rows' \in [Agents -> Nat \cup {None}]
          /\ stale' \in SUBSET Agents
          /\ faults' \in Nat
      BY <1>8, <2>1, WriteRowType DEF RevokeSession
    <3>2. tokens' = [tokens EXCEPT ![a] = None] /\ ttl' = [ttl EXCEPT ![a] = 0]
      BY <1>8, <2>1 DEF RevokeSession
    <3>3. revoked' = revoked \cup {a} /\ ending' = ending \cup {a}
      BY <1>8, <2>1 DEF RevokeSession
    <3>4. UNCHANGED <<now, up, crashes, pairing, codeOf, wrongs, pc, issued, active,
                      started, ended>>
      BY <1>8 DEF RevokeSession
    <3>5. QED
      BY <3>1, <3>2, <3>3, <3>4 DEF TypeOK
  <2>2. CASE tokens[a] = None
    BY <1>8, <2>2 DEF RevokeSession, TypeOK
  <2>3. QED
    BY <2>1, <2>2
<1>9. ASSUME NEW a \in Agents, EndSession(a) PROVE TypeOK'
  BY <1>9 DEF EndSession, TypeOK
<1>10. ASSUME NEW a \in Agents, ExtendSession(a) PROVE TypeOK'
  <2>1. /\ rows' \in [Agents -> Nat \cup {None}]
        /\ stale' \in SUBSET Agents
        /\ faults' \in Nat
    BY <1>0, <1>10, WriteRowType DEF ExtendSession
  <2>2. TokenTTL \in Nat
    BY ConstantsAssumption DEF ConstantsAssumption
  <2>3. /\ tokens' \in [Agents -> Nat \cup {None}]
        /\ ttl' \in [Agents -> Nat]
        /\ active' \in [Agents -> Nat]
    BY <1>0, <1>10, <2>2 DEF ExtendSession, TypeOK
  <2>4. QED
    BY <1>10, <2>1, <2>3 DEF ExtendSession, TypeOK
<1>11. CASE Regenerate
  BY <1>11, NewCodeType DEF Regenerate, TypeOK
<1>12. CASE Crash
  <2>1. pc' \in [Agents -> Progress]
    BY <1>12 DEF Crash, TypeOK, Progress
  <2>2. tokens' \in [Agents -> Nat \cup {None}] /\ ttl' \in [Agents -> Nat]
    BY <1>12 DEF Crash
  <2>3. up' = FALSE /\ crashes' = crashes + 1 /\ ending' = {}
    BY <1>12 DEF Crash
  <2>4. UNCHANGED <<now, pairing, codeOf, wrongs, issued, rows, active, revoked, stale,
                    started, ended, faults>>
    BY <1>12 DEF Crash
  <2>5. crashes' \in Nat
    BY <2>3 DEF TypeOK
  <2>6. QED
    BY <2>1, <2>2, <2>3, <2>4, <2>5 DEF TypeOK
<1>13. CASE Restart
  BY <1>13, NewCodeType DEF Restart, TypeOK
<1>14. CASE Tick
  <2>1. now' \in 1 .. MaxTime + 1
    BY <1>14, ConstantsAssumption DEF Tick, TypeOK, ConstantsAssumption
  <2>2. QED
    BY <1>14, <2>1 DEF Tick, TypeOK
<1>15. CASE UNCHANGED vars
  BY <1>15 DEF vars, TypeOK
<1>16. QED
  BY <1>1, <1>2, <1>3, <1>4, <1>5, <1>6, <1>7, <1>8, <1>9, <1>10, <1>11, <1>12,
     <1>13, <1>14, <1>15 DEF Next, AgentStep, PhoneStep

\* Every reachable state is well typed.
THEOREM TypeCorrect == Spec => []TypeOK
<1>1. Init => TypeOK
  BY InitInv DEF SessionsInv
<1>2. QED
  BY <1>1, TypeStep, PTL DEF Spec

-----------------------------------------------------------------------------
(***************************************************************************)
(* The codes.                                                              *)
(***************************************************************************)
\* Codes, guesses and pairings are all that CodesInv speaks of.
LEMMA CodesFrame == CodesInv /\ UNCHANGED codeVars => CodesInv'
BY DEF CodesInv, PairingInv, CodeOpensOne, GuessesBounded, codeVars

\* A wrong guess uses the current code up before it exceeds the bound.
LEMMA CodesWrong ==
  ASSUME TypeOK, CodesInv, NEW a \in Agents, WrongCode(a)
  PROVE  CodesInv'
<1>1. /\ pairing.code \in 1..MaxCodes
      /\ pairing.failed \in Nat
      /\ wrongs \in [1..MaxCodes -> Nat]
      /\ codeOf \in [Agents -> Nat]
      /\ MaxPairingAttempts \in Nat
      /\ MaxCodes \in Nat
  BY ConstantsAssumption DEF TypeOK, PairingRecord, ConstantsAssumption
<1>2. /\ pairing'.code = pairing.code
      /\ pairing'.failed = pairing.failed + 1
      /\ ~pairing.used
      /\ pairing.failed + 1 >= MaxPairingAttempts => pairing'.used
  BY DEF WrongCode, TypeOK, PairingRecord
<1>3. /\ wrongs' = [wrongs EXCEPT ![pairing.code] = @ + 1]
      /\ codeOf' = codeOf
  BY DEF WrongCode
<1>4. \A b \in Agents : codeOf[b] # pairing.code
  BY <1>2 DEF CodesInv, PairingInv
<1>5. PairingInv'
  BY <1>1, <1>2, <1>3, <1>4 DEF CodesInv, PairingInv
<1>6. CodeOpensOne'
  BY <1>3 DEF CodesInv, CodeOpensOne
<1>7. GuessesBounded'
  BY <1>1, <1>2, <1>3, <1>4 DEF CodesInv, PairingInv, GuessesBounded
<1>8. QED
  BY <1>5, <1>6, <1>7 DEF CodesInv

\* The code that an agent consumes was unused, so that nobody else has it.
LEMMA CodesConsume ==
  ASSUME TypeOK, CodesInv, NEW a \in Agents, Consume(a)
  PROVE  CodesInv'
<1>1. /\ pairing.code \in 1..MaxCodes
      /\ wrongs \in [1..MaxCodes -> Nat]
      /\ codeOf \in [Agents -> Nat]
      /\ pairing.failed < MaxPairingAttempts
  BY DEF TypeOK, PairingRecord, Consume, CodesInv, PairingInv
<1>2. /\ pairing'.code = pairing.code
      /\ pairing'.failed = pairing.failed
      /\ ~pairing.used
      /\ pairing'.used
  BY DEF Consume, TypeOK, PairingRecord
<1>3. /\ wrongs' = wrongs
      /\ codeOf' = [codeOf EXCEPT ![a] = pairing.code]
  BY DEF Consume
<1>4. \A b \in Agents : codeOf[b] # pairing.code
  BY <1>2 DEF CodesInv, PairingInv
<1>5. PairingInv'
  BY <1>1, <1>2, <1>3, <1>4 DEF CodesInv, PairingInv
<1>6. CodeOpensOne'
  BY <1>1, <1>3, <1>4 DEF CodesInv, CodeOpensOne
<1>7. wrongs[pairing.code] # MaxPairingAttempts
  BY <1>1 DEF CodesInv, PairingInv, TypeOK, PairingRecord
<1>8. GuessesBounded'
  BY <1>1, <1>3, <1>4, <1>7 DEF CodesInv, GuessesBounded
<1>9. QED
  BY <1>5, <1>6, <1>8 DEF CodesInv

\* A new code has a number that no agent, and no guess, was made with.
LEMMA CodesRenew ==
  ASSUME TypeOK, CodesInv, pairing.code < MaxCodes, pairing' = NewCode(pairing.code + 1),
         UNCHANGED <<codeOf, wrongs>>
  PROVE  CodesInv'
<1>1. /\ pairing.code \in 1..MaxCodes
      /\ codeOf \in [Agents -> Nat]
      /\ MaxPairingAttempts \in Nat \ {0}
      /\ MaxCodes \in Nat
  BY ConstantsAssumption DEF TypeOK, PairingRecord, ConstantsAssumption
<1>2. /\ pairing'.code = pairing.code + 1
      /\ pairing'.failed = 0
      /\ ~pairing'.used
  BY DEF NewCode
<1>3. PairingInv'
  BY <1>1, <1>2 DEF CodesInv, PairingInv
<1>4. CodeOpensOne' /\ GuessesBounded'
  BY DEF CodesInv, CodeOpensOne, GuessesBounded
<1>5. QED
  BY <1>3, <1>4 DEF CodesInv

-----------------------------------------------------------------------------
(***************************************************************************)
(* The agents.                                                             *)
(***************************************************************************)
\* What a step does not touch stays as the invariant has it.
LEMMA AgentFrame ==
  ASSUME TypeOK, NEW b \in Agents, AgentInv(b), up' = up, now' \in Nat, now <= now',
         codeOf'[b] = codeOf[b], pc'[b] = pc[b], issued'[b] = issued[b],
         tokens'[b] = tokens[b], ttl'[b] = ttl[b], rows'[b] = rows[b],
         active'[b] = active[b], b \in started => b \in started',
         b \in revoked' <=> b \in revoked, b \in stale' <=> b \in stale
  PROVE  AgentInv(b)'
<1>1. now \in Nat /\ active[b] \in Nat
  BY DEF TypeOK
<1>2. QED
  BY <1>1 DEF AgentInv

\* A written row holds what the sink was told; a refused write leaves it stale.
\* Rows and marks of other agents are not touched.
LEMMA WriteRowEffect ==
  ASSUME TypeOK, NEW a \in Agents, NEW e \in Nat \cup {None}, WriteRow(a, e)
  PROVE  /\ \/ rows'[a] = e /\ a \notin stale'
            \/ rows'[a] = rows[a] /\ a \in stale'
         /\ \A b \in Agents \ {a} : rows'[b] = rows[b] /\ (b \in stale' <=> b \in stale)
<1>1. rows \in [Agents -> Nat \cup {None}]
  BY DEF TypeOK
<1>2. QED
  BY <1>1 DEF WriteRow

\* The deadline of a token that is issued, used or extended now.
LEMMA DeadlineBound ==
  ASSUME TypeOK
  PROVE  /\ Deadline(now) \in Nat
         /\ Deadline(now) <= now + TokenTTL
         /\ TokenTTL \in Nat
         /\ now \in Nat
BY ConstantsAssumption DEF ConstantsAssumption, Deadline, Never, TypeOK

\* The open call.
LEMMA OpenStep ==
  ASSUME TypeOK, NEW a \in Agents, AgentInv(a),
         \/ WrongCode(a) \/ Consume(a) \/ InsertSession(a) \/ IssueToken(a) \/ IssueRow(a)
  PROVE  AgentInv(a)'
<1>1. CASE WrongCode(a)
  BY <1>1, AgentFrame, DeadlineBound DEF WrongCode, tokenVars, serverVars, sessionVars
<1>2. CASE Consume(a)
  BY <1>2 DEF Consume, AgentInv, Early, TypeOK, tokenVars, serverVars, sessionVars
<1>3. CASE InsertSession(a)
  BY <1>3 DEF InsertSession, AgentInv, Early, TypeOK, codeVars, tokenVars, serverVars
<1>4. CASE IssueToken(a)
  <2>1. /\ pc[a] = "stored" /\ pc'[a] = "issued"
        /\ tokens'[a] = Deadline(now)
        /\ issued'[a] = Deadline(now)
        /\ active'[a] = now
        /\ ttl'[a] = TokenTTL
        /\ UNCHANGED <<now, up, codeOf, rows, revoked, stale, started>>
        /\ up
    BY <1>4 DEF IssueToken, TypeOK, codeVars, serverVars, sessionVars
  <2>2. rows[a] = None /\ a \notin revoked /\ a \in started
    BY <2>1 DEF AgentInv, Early
  <2>3. QED
    BY <2>1, <2>2, DeadlineBound DEF AgentInv, Early, None
<1>5. CASE IssueRow(a)
  <2>1. /\ pc[a] = "issued" /\ pc'[a] = "open"
        /\ \/ rows'[a] = issued[a] /\ (a \in stale' <=> tokens[a] # issued[a])
           \/ rows'[a] = rows[a] /\ a \in stale'
        /\ UNCHANGED <<now, up, codeOf, tokens, ttl, active, revoked, started>>
        /\ up
    BY <1>5 DEF IssueRow, TypeOK, codeVars, serverVars, sessionVars
  <2>2. a \in started /\ issued[a] \in Nat /\ issued[a] <= active[a] + TokenTTL
    BY <2>1 DEF AgentInv
  <2>3. QED
    BY <2>1, <2>2 DEF AgentInv, Early, None
<1>6. QED
  BY <1>1, <1>2, <1>3, <1>4, <1>5

\* Verify, and what the phone does.
LEMMA TokenStep ==
  ASSUME TypeOK, NEW a \in Agents, AgentInv(a),
         \/ VerifyExpired(a) \/ VerifySlides(a)
         \/ RevokeSession(a) \/ EndSession(a) \/ ExtendSession(a)
  PROVE  AgentInv(a)'
<1>0. active[a] \in Nat /\ tokens[a] \in Nat \cup {None} /\ rows[a] \in Nat \cup {None}
  BY DEF TypeOK
<1> DEFINE Gone == /\ tokens'[a] = None /\ ttl'[a] = 0
                   /\ \/ rows'[a] = None /\ a \notin stale'
                      \/ rows'[a] = rows[a] /\ a \in stale'
                   /\ UNCHANGED <<now, up, codeOf, pc, issued, active, started>>
                   /\ up /\ tokens[a] # None
                   /\ a \in revoked \/ a \notin revoked' \/ pc[a] \notin Early
           Moved == /\ tokens'[a] \in Nat /\ tokens'[a] <= now + TokenTTL
                    /\ ttl'[a] = TokenTTL \/ (ttl'[a] = ttl[a] /\ revoked' = revoked)
                    /\ a \in revoked' => a \in revoked /\ ttl'[a] = ttl[a] /\ ttl[a] > 0
                    /\ active'[a] = now
                    /\ \/ rows'[a] = tokens'[a] /\ a \notin stale'
                       \/ rows'[a] = rows[a] /\ a \in stale'
                    /\ UNCHANGED <<now, up, codeOf, pc, issued, started>>
                    /\ up /\ tokens[a] # None
<1>1. Gone => AgentInv(a)'
  BY <1>0, DeadlineBound DEF AgentInv, Early, None
<1>2. Moved => AgentInv(a)'
  BY <1>0, DeadlineBound DEF AgentInv, Early, None
<1>3. CASE VerifyExpired(a)
  <2>1. \/ rows'[a] = None /\ a \notin stale'
        \/ rows'[a] = rows[a] /\ a \in stale'
    BY <1>3, WriteRowEffect DEF VerifyExpired
  <2>2. Gone
    BY <1>3, <2>1 DEF VerifyExpired, TypeOK, codeVars, serverVars, sessionVars
  <2>3. QED
    BY <1>1, <2>2
<1>4. CASE VerifySlides(a)
  <2>1. now + ttl[a] \in Nat /\ now + ttl[a] <= now + TokenTTL
    BY <1>4, DeadlineBound DEF AgentInv, TypeOK, VerifySlides
  <2>2. \/ rows'[a] = now + ttl[a] /\ a \notin stale'
        \/ rows'[a] = rows[a] /\ a \in stale'
    BY <1>4, <2>1, WriteRowEffect DEF VerifySlides
  <2>3. tokens'[a] = now + ttl[a] /\ active'[a] = now
    BY <1>4 DEF VerifySlides, TypeOK
  <2>4. Moved
    BY <1>4, <2>1, <2>2, <2>3 DEF VerifySlides, codeVars, serverVars, sessionVars
  <2>5. QED
    BY <1>2, <2>4
<1>5. CASE RevokeSession(a)
  <2>1. CASE tokens[a] # None
    <3>1. \/ rows'[a] = None /\ a \notin stale'
          \/ rows'[a] = rows[a] /\ a \in stale'
      BY <1>5, <2>1, WriteRowEffect DEF RevokeSession
    <3>2. tokens' = [tokens EXCEPT ![a] = None] /\ ttl' = [ttl EXCEPT ![a] = 0]
      BY <1>5, <2>1 DEF RevokeSession
    <3>3. UNCHANGED <<now, up, codeOf, pc, issued, active, started>> /\ up
      BY <1>5 DEF RevokeSession, codeVars, serverVars, sessionVars
    <3>4. pc[a] \notin Early
      BY <2>1 DEF AgentInv
    <3>5. tokens'[a] = None /\ ttl'[a] = 0
      BY <3>2 DEF TypeOK
    <3>6. Gone
      BY <2>1, <3>1, <3>3, <3>4, <3>5
    <3>7. QED
      BY <1>1, <3>6
  <2>2. CASE tokens[a] = None
    BY <1>5, <2>2, AgentFrame, DeadlineBound
       DEF RevokeSession, codeVars, serverVars, sessionVars
  <2>3. QED
    BY <2>1, <2>2
<1>6. CASE EndSession(a)
  BY <1>6, AgentFrame, DeadlineBound DEF EndSession, codeVars, tokenVars, serverVars
<1>7. CASE ExtendSession(a)
  <2>1. \/ rows'[a] = Deadline(now) /\ a \notin stale'
        \/ rows'[a] = rows[a] /\ a \in stale'
    BY <1>7, DeadlineBound, WriteRowEffect DEF ExtendSession
  <2>2. tokens'[a] = Deadline(now) /\ active'[a] = now /\ ttl'[a] = TokenTTL
    BY <1>7 DEF ExtendSession, TypeOK
  <2>3. Moved
    BY <1>7, <2>1, <2>2, DeadlineBound
       DEF ExtendSession, codeVars, serverVars, sessionVars
  <2>4. QED
    BY <1>2, <2>3
<1>8. QED
  BY <1>3, <1>4, <1>5, <1>6, <1>7

\* The server comes, goes, and the clock goes on.
LEMMA ServerStep ==
  ASSUME TypeOK, NEW a \in Agents, AgentInv(a), Regenerate \/ Crash \/ Restart \/ Tick
  PROVE  AgentInv(a)'
<1>1. CASE Regenerate
  BY <1>1, AgentFrame, DeadlineBound DEF Regenerate, tokenVars, serverVars, sessionVars
<1>2. CASE Crash
  <2>1. /\ pc'[a] = IF pc[a] \in {"paired", "stored", "issued"} THEN "failed" ELSE pc[a]
        /\ tokens'[a] = None /\ ttl'[a] = 0 /\ ~up'
        /\ UNCHANGED <<now, codeOf, issued, rows, active, revoked, stale, started>>
    BY <1>2 DEF Crash, TypeOK, codeVars, sessionVars
  <2>2. active[a] \in Nat
    BY DEF TypeOK
  <2>3. QED
    BY <2>1, <2>2, DeadlineBound DEF AgentInv, Early, None
<1>3. CASE Restart
  <2>1. /\ tokens'[a] = rows[a] /\ ttl'[a] = 0 /\ ~up /\ up'
        /\ UNCHANGED <<now, codeOf, pc, issued, rows, active, revoked, stale, started>>
    BY <1>3 DEF Restart, TypeOK, sessionVars
  <2>2. QED
    BY <2>1, DeadlineBound DEF AgentInv, Early, None
<1>4. CASE Tick
  <2>1. now' \in Nat /\ now <= now'
    BY <1>4 DEF Tick, TypeOK
  <2>2. QED
    BY <1>4, <2>1, AgentFrame DEF Tick, codeVars, tokenVars, serverVars, sessionVars
<1>5. QED
  BY <1>1, <1>2, <1>3, <1>4

\* A step of one agent, or of the phone for it, leaves the other agents alone.
LEMMA OtherAgents ==
  ASSUME TypeOK, NEW a \in Agents, NEW b \in Agents \ {a}, AgentInv(b),
         AgentStep(a) \/ PhoneStep(a)
  PROVE  AgentInv(b)'
<1> USE DeadlineBound DEF codeVars, tokenVars, serverVars, sessionVars
<1>1. CASE WrongCode(a)
  <2>1. UNCHANGED <<now, up, codeOf, pc, tokens, ttl, rows, active, revoked, stale,
                    issued, started>>
    BY <1>1 DEF WrongCode
  <2>2. QED
    BY <2>1, AgentFrame
<1>2. CASE Consume(a)
  <2>1. codeOf'[b] = codeOf[b] /\ pc'[b] = pc[b]
    BY <1>2 DEF Consume, TypeOK
  <2>2. UNCHANGED <<now, up, tokens, ttl, rows, active, revoked, stale, issued, started>>
    BY <1>2 DEF Consume
  <2>3. QED
    BY <2>1, <2>2, AgentFrame
<1>3. CASE InsertSession(a)
  <2>1. pc'[b] = pc[b] /\ (b \in started => b \in started')
    BY <1>3 DEF InsertSession, TypeOK
  <2>2. UNCHANGED <<now, up, codeOf, tokens, ttl, rows, active, revoked, stale, issued>>
    BY <1>3 DEF InsertSession
  <2>3. QED
    BY <2>1, <2>2, AgentFrame
<1>4. CASE IssueToken(a)
  <2>1. /\ tokens'[b] = tokens[b] /\ ttl'[b] = ttl[b] /\ issued'[b] = issued[b]
        /\ active'[b] = active[b] /\ pc'[b] = pc[b]
    BY <1>4 DEF IssueToken, TypeOK
  <2>2. UNCHANGED <<now, up, codeOf, rows, revoked, stale, started>>
    BY <1>4 DEF IssueToken
  <2>3. QED
    BY <2>1, <2>2, AgentFrame
<1>5. CASE IssueRow(a)
  <2>1. pc'[b] = pc[b] /\ rows'[b] = rows[b] /\ (b \in stale' <=> b \in stale)
    BY <1>5 DEF IssueRow, TypeOK
  <2>2. UNCHANGED <<now, up, codeOf, tokens, ttl, active, revoked, issued, started>>
    BY <1>5 DEF IssueRow
  <2>3. QED
    BY <2>1, <2>2, AgentFrame
<1>6. CASE VerifyExpired(a)
  <2>1. rows'[b] = rows[b] /\ (b \in stale' <=> b \in stale)
    BY <1>6, WriteRowEffect DEF VerifyExpired
  <2>2. tokens'[b] = tokens[b] /\ ttl'[b] = ttl[b]
    BY <1>6 DEF VerifyExpired, TypeOK
  <2>3. UNCHANGED <<now, up, codeOf, pc, issued, active, revoked, started>>
    BY <1>6 DEF VerifyExpired
  <2>4. QED
    BY <2>1, <2>2, <2>3, AgentFrame
<1>7. CASE VerifySlides(a)
  <2>1. now + ttl[a] \in Nat
    BY DEF TypeOK
  <2>2. rows'[b] = rows[b] /\ (b \in stale' <=> b \in stale)
    BY <1>7, <2>1, WriteRowEffect DEF VerifySlides
  <2>3. tokens'[b] = tokens[b] /\ active'[b] = active[b]
    BY <1>7 DEF VerifySlides, TypeOK
  <2>4. UNCHANGED <<now, up, codeOf, pc, issued, ttl, revoked, started>>
    BY <1>7 DEF VerifySlides
  <2>5. QED
    BY <2>2, <2>3, <2>4, AgentFrame
<1>8. CASE RevokeSession(a)
  <2>1. CASE tokens[a] # None
    <3>1. rows'[b] = rows[b] /\ (b \in stale' <=> b \in stale)
      BY <1>8, <2>1, WriteRowEffect DEF RevokeSession
    <3>2. /\ tokens' = [tokens EXCEPT ![a] = None]
          /\ ttl' = [ttl EXCEPT ![a] = 0]
          /\ revoked' = revoked \cup {a}
      BY <1>8, <2>1 DEF RevokeSession
    <3>3. UNCHANGED <<now, up, codeOf, pc, issued, active, started>>
      BY <1>8 DEF RevokeSession
    <3>4. tokens'[b] = tokens[b] /\ ttl'[b] = ttl[b]
      BY <3>2 DEF TypeOK
    <3>5. QED
      BY <3>1, <3>2, <3>3, <3>4, AgentFrame
  <2>2. CASE tokens[a] = None
    BY <1>8, <2>2, AgentFrame DEF RevokeSession
  <2>3. QED
    BY <2>1, <2>2
<1>9. CASE EndSession(a)
  BY <1>9, AgentFrame DEF EndSession
<1>10. CASE ExtendSession(a)
  <2>1. rows'[b] = rows[b] /\ (b \in stale' <=> b \in stale)
    BY <1>10, WriteRowEffect DEF ExtendSession
  <2>2. /\ tokens'[b] = tokens[b] /\ ttl'[b] = ttl[b] /\ active'[b] = active[b]
        /\ b \in revoked' <=> b \in revoked
    BY <1>10 DEF ExtendSession, TypeOK
  <2>3. UNCHANGED <<now, up, codeOf, pc, issued, started>>
    BY <1>10 DEF ExtendSession
  <2>4. QED
    BY <2>1, <2>2, <2>3, AgentFrame
<1>11. QED
  BY <1>1, <1>2, <1>3, <1>4, <1>5, <1>6, <1>7, <1>8, <1>9, <1>10
     DEF AgentStep, PhoneStep

-----------------------------------------------------------------------------
\* Only guesses, pairings and new codes touch the codes.
LEMMA CodesStep ==
  ASSUME TypeOK, CodesInv, Next
  PROVE  CodesInv'
<1>1. CASE \E a \in Agents : WrongCode(a)
  BY <1>1, CodesWrong
<1>2. CASE \E a \in Agents : Consume(a)
  BY <1>2, CodesConsume
<1>3. CASE Regenerate \/ Restart
  BY <1>3, CodesRenew DEF Regenerate, Restart
<1>4. ASSUME NEW a \in Agents, InsertSession(a) \/ IssueToken(a) \/ IssueRow(a)
  PROVE CodesInv'
  BY <1>4, CodesFrame DEF InsertSession, IssueToken, IssueRow
<1>5. ASSUME NEW a \in Agents, VerifyExpired(a) \/ VerifySlides(a) \/ PhoneStep(a)
  PROVE CodesInv'
  BY <1>5, CodesFrame
     DEF VerifyExpired, VerifySlides, PhoneStep, RevokeSession, EndSession, ExtendSession
<1>6. CASE Crash \/ Tick
  BY <1>6, CodesFrame DEF Crash, Tick
<1>7. QED
  BY <1>1, <1>2, <1>3, <1>4, <1>5, <1>6 DEF Next, AgentStep

\* The invariant is inductive.
LEMMA InvStep == SessionsInv /\ [Next]_vars => SessionsInv'
<1> SUFFICES ASSUME SessionsInv, [Next]_vars PROVE SessionsInv'
  OBVIOUS
<1> TypeOK /\ CodesInv /\ \A a \in Agents : AgentInv(a)
  BY DEF SessionsInv
<1>1. TypeOK'
  BY TypeStep
<1>2. CASE UNCHANGED vars
  <2>1. CodesInv'
    BY <1>2, CodesFrame DEF vars, codeVars
  <2>2. ASSUME NEW a \in Agents PROVE AgentInv(a)'
    BY <1>2, AgentFrame, DeadlineBound DEF vars
  <2>3. QED
    BY <1>1, <2>1, <2>2 DEF SessionsInv
<1>3. CASE Next
  <2>1. CodesInv'
    BY <1>3, CodesStep
  <2>2. ASSUME NEW a \in Agents, NEW b \in Agents, AgentStep(a) \/ PhoneStep(a)
        PROVE  AgentInv(b)'
    BY <2>2, OpenStep, TokenStep, OtherAgents DEF AgentStep, PhoneStep
  <2>3. ASSUME NEW b \in Agents, Regenerate \/ Crash \/ Restart \/ Tick
        PROVE  AgentInv(b)'
    BY <2>3, ServerStep
  <2>4. QED
    BY <1>1, <1>3, <2>1, <2>2, <2>3 DEF SessionsInv, Next
<1>4. QED
  BY <1>2, <1>3

\* The invariant that the properties below follow from.
THEOREM InvariantCorrect == Spec => []SessionsInv
BY InitInv, InvStep, PTL DEF Spec

\* A pairing code opens one session at most.
THEOREM CodesCorrect == Spec => []CodeOpensOne
<1>1. SessionsInv => CodeOpensOne
  BY DEF SessionsInv, CodesInv
<1>2. QED
  BY <1>1, InvariantCorrect, PTL

\* A pairing code survives a bounded number of wrong guesses, and one that was
\* burnt by them opens no session.
THEOREM GuessesCorrect == Spec => []GuessesBounded
<1>1. SessionsInv => GuessesBounded
  BY DEF SessionsInv, CodesInv
<1>2. QED
  BY <1>1, InvariantCorrect, PTL

\* Every token and every row belongs to a session of the audit table.
THEOREM TokensAudited == Spec => []TokensHaveSessions
<1>1. SessionsInv => TokensHaveSessions
  BY DEF SessionsInv, AgentInv, TokensHaveSessions
<1>2. QED
  BY <1>1, InvariantCorrect, PTL

\* The table mirrors the manager, so that a restart changes no deadline.
THEOREM MirrorCorrect == Spec => []RowsMirror
<1>1. SessionsInv => RowsMirror
  BY DEF SessionsInv, AgentInv, RowsMirror
<1>2. QED
  BY <1>1, InvariantCorrect, PTL

\* Restarts and refused writes never prolong an idle token.
THEOREM IdleExpires == Spec => []IdleTokensExpire
<1>1. SessionsInv => IdleTokensExpire
  BY DEF SessionsInv, AgentInv, IdleTokensExpire
<1>2. QED
  BY <1>1, InvariantCorrect, PTL

\* A revocation that reached the table holds through every restart.
THEOREM RevocationCorrect == Spec => []RevocationHolds
<1>1. ASSUME SessionsInv PROVE RevocationHolds
  <2>1. ASSUME NEW a \in revoked \ stale PROVE tokens[a] = None
    <3>1. a \in Agents
      BY <1>1 DEF SessionsInv, TypeOK
    <3>2. AgentInv(a)
      BY <1>1, <3>1 DEF SessionsInv
    <3>3. QED
      BY <3>2 DEF AgentInv
  <2>2. QED
    BY <2>1 DEF RevocationHolds
<1>2. QED
  BY <1>1, InvariantCorrect, PTL
=============================================================================
