------------------------ MODULE ApproverDevicesProofs ------------------------
(***************************************************************************)
(* Proofs about ApproverDevices, for any number of phones, generations,    *)
(* challenges, calls and tokens: types, single use of challenges, the life *)
(* of an enrolment token, and the silence of revoked devices.              *)
(***************************************************************************)
EXTENDS ApproverDevices, TLAPS

LaterSteps == {"arrived", "valid", "proved", "stored", "verified", "authorised"}

Busy(c) == calls[c].step # "idle"

RowType == [key : Generations \cup {NoKey}, poll : Modern \cup {NoKey}, enabled : BOOLEAN]

-----------------------------------------------------------------------------
(***************************************************************************)
(* What happens to the calls.                                              *)
(***************************************************************************)
LEMMA CallFields ==
  ASSUME calls \in [Calls -> CallType], NEW c \in Calls, Busy(c)
  PROVE  /\ calls[c].step \in LaterSteps /\ calls[c].kind \in Kinds
         /\ calls[c].device \in Devices /\ calls[c].key \in Generations
         /\ calls[c].challenge \in Challenges /\ calls[c].token \in 0..MaxTokens
         /\ calls[c].dead \in BOOLEAN
BY DEF CallType, Busy, LaterSteps

\* A call that goes on changes its step and nothing else.
LEMMA MoveEffect ==
  ASSUME calls \in [Calls -> CallType], NEW c \in Calls, Busy(c),
         NEW s \in LaterSteps, Move(c, s)
  PROVE  /\ calls' \in [Calls -> CallType]
         /\ calls'[c].step = s /\ calls'[c].kind = calls[c].kind
         /\ calls'[c].device = calls[c].device /\ calls'[c].key = calls[c].key
         /\ calls'[c].challenge = calls[c].challenge
         /\ calls'[c].token = calls[c].token /\ calls'[c].dead = calls[c].dead
         /\ \A o \in Calls : o # c => calls'[o] = calls[o]
BY DEF Move, Busy, CallType, LaterSteps

LEMMA FinishEffect ==
  ASSUME calls \in [Calls -> CallType], NEW c \in Calls, Finish(c)
  PROVE  /\ calls' \in [Calls -> CallType]
         /\ calls'[c].step = "idle"
         /\ \A o \in Calls : o # c => calls'[o] = calls[o]
BY DEF Finish, Idle, CallType

\* A device that is enrolled or enabled forgives calls that were too late.
LEMMA ReviveEffect ==
  ASSUME NEW cs \in [Calls -> CallType], NEW d \in Devices, NEW row \in RowType
  PROVE  /\ Revive(cs, d, row) \in [Calls -> CallType]
         /\ \A o \in Calls :
              LET r == Revive(cs, d, row)[o] IN
              /\ r.step = cs[o].step
              /\ cs[o].step # "idle" =>
                   /\ r.kind = cs[o].kind /\ r.device = cs[o].device
                   /\ r.key = cs[o].key /\ r.challenge = cs[o].challenge
                   /\ r.token = cs[o].token
                   /\ cs[o].kind = "pair" \/ cs[o].device # d => r.dead = cs[o].dead
                   /\ cs[o].kind # "pair" /\ cs[o].device = d /\ r.dead =>
                        cs[o].dead /\ ~Entitled(row, cs[o].kind, cs[o].key)
<1> DEFINE Forgiven(c) ==
             [cs[c] EXCEPT !.dead = @ /\ ~Entitled(row, cs[c].kind, cs[c].key)]
<1>1. ASSUME NEW c \in Calls, cs[c].step # "idle"
      PROVE  /\ Forgiven(c) \in CallType
             /\ Forgiven(c).step = cs[c].step /\ Forgiven(c).kind = cs[c].kind
             /\ Forgiven(c).device = cs[c].device /\ Forgiven(c).key = cs[c].key
             /\ Forgiven(c).challenge = cs[c].challenge /\ Forgiven(c).token = cs[c].token
             /\ Forgiven(c).dead = (cs[c].dead /\ ~Entitled(row, cs[c].kind, cs[c].key))
  <2>1. cs[c].dead \in BOOLEAN
    BY <1>1 DEF CallType
  <2>2. (cs[c].dead /\ ~Entitled(row, cs[c].kind, cs[c].key)) \in BOOLEAN
    OBVIOUS
  <2> HIDE DEF Entitled
  <2> QED
    BY <1>1, <2>2 DEF CallType
<1>2. Revive(cs, d, row) =
        [c \in Calls |->
          IF cs[c].step = "idle" \/ cs[c].kind = "pair" \/ cs[c].device # d
          THEN cs[c] ELSE Forgiven(c)]
  BY DEF Revive
<1> HIDE DEF Forgiven
<1>3. Revive(cs, d, row) \in [Calls -> CallType]
  BY <1>1, <1>2
<1> QED
  BY <1>1, <1>2, <1>3

-----------------------------------------------------------------------------
(***************************************************************************)
(* Types.                                                                  *)
(***************************************************************************)
\* A call presents a token that was minted.
Presented == \A c \in Calls : Pairing(c) => calls[c].token \in 1..minted

LEMMA NewTokenTypes ==
  ASSUME TypeOK, NewToken
  PROVE  /\ minted' \in 0..MaxTokens /\ token' \in 0..minted' /\ unexpired' \in BOOLEAN
         /\ due' \in 0..minted' /\ retired' \in SUBSET (0..minted')
BY ConstantsAssumption DEF TypeOK, NewToken

LEMMA ConsumeTypes ==
  ASSUME TypeOK, NEW c \in Calls, Busy(c), NEW s \in LaterSteps, Consume(c, s)
  PROVE  /\ calls' \in [Calls -> CallType]
         /\ challenge' \in [Challenges -> {"new", "live", "expired", "gone"}]
         /\ spent' \in [Challenges -> Nat]
<1>1. calls[c].challenge \in Challenges
  BY CallFields DEF TypeOK
<1>2. calls' \in [Calls -> CallType]
  BY MoveEffect, FinishEffect DEF Consume, TypeOK
<1> QED
  BY <1>1, <1>2 DEF Consume, TypeOK

LEMMA TokenTypes ==
  ASSUME TypeOK, Mint \/ Announce \/ ExpireToken \/ Restart \/ UNCHANGED vars
  PROVE  TypeOK'
<1>1. CASE Mint
  BY <1>1, NewTokenTypes DEF Mint, TypeOK
<1>2. CASE Announce
  BY <1>2, NewTokenTypes DEF Announce, TypeOK
<1>3. CASE ExpireToken
  <2>1. 0 \in 0..minted /\ retired' \in SUBSET (0..minted)
    BY <1>3, ConstantsAssumption DEF ExpireToken, TypeOK
  <2> QED
    BY <1>3, <2>1 DEF ExpireToken, TypeOK
<1>4. CASE Restart
  <2>1. Idle \in CallType
    BY DEF Idle, CallType
  <2> QED
    <3>1. 0 \in 0..minted /\ retired' \in SUBSET (0..minted)
      BY <1>4, ConstantsAssumption DEF Restart, TypeOK
    <3>2. challenge' \in [Challenges -> {"new", "live", "expired", "gone"}]
      BY <1>4 DEF Restart
    <3>3. calls' \in [Calls -> CallType]
      BY <1>4, <2>1 DEF Restart
    <3> QED
      BY <1>4, <3>1, <3>2, <3>3 DEF Restart, TypeOK
<1>5. CASE UNCHANGED vars
  BY <1>5 DEF vars, memory, TypeOK
<1> QED
  BY <1>1, <1>2, <1>3, <1>4, <1>5

LEMMA ChallengeTypes ==
  ASSUME TypeOK, NEW h \in Challenges, Challenge(h) \/ ExpireChallenge(h)
  PROVE  TypeOK'
BY DEF Challenge, ExpireChallenge, TypeOK, memory

LEMMA ArriveTypes ==
  ASSUME TypeOK, NEW c \in Calls, NEW kind \in Kinds, NEW d \in Devices,
         NEW g \in Generations, NEW h \in Challenges, NEW t \in 0..MaxTokens,
         Arrive(c, kind, d, g, h, t)
  PROVE  TypeOK'
<1>1. PICK dead \in BOOLEAN :
        calls' = [calls EXCEPT ![c] =
          [step |-> "arrived", kind |-> kind, device |-> d, key |-> g,
           challenge |-> h, token |-> t, dead |-> dead]]
  <2>1. CASE kind = "pair"
    <3>1. (t \in retired) \in BOOLEAN
      OBVIOUS
    <3> QED
      BY <2>1, <3>1 DEF Arrive
  <2>2. CASE kind # "pair"
    <3>1. (~Entitled(registry[d], kind, g)) \in BOOLEAN
      OBVIOUS
    <3> QED
      BY <2>2, <3>1 DEF Arrive
  <2> QED
    BY <2>1, <2>2
<1>2. calls' \in [Calls -> CallType]
  BY <1>1 DEF TypeOK, CallType
<1> QED
  BY <1>2 DEF Arrive, TypeOK, memory

LEMMA UpsertTypes ==
  ASSUME TypeOK, NEW c \in Calls, PairStore(c)
  PROVE  TypeOK'
<1> DEFINE d == calls[c].device
           g == calls[c].key
           row == [key |-> g, enabled |-> TRUE,
                   poll |-> IF g \in Modern THEN g ELSE registry[d].poll]
<1>1. Busy(c) /\ d \in Devices /\ g \in Generations
  BY CallFields DEF PairStore, Pairing, Busy, TypeOK
<1>2. row \in RowType
  BY <1>1 DEF RowType, TypeOK
<1>3. row.enabled /\ row.key = g /\ g # NoKey
  BY <1>1, ConstantsAssumption
<1>4. CASE /\ registry' = [registry EXCEPT ![d] = row]
           /\ calls' = Revive([calls EXCEPT ![c].step = "stored"], d, row)
           /\ UNCHANGED <<memory, challenge, due, retired, spent>>
  <2> HIDE DEF row
  <2>1. [calls EXCEPT ![c].step = "stored"] \in [Calls -> CallType]
    BY <1>1 DEF TypeOK, Busy, CallType
  <2>2. calls' \in [Calls -> CallType]
    BY <1>1, <1>2, <1>4, <2>1, ReviveEffect
  <2>3. registry' \in [Devices -> RowType]
    BY <1>1, <1>2, <1>4 DEF TypeOK, RowType
  <2>4. \A e \in Devices : registry'[e].enabled => registry'[e].key # NoKey
    BY <1>1, <1>3, <1>4 DEF TypeOK
  <2> QED
    BY <1>4, <2>2, <2>3, <2>4 DEF TypeOK, RowType, memory
<1>5. CASE Finish(c) /\ UNCHANGED <<registry, memory, challenge, due, retired, spent>>
  BY <1>5, FinishEffect DEF TypeOK, memory
<1> QED
  BY <1>4, <1>5 DEF PairStore

LEMMA PairTypes ==
  ASSUME TypeOK, Presented, NEW c \in Calls, PairStep(c)
  PROVE  TypeOK'
<1> Busy(c)
  BY DEF PairStep, PairCheck, PairProve, PairStore, PairBurn, Pairing, Busy
<1>1. CASE PairCheck(c)
  BY <1>1, MoveEffect, FinishEffect DEF PairCheck, TypeOK, memory, LaterSteps
<1>2. CASE PairProve(c)
  BY <1>2, ConsumeTypes DEF PairProve, TypeOK, memory, LaterSteps
<1>3. CASE PairStore(c)
  BY <1>3, UpsertTypes
<1>4. CASE PairBurn(c)
  <2>1. calls' \in [Calls -> CallType]
    BY <1>4, FinishEffect DEF PairBurn, TypeOK
  <2> QED
    <3>1. 0 \in 0..minted /\ calls[c].token \in 0..minted
      BY <1>4, ConstantsAssumption DEF PairBurn, Presented, TypeOK
    <3> QED
      BY <1>4, <2>1, <3>1 DEF PairBurn, TypeOK
<1> QED
  BY <1>1, <1>2, <1>3, <1>4 DEF PairStep

LEMMA SignedTypes ==
  ASSUME TypeOK, NEW c \in Calls, CallStep(c)
  PROVE  TypeOK'
<1>1. CASE Lookup(c)
  <2>1. At(c, "arrived") => Busy(c)
    BY DEF At, Busy
  <2> QED
    BY <1>1, <2>1, MoveEffect, FinishEffect DEF Lookup, TypeOK, memory, LaterSteps
<1>2. CASE Authorise(c)
  <2>1. Busy(c)
    BY <1>2 DEF Authorise, At, Busy
  <2> QED
    BY <1>2, <2>1, ConsumeTypes DEF Authorise, TypeOK, memory, LaterSteps
<1>3. CASE Answer(c)
  BY <1>3, FinishEffect DEF Answer, TypeOK, memory
<1>4. CASE Enrol(c)
  BY <1>4, FinishEffect, NewTokenTypes DEF Enrol, TypeOK
<1> QED
  BY <1>1, <1>2, <1>3, <1>4 DEF CallStep

LEMMA RegistryTypes ==
  ASSUME TypeOK, NEW d \in Devices,
         \/ \E c \in Calls : Revoke(c, d)
         \/ \E on \in BOOLEAN : CliSetEnabled(d, on)
  PROVE  TypeOK'
<1>1. ASSUME NEW c \in Calls, Revoke(c, d) PROVE TypeOK'
  <2>1. calls' \in [Calls -> CallType]
    BY <1>1, FinishEffect DEF Revoke, TypeOK
  <2> QED
    BY <1>1, <2>1 DEF Revoke, TypeOK, memory
<1>2. ASSUME NEW on \in BOOLEAN, CliSetEnabled(d, on) PROVE TypeOK'
  <2> DEFINE row == [registry[d] EXCEPT !.enabled = on]
  <2>1. row \in RowType /\ row.key = registry[d].key /\ row.key # NoKey
    BY <1>2 DEF CliSetEnabled, TypeOK, RowType
  <2>2. registry' = [registry EXCEPT ![d] = row] /\ calls' = Revive(calls, d, row)
    BY <1>2 DEF CliSetEnabled
  <2> HIDE DEF row
  <2>3. calls' \in [Calls -> CallType]
    <3>1. calls \in [Calls -> CallType]
      BY DEF TypeOK
    <3> QED
      BY <2>1, <2>2, <3>1, ReviveEffect
  <2> QED
    BY <1>2, <2>1, <2>2, <2>3 DEF CliSetEnabled, TypeOK, RowType, memory
<1> QED
  BY <1>1, <1>2

LEMMA PresentedStay ==
  ASSUME TypeOK, TypeOK', Presented, minted <= minted',
         \A c \in Calls : Pairing(c)' => Pairing(c) /\ calls'[c].token = calls[c].token
  PROVE  Presented'
BY ConstantsAssumption DEF TypeOK, Presented

LEMMA PresentedStep ==
  ASSUME TypeOK, TypeOK', Presented, [Next]_vars
  PROVE  Presented'
<1>0. minted \in Nat /\ minted <= minted /\ minted <= minted + 1
  BY ConstantsAssumption DEF TypeOK
<1>1. CASE UNCHANGED calls /\ minted' \in {minted, minted + 1}
  BY <1>0, <1>1, PresentedStay DEF Pairing
<1>2. ASSUME NEW c \in Calls, Finish(c), minted' \in {minted, minted + 1}
      PROVE  Presented'
  BY <1>0, <1>2, FinishEffect, PresentedStay DEF Pairing, TypeOK
<1>3. ASSUME NEW c \in Calls, Busy(c), NEW s \in LaterSteps, Move(c, s), UNCHANGED minted
      PROVE  Presented'
  BY <1>0, <1>3, MoveEffect, PresentedStay DEF Pairing, Busy, TypeOK
<1>4. ASSUME NEW c \in Calls, NEW kind \in Kinds, NEW d \in Devices, NEW g \in Generations,
             NEW h \in Challenges, NEW t \in 0..MaxTokens, Arrive(c, kind, d, g, h, t)
      PROVE  Presented'
  <2>1. /\ calls'[c].kind = kind /\ calls'[c].token = t /\ UNCHANGED minted
        /\ \A o \in Calls : o # c => calls'[o] = calls[o]
        /\ kind = "pair" => t \in 1..minted
    BY <1>4 DEF Arrive, TypeOK, memory
  <2> QED
    BY <2>1 DEF Presented, Pairing
<1>5. ASSUME NEW cs \in [Calls -> CallType], NEW d \in Devices, NEW row \in RowType,
             calls' = Revive(cs, d, row), UNCHANGED minted,
             \A c \in Calls : cs[c].step # "idle" =>
               Busy(c) /\ cs[c].kind = calls[c].kind /\ cs[c].token = calls[c].token
      PROVE  Presented'
  <2>1. \A c \in Calls : Pairing(c)' => Pairing(c) /\ calls'[c].token = calls[c].token
    BY <1>5, ReviveEffect DEF Pairing, Busy
  <2> QED
    BY <1>0, <1>5, <2>1, PresentedStay
<1>6. ASSUME NEW c \in Calls, PairStore(c) PROVE Presented'
  <2> DEFINE d == calls[c].device
             g == calls[c].key
             row == [key |-> g, enabled |-> TRUE,
                     poll |-> IF g \in Modern THEN g ELSE registry[d].poll]
             cs == [calls EXCEPT ![c].step = "stored"]
  <2>1. Busy(c)
    BY <1>6 DEF PairStore, Pairing, Busy
  <2>2. d \in Devices /\ row \in RowType
    BY <2>1, CallFields DEF TypeOK, RowType
  <2>3. /\ cs \in [Calls -> CallType] /\ cs[c].kind = calls[c].kind
        /\ cs[c].token = calls[c].token
        /\ \A o \in Calls : o # c => cs[o] = calls[o]
    <3>1. calls \in [Calls -> CallType] /\ calls[c].step # "idle"
      BY <2>1 DEF TypeOK, Busy
    <3> QED
      BY <3>1 DEF CallType
  <2>4. CASE Finish(c)
    BY <1>2, <1>6, <2>4 DEF PairStore, memory
  <2>5. CASE calls' = Revive(cs, d, row)
    <3> HIDE DEF d, row, cs
    <3>1. UNCHANGED minted
      BY <1>6 DEF PairStore, memory
    <3> QED
      BY <1>5, <2>1, <2>2, <2>3, <2>5, <3>1 DEF Busy
  <2> QED
    BY <1>6, <2>4, <2>5 DEF PairStore
<1>7. ASSUME NEW d \in Devices, NEW on \in BOOLEAN, CliSetEnabled(d, on) PROVE Presented'
  <2>1. [registry[d] EXCEPT !.enabled = on] \in RowType
    BY DEF TypeOK, RowType
  <2>2. calls \in [Calls -> CallType]
    BY DEF TypeOK
  <2> QED
    BY <1>5, <1>7, <2>1, <2>2 DEF CliSetEnabled, memory, Busy
<1>8. ASSUME NEW c \in Calls, PairCheck(c) \/ PairProve(c) \/ PairBurn(c) PROVE Presented'
  <2>1. Busy(c)
    BY <1>8 DEF PairCheck, PairProve, PairBurn, Pairing, Busy
  <2> QED
    BY <1>2, <1>3, <1>8, <2>1
    DEF PairCheck, PairProve, PairBurn, Consume, memory, LaterSteps
<1>9. ASSUME NEW c \in Calls, CallStep(c) PROVE Presented'
  <2>1. Busy(c)
    BY <1>9 DEF CallStep, Lookup, Authorise, Answer, Enrol, Authorised, At, Busy
  <2> QED
    BY <1>2, <1>3, <1>9, <2>1
    DEF CallStep, Lookup, Authorise, Answer, Enrol, NewToken, Consume, memory, LaterSteps
<1>10. ASSUME NEW c \in Calls, NEW d \in Devices, Revoke(c, d) PROVE Presented'
  BY <1>2, <1>10 DEF Revoke, memory
<1>11. CASE Restart
  BY <1>0, <1>11, PresentedStay DEF Restart, Pairing, Idle
<1>12. CASE Mint \/ Announce \/ ExpireToken \/ UNCHANGED vars
             \/ \E h \in Challenges : Challenge(h) \/ ExpireChallenge(h)
  BY <1>1, <1>12 DEF Mint, Announce, ExpireToken, Challenge, ExpireChallenge, NewToken,
     vars, memory
<1> QED
  BY <1>4, <1>6, <1>7, <1>8, <1>9, <1>10, <1>11, <1>12 DEF Next, PairStep

\* The variables keep their types, tokens are minted ones, and a device that
\* was never enrolled is not enabled.
THEOREM TypeCorrect == Spec => []TypeOK
<1>1. Init => TypeOK /\ Presented
  <2> SUFFICES ASSUME Init PROVE TypeOK /\ Presented
    OBVIOUS
  <2>1. calls \in [Calls -> CallType] /\ Presented
    BY DEF Init, Idle, CallType, Presented, Pairing
  <2>2. /\ minted \in 0..MaxTokens /\ token \in 0..minted /\ due \in 0..minted
        /\ retired \in SUBSET (0..minted) /\ spent \in [Challenges -> Nat]
    BY ConstantsAssumption DEF Init
  <2> QED
    BY <2>1, <2>2 DEF Init, TypeOK, Unknown
<1>2. TypeOK /\ Presented /\ [Next]_vars => TypeOK'
  BY TokenTypes, ChallengeTypes, ArriveTypes, PairTypes, SignedTypes, RegistryTypes
  DEF Next
<1>3. TypeOK /\ TypeOK' /\ Presented /\ [Next]_vars => Presented'
  BY PresentedStep
<1> QED
  BY <1>1, <1>2, <1>3, PTL DEF Spec

-----------------------------------------------------------------------------
(***************************************************************************)
(* Challenges.                                                             *)
(***************************************************************************)
ChallengeInv ==
  \A h \in Challenges :
    /\ challenge[h] \in {"new", "live", "expired"} => spent[h] = 0
    /\ spent[h] <= 1

LEMMA ConsumeOnce ==
  ASSUME TypeOK, ChallengeInv, NEW c \in Calls, Busy(c), NEW s, Consume(c, s)
  PROVE  ChallengeInv'
<1>1. calls[c].challenge \in Challenges
  BY CallFields DEF TypeOK
<1> QED
  BY <1>1 DEF Consume, ChallengeInv, TypeOK

\* A challenge authorises one call at most.
THEOREM ChallengesOnce == Spec => []ChallengeOnce
<1>1. Init => ChallengeInv
  BY DEF Init, ChallengeInv
<1>2. TypeOK /\ ChallengeInv /\ [Next]_vars => ChallengeInv'
  <2> SUFFICES ASSUME TypeOK, ChallengeInv, [Next]_vars PROVE ChallengeInv'
    OBVIOUS
  <2>1. ASSUME NEW c \in Calls, PairProve(c) \/ Authorise(c) PROVE ChallengeInv'
    <3>1. Busy(c)
      BY <2>1 DEF PairProve, Authorise, Pairing, At, Busy
    <3> QED
      BY <2>1, <3>1, ConsumeOnce DEF PairProve, Authorise
  <2>2. ASSUME NEW h \in Challenges, Challenge(h) \/ ExpireChallenge(h) PROVE ChallengeInv'
    BY <2>2 DEF Challenge, ExpireChallenge, ChallengeInv, TypeOK
  <2>3. CASE Restart
    BY <2>3 DEF Restart, ChallengeInv
  <2>4. CASE UNCHANGED <<challenge, spent>>
    BY <2>4 DEF ChallengeInv
  <2> QED
    BY <2>1, <2>2, <2>3, <2>4
    DEF Next, PairStep, CallStep, Mint, Announce, ExpireToken, Arrive, PairCheck, PairStore,
        PairBurn, Lookup, Answer, Enrol, Revoke, CliSetEnabled, vars
<1>3. ChallengeInv => ChallengeOnce
  BY DEF ChallengeInv, ChallengeOnce
<1> QED
  BY TypeCorrect, <1>1, <1>2, <1>3, PTL DEF Spec

-----------------------------------------------------------------------------
(***************************************************************************)
(* Enrolment tokens.                                                       *)
(***************************************************************************)
\* A pairing that came too late is not past its check; the token that ought to
\* be valid is, and no pairing past its check will erase it but its own.
CallTokens ==
  \A c \in Calls : Pairing(c) =>
    /\ calls[c].dead => At(c, "arrived") /\ calls[c].token \in retired
    /\ ~At(c, "arrived") => due \in {0, calls[c].token}

TokenInv ==
  /\ token # 0 /\ unexpired => token \notin retired
  /\ due # 0 => ValidToken(due)
  /\ CallTokens

\* Calls that stay as they are, or are over.
LEMMA CallTokensStay ==
  ASSUME CallTokens, retired \subseteq retired',
         due' = due \/ due' = 0 \/ ~Crossing,
         \A c \in Calls : Pairing(c)' =>
           /\ Pairing(c) /\ (At(c, "arrived")' <=> At(c, "arrived"))
           /\ calls'[c].dead = calls[c].dead /\ calls'[c].token = calls[c].token
  PROVE  CallTokens'
BY DEF CallTokens, Crossing

LEMMA NewTokenInv ==
  ASSUME TypeOK, TokenInv, NewToken
  PROVE  /\ token' # 0 /\ unexpired' => token' \notin retired'
         /\ due' # 0 => ValidToken(due)'
         /\ retired \subseteq retired'
         /\ due' = 0 \/ ~Crossing
BY ConstantsAssumption DEF TypeOK, TokenInv, NewToken, ValidToken

LEMMA TokensStep ==
  ASSUME TypeOK, TokenInv, Mint \/ Announce \/ ExpireToken \/ Restart \/ UNCHANGED vars
  PROVE  TokenInv'
<1>1. CASE Mint \/ (Announce /\ NewToken)
  <2>1. UNCHANGED calls /\ NewToken
    BY <1>1 DEF Mint, Announce
  <2>2. CallTokens'
    BY <2>1, NewTokenInv, CallTokensStay DEF TokenInv, Pairing, At
  <2> QED
    BY <2>1, <2>2, NewTokenInv DEF TokenInv
<1>2. CASE UNCHANGED <<token, unexpired, due, retired, calls>>
  BY <1>2 DEF TokenInv, CallTokens, Pairing, At, ValidToken
<1>3. CASE ExpireToken
  <2>1. CallTokens'
    BY <1>3, CallTokensStay DEF ExpireToken, TokenInv, Pairing, At
  <2> QED
    BY <1>3, <2>1 DEF ExpireToken, TokenInv
<1>4. CASE Restart
  <2>1. CallTokens'
    BY <1>4 DEF Restart, CallTokens, Pairing, Idle
  <2> QED
    BY <1>4, <2>1 DEF Restart, TokenInv
<1> QED
  BY <1>1, <1>2, <1>3, <1>4 DEF Announce, vars, memory

LEMMA ArriveTokens ==
  ASSUME TypeOK, TokenInv, NEW c \in Calls, NEW kind \in Kinds, NEW d \in Devices,
         NEW g \in Generations, NEW h \in Challenges, NEW t \in 0..MaxTokens,
         Arrive(c, kind, d, g, h, t)
  PROVE  TokenInv'
<1>1. /\ calls'[c].step = "arrived" /\ calls'[c].kind = kind /\ calls'[c].token = t
      /\ kind = "pair" => calls'[c].dead = (t \in retired)
      /\ \A o \in Calls : o # c => calls'[o] = calls[o]
      /\ UNCHANGED <<token, unexpired, due, retired>>
  BY DEF Arrive, TypeOK, memory
<1>2. CallTokens'
  BY <1>1 DEF TokenInv, CallTokens, Pairing, At
<1> QED
  BY <1>1, <1>2 DEF TokenInv, ValidToken

\* The calls that a step of one call leaves alone, and that it ends.
LEMMA OneCallTokens ==
  ASSUME TypeOK, CallTokens, NEW c \in Calls, retired \subseteq retired',
         due' = due \/ due' = 0 \/ ~Crossing,
         \A o \in Calls : o # c => calls'[o] = calls[o],
         calls'[c].step = "idle"
  PROVE  CallTokens'
<1>1. ~Pairing(c)'
  BY DEF Pairing
<1> QED
  BY <1>1, CallTokensStay DEF Pairing, At

LEMMA PairTokens ==
  ASSUME TypeOK, TokenInv, NEW c \in Calls, PairStep(c)
  PROVE  TokenInv'
<1>0. Busy(c) /\ Pairing(c)
  BY DEF PairStep, PairCheck, PairProve, PairStore, PairBurn, Pairing, Busy
<1>1. ASSUME NEW s \in LaterSteps, s # "arrived", Move(c, s),
             UNCHANGED <<token, unexpired, due, retired>>,
             ~At(c, "arrived") \/ ValidToken(calls[c].token)
      PROVE  TokenInv'
  <2>1. /\ calls'[c].step = s /\ calls'[c].kind = calls[c].kind
        /\ calls'[c].token = calls[c].token /\ calls'[c].dead = calls[c].dead
        /\ \A o \in Calls : o # c => calls'[o] = calls[o]
    BY <1>0, <1>1, MoveEffect DEF TypeOK
  <2>2. ~calls[c].dead /\ due \in {0, calls[c].token}
    BY <1>0, <1>1 DEF TokenInv, CallTokens, ValidToken
  <2>3. CallTokens'
    BY <1>1, <2>1, <2>2 DEF TokenInv, CallTokens, Pairing, At
  <2> QED
    BY <1>1, <2>3 DEF TokenInv, ValidToken
<1>2. ASSUME Finish(c), UNCHANGED <<token, unexpired, due, retired>>
      PROVE  TokenInv'
  <2>1. CallTokens'
    BY <1>2, FinishEffect, OneCallTokens DEF TypeOK, TokenInv
  <2> QED
    BY <1>2, <2>1 DEF TokenInv, ValidToken
<1>3. CASE PairCheck(c)
  BY <1>1, <1>2, <1>3 DEF PairCheck, memory, LaterSteps
<1>4. CASE PairProve(c)
  BY <1>1, <1>2, <1>4 DEF PairProve, Consume, memory, LaterSteps, At
<1>5. CASE PairStore(c)
  <2> DEFINE d == calls[c].device
             g == calls[c].key
             row == [key |-> g, enabled |-> TRUE,
                     poll |-> IF g \in Modern THEN g ELSE registry[d].poll]
             cs == [calls EXCEPT ![c].step = "stored"]
  <2>1. CASE calls' = Revive(cs, d, row) /\ UNCHANGED <<token, unexpired, due, retired>>
    <3>1. d \in Devices /\ row \in RowType
      BY <1>0, CallFields DEF TypeOK, RowType
    <3>2. /\ cs \in [Calls -> CallType] /\ cs[c].step = "stored"
          /\ cs[c].kind = calls[c].kind /\ cs[c].token = calls[c].token
          /\ cs[c].dead = calls[c].dead
          /\ \A o \in Calls : o # c => cs[o] = calls[o]
      BY <1>0 DEF TypeOK, Busy, CallType
    <3> HIDE DEF cs, d, row
    <3>3. \A o \in Calls : Pairing(o)' =>
            /\ Pairing(o) /\ (At(o, "arrived")' => At(o, "arrived"))
            /\ At(o, "arrived") => At(o, "arrived")' \/ o = c
            /\ calls'[o].dead = calls[o].dead /\ calls'[o].token = calls[o].token
      BY <1>0, <2>1, <3>1, <3>2, ReviveEffect DEF Pairing, At
    <3>4. ~At(c, "arrived")
      BY <1>5 DEF PairStore, At
    <3>5. CallTokens'
      BY <2>1, <3>3, <3>4 DEF TokenInv, CallTokens
    <3> QED
      BY <2>1, <3>5 DEF TokenInv, ValidToken
  <2>2. CASE Finish(c) /\ UNCHANGED <<token, unexpired, due, retired>>
    BY <1>2, <2>2
  <2> QED
    BY <1>5, <2>1, <2>2 DEF PairStore, memory
<1>6. CASE PairBurn(c)
  <2>1. due \in {0, calls[c].token}
    BY <1>0, <1>6 DEF PairBurn, TokenInv, CallTokens, At
  <2>2. CallTokens'
    BY <1>6, <2>1, FinishEffect, OneCallTokens DEF PairBurn, TokenInv, TypeOK
  <2> QED
    BY <1>6, <2>1, <2>2 DEF PairBurn, TokenInv
<1> QED
  BY <1>3, <1>4, <1>5, <1>6 DEF PairStep

LEMMA SignedTokens ==
  ASSUME TypeOK, TokenInv, NEW c \in Calls, CallStep(c)
  PROVE  TokenInv'
<1>0. Busy(c)
  BY DEF CallStep, Lookup, Authorise, Answer, Enrol, Authorised, At, Busy
<1>1. ASSUME NEW s \in LaterSteps, ~Pairing(c), Move(c, s),
             UNCHANGED <<token, unexpired, due, retired>>
      PROVE  TokenInv'
  <2>1. /\ calls'[c].step = s /\ calls'[c].kind = calls[c].kind
        /\ \A o \in Calls : o # c => calls'[o] = calls[o]
    BY <1>0, <1>1, MoveEffect DEF TypeOK
  <2>2. CallTokens'
    BY <1>0, <1>1, <2>1 DEF TokenInv, CallTokens, Pairing, Busy, At
  <2> QED
    BY <1>1, <2>2 DEF TokenInv, ValidToken
<1>2. ASSUME Finish(c), UNCHANGED <<token, unexpired, due, retired>>
      PROVE  TokenInv'
  <2>1. CallTokens'
    BY <1>2, FinishEffect, OneCallTokens DEF TypeOK, TokenInv
  <2> QED
    BY <1>2, <2>1 DEF TokenInv, ValidToken
<1>3. CASE Lookup(c)
  BY <1>1, <1>2, <1>3 DEF Lookup, memory, LaterSteps
<1>4. CASE Authorise(c)
  <2>1. ~At(c, "arrived") /\ UNCHANGED <<token, unexpired, due, retired>>
    BY <1>4 DEF Authorise, At, memory
  <2>2. CASE ~Pairing(c)
    BY <1>1, <1>2, <1>4, <2>1, <2>2 DEF Authorise, Consume, LaterSteps
  <2>3. ASSUME Pairing(c), Move(c, "authorised") PROVE TokenInv'
    <3>1. /\ calls'[c].step = "authorised" /\ calls'[c].kind = calls[c].kind
          /\ calls'[c].token = calls[c].token /\ calls'[c].dead = calls[c].dead
          /\ \A o \in Calls : o # c => calls'[o] = calls[o]
      BY <1>0, <2>3, MoveEffect DEF TypeOK, LaterSteps
    <3>2. CallTokens'
      BY <2>1, <2>3, <3>1 DEF TokenInv, CallTokens, Pairing, At
    <3> QED
      BY <2>1, <3>2 DEF TokenInv, ValidToken
  <2> QED
    BY <1>2, <1>4, <2>1, <2>2, <2>3 DEF Authorise, Consume
<1>5. CASE Answer(c)
  BY <1>2, <1>5 DEF Answer, memory
<1>6. CASE Enrol(c)
  <2>1. Finish(c) /\ NewToken
    BY <1>6 DEF Enrol
  <2>2. CallTokens'
    BY <2>1, NewTokenInv, FinishEffect, OneCallTokens DEF TypeOK, TokenInv
  <2> QED
    BY <2>1, <2>2, NewTokenInv DEF TokenInv
<1> QED
  BY <1>3, <1>4, <1>5, <1>6 DEF CallStep

LEMMA RegistryTokens ==
  ASSUME TypeOK, TokenInv, NEW d \in Devices,
         \/ \E c \in Calls : Revoke(c, d)
         \/ \E on \in BOOLEAN : CliSetEnabled(d, on)
  PROVE  TokenInv'
<1>1. ASSUME NEW c \in Calls, Revoke(c, d) PROVE TokenInv'
  <2>1. Finish(c) /\ UNCHANGED <<token, unexpired, due, retired>>
    BY <1>1 DEF Revoke, memory
  <2>2. CallTokens'
    BY <2>1, FinishEffect, OneCallTokens DEF TypeOK, TokenInv
  <2> QED
    BY <2>1, <2>2 DEF TokenInv, ValidToken
<1>2. ASSUME NEW on \in BOOLEAN, CliSetEnabled(d, on) PROVE TokenInv'
  <2> DEFINE row == [registry[d] EXCEPT !.enabled = on]
  <2>1. row \in RowType /\ calls \in [Calls -> CallType]
    BY DEF TypeOK, RowType
  <2>2. calls' = Revive(calls, d, row) /\ UNCHANGED <<token, unexpired, due, retired>>
    BY <1>2 DEF CliSetEnabled, memory
  <2> HIDE DEF row
  <2>3. \A o \in Calls : Pairing(o)' =>
          /\ Pairing(o) /\ (At(o, "arrived")' <=> At(o, "arrived"))
          /\ calls'[o].dead = calls[o].dead /\ calls'[o].token = calls[o].token
    BY <2>1, <2>2, ReviveEffect DEF Pairing, At
  <2>4. CallTokens'
    BY <2>2, <2>3, CallTokensStay DEF TokenInv
  <2> QED
    BY <2>2, <2>4 DEF TokenInv, ValidToken
<1> QED
  BY <1>1, <1>2

LEMMA TokenInvStep ==
  ASSUME TypeOK, TokenInv, [Next]_vars
  PROVE  TokenInv'
<1>1. ASSUME NEW h \in Challenges, Challenge(h) \/ ExpireChallenge(h) PROVE TokenInv'
  BY <1>1 DEF Challenge, ExpireChallenge, memory, TokenInv, CallTokens, Pairing, At, ValidToken
<1> QED
  BY <1>1, TokensStep, ArriveTokens, PairTokens, SignedTokens, RegistryTokens DEF Next

LEMMA TokenInvInit == Init => TokenInv
BY DEF Init, TokenInv, CallTokens, Pairing, Idle

\* A token that is over enrols no phone whose call arrives afterwards.
THEOREM RetiredRefused == Spec => []RetiredTokenRefused
<1>1. TokenInv => RetiredTokenRefused
  BY DEF TokenInv, CallTokens, RetiredTokenRefused
<1> QED
  BY <1>1, TypeCorrect, TokenInvInit, TokenInvStep, PTL DEF Spec

\* The token that ought to be valid is.
THEOREM MintedValid == Spec => []MintedStaysValid
<1>1. TokenInv => MintedStaysValid
  BY DEF TokenInv, MintedStaysValid
<1> QED
  BY <1>1, TypeCorrect, TokenInvInit, TokenInvStep, PTL DEF Spec

-----------------------------------------------------------------------------
(***************************************************************************)
(* Devices.                                                                *)
(***************************************************************************)
\* A call that came too late is not past its check, and no row entitles it.
SilentInv ==
  \A c \in Calls : Busy(c) /\ calls[c].kind # "pair" /\ calls[c].dead =>
    /\ At(c, "arrived")
    /\ ~Entitled(registry[calls[c].device], calls[c].kind, calls[c].key)

\* Calls that go on as they were or end, while rows entitle nobody anew.
LEMMA SilentStays ==
  ASSUME TypeOK, SilentInv,
         \A c \in Calls : calls'[c].step # "idle" => calls'[c] = calls[c],
         \A d \in Devices : \A k, g : Entitled(registry'[d], k, g) => Entitled(registry[d], k, g)
  PROVE  SilentInv'
<1> SUFFICES ASSUME NEW c \in Calls, calls'[c].step # "idle",
                    calls[c].kind # "pair", calls[c].dead
             PROVE  /\ calls[c].step = "arrived"
                    /\ ~Entitled(registry'[calls[c].device], calls[c].kind, calls[c].key)
  BY DEF SilentInv, Busy, At, Entitled
<1>1. Busy(c) /\ calls[c].device \in Devices
  BY CallFields DEF TypeOK, Busy
<1> QED
  BY <1>1 DEF SilentInv, At

\* A call that goes on was not too late.
LEMMA SilentMoves ==
  ASSUME TypeOK, SilentInv, NEW c \in Calls, Busy(c), NEW s \in LaterSteps, Move(c, s),
         UNCHANGED registry, calls[c].kind = "pair" \/ ~calls[c].dead
  PROVE  SilentInv'
<1>1. /\ calls'[c].kind = calls[c].kind /\ calls'[c].dead = calls[c].dead
      /\ \A o \in Calls : o # c => calls'[o] = calls[o]
  BY MoveEffect DEF TypeOK
<1> QED
  BY <1>1 DEF SilentInv, Busy, At, Entitled

\* A row is written, and calls are forgiven if it entitles them.
LEMMA SilentRow ==
  ASSUME TypeOK, SilentInv, NEW cs \in [Calls -> CallType], NEW d \in Devices,
         NEW row \in RowType, registry' = [registry EXCEPT ![d] = row],
         calls' = Revive(cs, d, row),
         \A c \in Calls : cs[c].step # "idle" =>
           cs[c] = calls[c] \/ (cs[c].kind = "pair")
  PROVE  SilentInv'
<1> SUFFICES ASSUME NEW c \in Calls, calls'[c].step # "idle",
                    calls'[c].kind # "pair", calls'[c].dead
             PROVE  /\ calls'[c].step = "arrived"
                    /\ ~Entitled(registry'[calls'[c].device], calls'[c].kind, calls'[c].key)
  BY DEF SilentInv, Busy, At, Entitled
<1>0. /\ calls'[c].step = cs[c].step
      /\ cs[c].step # "idle" =>
           /\ calls'[c].kind = cs[c].kind /\ calls'[c].device = cs[c].device
           /\ calls'[c].key = cs[c].key
           /\ cs[c].kind = "pair" \/ cs[c].device # d => calls'[c].dead = cs[c].dead
           /\ cs[c].kind # "pair" /\ cs[c].device = d /\ calls'[c].dead =>
                cs[c].dead /\ ~Entitled(row, cs[c].kind, cs[c].key)
  BY ReviveEffect
<1>1. /\ cs[c].step # "idle" /\ calls'[c].step = cs[c].step
      /\ calls'[c].kind = cs[c].kind /\ calls'[c].device = cs[c].device
      /\ calls'[c].key = cs[c].key
      /\ cs[c].device # d => calls'[c].dead = cs[c].dead
      /\ cs[c].device = d => cs[c].dead /\ ~Entitled(row, cs[c].kind, cs[c].key)
  BY <1>0
<1>2. cs[c] = calls[c] /\ Busy(c)
  BY <1>1 DEF Busy
<1>3. calls[c].device \in Devices
  BY <1>2, CallFields DEF TypeOK
<1>4. CASE calls[c].device = d
  <2>1. calls[c].dead /\ ~Entitled(row, calls[c].kind, calls[c].key)
    BY <1>1, <1>2, <1>4
  <2>2. registry'[d] = row
    BY DEF TypeOK
  <2> QED
    BY <1>1, <1>2, <1>4, <2>1, <2>2 DEF SilentInv, At
<1>5. CASE calls[c].device # d
  <2>1. registry'[calls[c].device] = registry[calls[c].device]
    BY <1>3, <1>5 DEF TypeOK
  <2> QED
    BY <1>1, <1>2, <1>5, <2>1 DEF SilentInv, At
<1> QED
  BY <1>4, <1>5

LEMMA ArriveSilent ==
  ASSUME TypeOK, SilentInv, NEW c \in Calls, NEW kind \in Kinds, NEW d \in Devices,
         NEW g \in Generations, NEW h \in Challenges, NEW t \in 0..MaxTokens,
         Arrive(c, kind, d, g, h, t)
  PROVE  SilentInv'
<1>1. /\ calls'[c].step = "arrived" /\ calls'[c].kind = kind
      /\ calls'[c].device = d /\ calls'[c].key = g
      /\ kind # "pair" /\ calls'[c].dead => ~Entitled(registry[d], kind, g)
      /\ \A o \in Calls : o # c => calls'[o] = calls[o]
      /\ UNCHANGED registry
  BY DEF Arrive, TypeOK
<1> QED
  BY <1>1 DEF SilentInv, Busy, At, Entitled

LEMMA PairSilent ==
  ASSUME TypeOK, SilentInv, NEW c \in Calls, PairStep(c)
  PROVE  SilentInv'
<1>0. Busy(c) /\ calls[c].kind = "pair"
  BY DEF PairStep, PairCheck, PairProve, PairStore, PairBurn, Pairing, Busy
<1>1. ASSUME Finish(c), UNCHANGED registry PROVE SilentInv'
  BY <1>1, FinishEffect, SilentStays DEF TypeOK
<1>2. CASE PairCheck(c) \/ PairProve(c) \/ PairBurn(c)
  BY <1>0, <1>1, <1>2, SilentMoves DEF PairCheck, PairProve, PairBurn, Consume, LaterSteps
<1>3. CASE PairStore(c)
  <2> DEFINE d == calls[c].device
             g == calls[c].key
             row == [key |-> g, enabled |-> TRUE,
                     poll |-> IF g \in Modern THEN g ELSE registry[d].poll]
             cs == [calls EXCEPT ![c].step = "stored"]
  <2>1. d \in Devices /\ row \in RowType
    BY <1>0, CallFields DEF TypeOK, RowType
  <2>2. /\ cs \in [Calls -> CallType] /\ cs[c].kind = "pair"
        /\ \A o \in Calls : o # c => cs[o] = calls[o]
    <3>1. calls \in [Calls -> CallType] /\ calls[c].step # "idle"
      BY <1>0 DEF TypeOK, Busy
    <3> QED
      BY <1>0, <3>1 DEF CallType
  <2>3. CASE registry' = [registry EXCEPT ![d] = row] /\ calls' = Revive(cs, d, row)
    <3> HIDE DEF d, row, cs
    <3> QED
      BY <2>1, <2>2, <2>3, SilentRow
  <2> QED
    BY <1>1, <1>3, <2>3 DEF PairStore
<1> QED
  BY <1>2, <1>3 DEF PairStep

LEMMA SignedSilent ==
  ASSUME TypeOK, SilentInv, NEW c \in Calls, CallStep(c)
  PROVE  SilentInv'
<1>0. Busy(c) /\ UNCHANGED registry
  BY DEF CallStep, Lookup, Authorise, Answer, Enrol, Authorised, At, Busy
<1>1. ASSUME Finish(c) PROVE SilentInv'
  BY <1>0, <1>1, FinishEffect, SilentStays DEF TypeOK
<1>2. CASE Lookup(c)
  <2> DEFINE row == registry[calls[c].device]
  <2>1. CASE Move(c, "verified") /\ row.enabled /\ Verified(row, calls[c].kind, calls[c].key)
    <3>1. Entitled(row, calls[c].kind, calls[c].key)
      BY <2>1 DEF Verified, Entitled
    <3>2. calls[c].kind = "pair" \/ ~calls[c].dead
      BY <1>0, <3>1 DEF SilentInv
    <3> QED
      BY <1>0, <2>1, <3>2, SilentMoves DEF LaterSteps
  <2> QED
    BY <1>1, <1>2, <2>1 DEF Lookup
<1>3. CASE Authorise(c)
  <2>1. calls[c].kind = "pair" \/ ~calls[c].dead
    BY <1>0, <1>3 DEF Authorise, SilentInv, At
  <2> QED
    BY <1>0, <1>1, <1>3, <2>1, SilentMoves DEF Authorise, Consume, LaterSteps
<1> QED
  BY <1>1, <1>2, <1>3 DEF CallStep, Answer, Enrol

LEMMA RegistrySilent ==
  ASSUME TypeOK, SilentInv, NEW d \in Devices,
         \/ \E c \in Calls : Revoke(c, d)
         \/ \E on \in BOOLEAN : CliSetEnabled(d, on)
  PROVE  SilentInv'
<1>1. ASSUME NEW c \in Calls, Revoke(c, d) PROVE SilentInv'
  <2>1. Finish(c) /\ registry' = [registry EXCEPT ![d].enabled = FALSE]
    BY <1>1 DEF Revoke
  <2>2. \A e \in Devices : \A k, g : Entitled(registry'[e], k, g) => Entitled(registry[e], k, g)
    BY <2>1 DEF Entitled, TypeOK
  <2> QED
    BY <2>1, <2>2, FinishEffect, SilentStays DEF TypeOK
<1>2. ASSUME NEW on \in BOOLEAN, CliSetEnabled(d, on) PROVE SilentInv'
  <2> DEFINE row == [registry[d] EXCEPT !.enabled = on]
  <2>1. row \in RowType /\ calls \in [Calls -> CallType]
    BY DEF TypeOK, RowType
  <2>2. registry' = [registry EXCEPT ![d] = row] /\ calls' = Revive(calls, d, row)
    BY <1>2 DEF CliSetEnabled
  <2> HIDE DEF row
  <2> QED
    BY <2>1, <2>2, SilentRow
<1> QED
  BY <1>1, <1>2

\* Calls of a device that was revoked or enrolled anew before they arrived are
\* not authorised.
THEOREM RevokedSilent == Spec => []RevokedStaysSilent
<1>1. Init => SilentInv
  BY DEF Init, SilentInv, Busy, Idle
<1>2. TypeOK /\ SilentInv /\ [Next]_vars => SilentInv'
  <2> SUFFICES ASSUME TypeOK, SilentInv, [Next]_vars PROVE SilentInv'
    OBVIOUS
  <2>1. CASE UNCHANGED <<registry, calls>>
    BY <2>1 DEF SilentInv, Busy, At, Entitled
  <2>2. CASE Restart
    BY <2>2 DEF Restart, SilentInv, Busy, Idle
  <2> QED
    BY <2>1, <2>2, ArriveSilent, PairSilent, SignedSilent, RegistrySilent
    DEF Next, Mint, Announce, ExpireToken, Challenge, ExpireChallenge, vars
<1>3. SilentInv => RevokedStaysSilent
  BY DEF SilentInv, RevokedStaysSilent, Busy, Pairing, At
<1> QED
  BY <1>1, <1>2, <1>3, TypeCorrect, PTL DEF Spec
=============================================================================
