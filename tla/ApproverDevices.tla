-------------------------- MODULE ApproverDevices --------------------------
(***************************************************************************)
(* Remote approvers (httpapi/approver.go): phones that are enrolled with a *)
(* token from a QR code and then send signed calls, each with a challenge  *)
(* of its own.  The registry of devices is a table; the token and the      *)
(* challenges live in memory under approverMu.  No lock is held from one   *)
(* step of a call to the next, so calls of several phones, and two copies  *)
(* of one call, interleave at every step.                                  *)
(*                                                                         *)
(* A phone that is set up anew makes new keys: a generation.  A generation *)
(* of a newer app has a key for reading besides the one that approves.     *)
(* Tokens are numbered as they are minted; 0 is no token.                  *)
(***************************************************************************)
EXTENDS Naturals

CONSTANTS
  Devices, Generations,
  Modern,      \* generations with a key of their own for reading
  NoKey,
  Challenges,  \* each is issued at most once: they are random
  Calls,       \* calls under way at one time
  MaxTokens,   \* bound on the tokens minted
  MayFail      \* whether SQLite may refuse to enrol a device

ASSUME ConstantsAssumption ==
  /\ Modern \subseteq Generations
  /\ NoKey \notin Generations
  /\ MaxTokens \in Nat \ {0}
  /\ MayFail \in BOOLEAN

VARIABLES
  registry,   \* the table approver_devices
  token,      \* approverPairingToken
  unexpired,  \* the time of approverPairingTokenExpires has not come
  minted,     \* tokens minted so far
  announced,  \* serve printed its token
  challenge,  \* approverChallenges
  calls,      \* the calls under way
  due,        \* history: the token that ought to be valid
  retired,    \* history: tokens used up, replaced or expired
  spent       \* history: how many calls each challenge authorised

memory == <<token, unexpired, minted, announced>>
vars == <<registry, memory, challenge, calls, due, retired, spent>>

\* "act" stands for decisions, and for the calls that act on sessions, pairing
\* codes and processes: RequestLifecycle and AgentSessions take it from there.
Kinds == {"pair", "read", "act", "revoke", "enrol"}

Idle == [step |-> "idle"]
Unknown == [key |-> NoKey, poll |-> NoKey, enabled |-> FALSE]

At(c, step) == calls[c].step = step
Pairing(c) == calls[c].step # "idle" /\ calls[c].kind = "pair"
Move(c, step) == calls' = [calls EXCEPT ![c].step = step]
Finish(c) == calls' = [calls EXCEPT ![c] = Idle]

Init ==
  /\ registry = [d \in Devices |-> Unknown]
  /\ token = 0 /\ unexpired = FALSE /\ minted = 0 /\ announced = FALSE
  /\ challenge = [h \in Challenges |-> "new"]
  /\ calls = [c \in Calls |-> Idle]
  /\ due = 0 /\ retired = {}
  /\ spent = [h \in Challenges |-> 0]

-----------------------------------------------------------------------------
(***************************************************************************)
(* Tokens.  A token minted while a pairing is past its check may be erased *)
(* by that pairing.                                                        *)
(***************************************************************************)
Crossing == \E c \in Calls : Pairing(c) /\ ~At(c, "arrived")

NewToken ==
  /\ minted < MaxTokens
  /\ minted' = minted + 1
  /\ token' = minted + 1
  /\ unexpired' = TRUE
  /\ due' = IF Crossing THEN 0 ELSE minted + 1
  /\ retired' = retired \cup {token}

\* Mutant: a token that is still valid stays the live one.
MintKeepsOld ==
  /\ minted < MaxTokens
  /\ minted' = minted + 1
  /\ token' = IF token # 0 /\ unexpired THEN token ELSE minted + 1
  /\ unexpired' = TRUE
  /\ due' = IF Crossing THEN 0 ELSE minted + 1
  /\ retired' = retired \cup {token}
  /\ UNCHANGED <<registry, announced, challenge, calls, spent>>

\* MintApproverPairingToken, for `racg approver-setup`.
Mint ==
  /\ NewToken
  /\ UNCHANGED <<registry, announced, challenge, calls, spent>>

\* approverTokenBytes: serve prints a token once it listens, the live one if
\* somebody minted one meanwhile.
Announce ==
  /\ ~announced
  /\ announced' = TRUE
  /\ IF token = 0 \/ ~unexpired
     THEN NewToken
     ELSE UNCHANGED <<token, unexpired, minted, due, retired>>
  /\ UNCHANGED <<registry, challenge, calls, spent>>

ExpireToken ==
  /\ unexpired
  /\ unexpired' = FALSE
  /\ due' = 0
  /\ retired' = retired \cup {token}
  /\ UNCHANGED <<registry, token, minted, announced, challenge, calls, spent>>

ValidToken(t) == t = token /\ token # 0 /\ unexpired

-----------------------------------------------------------------------------
(***************************************************************************)
(* Challenges.                                                             *)
(***************************************************************************)
\* handleApproverChallenge also prunes what expired.
Challenge(h) ==
  /\ challenge[h] = "new"
  /\ challenge' = [g \in Challenges |->
       IF g = h THEN "live"
       ELSE IF challenge[g] = "expired" THEN "gone" ELSE challenge[g]]
  /\ UNCHANGED <<registry, memory, calls, due, retired, spent>>

ExpireChallenge(h) ==
  /\ challenge[h] = "live"
  /\ challenge' = [challenge EXCEPT ![h] = "expired"]
  /\ UNCHANGED <<registry, memory, calls, due, retired, spent>>

\* Mutant: validates the challenge and leaves it.
ConsumeKeeps(c, next) ==
  LET h == calls[c].challenge IN
  /\ UNCHANGED challenge
  /\ IF challenge[h] = "live"
     THEN /\ Move(c, next)
          /\ spent' = [spent EXCEPT ![h] = @ + 1]
     ELSE Finish(c) /\ UNCHANGED spent

\* consumeApproverChallenge: present and in time, and burnt in either case.
Consume(c, next) ==
  LET h == calls[c].challenge IN
  /\ challenge' = [challenge EXCEPT ![h] = "gone"]
  /\ IF challenge[h] = "live"
     THEN /\ Move(c, next)
          /\ spent' = [spent EXCEPT ![h] = @ + 1]
     ELSE Finish(c) /\ UNCHANGED spent

-----------------------------------------------------------------------------
(***************************************************************************)
(* A call arrives, perhaps as a second copy of one under way.  It may well *)
(* come from a phone that was revoked or set up anew, or present a token   *)
(* of an old QR code: `dead' says that the call came too late to succeed.  *)
(***************************************************************************)
Entitled(row, kind, g) ==
  row.enabled /\ (g = row.key \/ (kind = "read" /\ g = row.poll))

Arrive(c, kind, d, g, h, t) ==
  /\ At(c, "idle")
  /\ challenge[h] # "new"
  /\ IF kind = "pair" THEN t \in 1..minted ELSE t = 0
  /\ calls' = [calls EXCEPT ![c] =
       [step |-> "arrived", kind |-> kind, device |-> d, key |-> g,
        challenge |-> h, token |-> t,
        dead |-> IF kind = "pair" THEN t \in retired
                 ELSE ~Entitled(registry[d], kind, g)]]
  /\ UNCHANGED <<registry, memory, challenge, due, retired, spent>>

\* A device that is enrolled or enabled: its calls that arrived before may be
\* accepted after all.
Revive(cs, d, row) ==
  [c \in Calls |->
    IF cs[c].step = "idle" \/ cs[c].kind = "pair" \/ cs[c].device # d
    THEN cs[c]
    ELSE [cs[c] EXCEPT !.dead = @ /\ ~Entitled(row, cs[c].kind, cs[c].key)]]

-----------------------------------------------------------------------------
(***************************************************************************)
(* pairApproverDevice.                                                     *)
(***************************************************************************)
PairCheck(c) ==
  /\ Pairing(c) /\ At(c, "arrived")
  /\ IF ValidToken(calls[c].token) THEN Move(c, "valid") ELSE Finish(c)
  /\ UNCHANGED <<registry, memory, challenge, due, retired, spent>>

\* The challenge, and the signature over it, the keys and the token.
PairProve(c) ==
  /\ Pairing(c) /\ At(c, "valid")
  /\ Consume(c, "proved")
  /\ UNCHANGED <<registry, memory, due, retired>>

\* Mutant: the approval key takes the place of a poll key.
PairStorePollsWithKey(c) ==
  LET d == calls[c].device
      g == calls[c].key
      row == [key |-> g, enabled |-> TRUE,
              poll |-> g] IN
  /\ Pairing(c) /\ At(c, "proved")
  /\ \/ /\ registry' = [registry EXCEPT ![d] = row]
        /\ calls' = Revive([calls EXCEPT ![c].step = "stored"], d, row)
     \/ /\ MayFail
        /\ Finish(c)
        /\ UNCHANGED registry
  /\ UNCHANGED <<memory, challenge, due, retired, spent>>

\* UpsertApproverDevice enables the device with its new key, and keeps the
\* poll key of an earlier generation when the new one has none.
PairStore(c) ==
  LET d == calls[c].device
      g == calls[c].key
      row == [key |-> g, enabled |-> TRUE,
              poll |-> IF g \in Modern THEN g ELSE registry[d].poll] IN
  /\ Pairing(c) /\ At(c, "proved")
  /\ \/ /\ registry' = [registry EXCEPT ![d] = row]
        /\ calls' = Revive([calls EXCEPT ![c].step = "stored"], d, row)
     \/ /\ MayFail
        /\ Finish(c)
        /\ UNCHANGED registry
  /\ UNCHANGED <<memory, challenge, due, retired, spent>>

\* Mutant: the token is left for the next phone.
BurnLeavesToken(c) ==
  /\ Pairing(c) /\ At(c, "stored")
  /\ Finish(c)
  /\ due' = IF due = calls[c].token THEN 0 ELSE due
  /\ retired' = retired \cup {token, calls[c].token}
  /\ UNCHANGED <<registry, memory, challenge, spent>>

\* The burn erases whatever token is live by now.
PairBurn(c) ==
  /\ Pairing(c) /\ At(c, "stored")
  /\ Finish(c)
  /\ token' = 0 /\ unexpired' = FALSE
  /\ due' = IF due = calls[c].token THEN 0 ELSE due
  /\ retired' = retired \cup {token, calls[c].token}
  /\ UNCHANGED <<registry, minted, announced, challenge, spent>>

-----------------------------------------------------------------------------
(***************************************************************************)
(* Signed calls.  Reads are signed with the poll key if the device has     *)
(* one, everything else with the approval key.                             *)
(***************************************************************************)
Verified(row, kind, g) ==
  IF kind = "read" /\ row.poll # NoKey
  THEN g = row.poll
  ELSE g = row.key /\ (kind = "read" => g \notin Modern)

\* Mutant: the state of the device is not looked at.
LookupAny(c) ==
  /\ At(c, "arrived") /\ ~Pairing(c)
  /\ IF Verified(registry[calls[c].device], calls[c].kind, calls[c].key)
     THEN Move(c, "verified")
     ELSE Finish(c)
  /\ UNCHANGED <<registry, memory, challenge, due, retired, spent>>

\* approverDevice and the signature, before the challenge is touched.
Lookup(c) ==
  LET row == registry[calls[c].device] IN
  /\ At(c, "arrived") /\ ~Pairing(c)
  /\ IF row.enabled /\ Verified(row, calls[c].kind, calls[c].key)
     THEN Move(c, "verified")
     ELSE Finish(c)
  /\ UNCHANGED <<registry, memory, challenge, due, retired, spent>>

\* authenticateApproverPoll, authenticateApproverAdmin, handleApproverDecision.
Authorise(c) ==
  /\ At(c, "verified")
  /\ Consume(c, "authorised")
  /\ UNCHANGED <<registry, memory, due, retired>>

Authorised(c, kinds) == At(c, "authorised") /\ calls[c].kind \in kinds

\* A decision, a list of pending requests, an action on a session or a request:
\* nothing changes that this module keeps.
Answer(c) ==
  /\ Authorised(c, {"read", "act"})
  /\ Finish(c)
  /\ UNCHANGED <<registry, memory, challenge, due, retired, spent>>

\* handleApproverDeviceRevoke: any enrolled device, its own included.
Revoke(c, d) ==
  /\ Authorised(c, {"revoke"})
  /\ registry[d].key # NoKey
  /\ registry' = [registry EXCEPT ![d].enabled = FALSE]
  /\ Finish(c)
  /\ UNCHANGED <<memory, challenge, due, retired, spent>>

\* handleApproverEnrollment: the old phone asks for a token for a new one.
Enrol(c) ==
  /\ Authorised(c, {"enrol"})
  /\ NewToken
  /\ Finish(c)
  /\ UNCHANGED <<registry, announced, challenge, spent>>

\* `racg approver-devices revoke' and `enable', from another process.
CliSetEnabled(d, on) ==
  LET row == [registry[d] EXCEPT !.enabled = on] IN
  /\ registry[d].key # NoKey
  /\ registry' = [registry EXCEPT ![d] = row]
  /\ calls' = Revive(calls, d, row)
  /\ UNCHANGED <<memory, challenge, due, retired, spent>>

\* Challenges, token and calls are gone; the registry is not.
Restart ==
  /\ token' = 0 /\ unexpired' = FALSE /\ announced' = FALSE
  /\ challenge' = [h \in Challenges |->
       IF challenge[h] = "new" THEN "new" ELSE "gone"]
  /\ calls' = [c \in Calls |-> Idle]
  /\ due' = 0
  /\ retired' = retired \cup {token}
  /\ UNCHANGED <<registry, minted, spent>>

PairStep(c) == PairCheck(c) \/ PairProve(c) \/ PairStore(c) \/ PairBurn(c)
CallStep(c) == Lookup(c) \/ Authorise(c) \/ Answer(c) \/ Enrol(c)

Next ==
  \/ Mint \/ Announce \/ ExpireToken \/ Restart
  \/ \E h \in Challenges : Challenge(h) \/ ExpireChallenge(h)
  \/ \E c \in Calls, kind \in Kinds, d \in Devices, g \in Generations,
        h \in Challenges, t \in 0..MaxTokens : Arrive(c, kind, d, g, h, t)
  \/ \E c \in Calls : PairStep(c) \/ CallStep(c)
  \/ \E c \in Calls, d \in Devices : Revoke(c, d)
  \/ \E d \in Devices, on \in BOOLEAN : CliSetEnabled(d, on)

Spec == Init /\ [][Next]_vars

-----------------------------------------------------------------------------
CallType ==
  [step : {"idle"}] \cup
  [step : {"arrived", "valid", "proved", "stored", "verified", "authorised"},
   kind : Kinds, device : Devices, key : Generations, challenge : Challenges,
   token : 0..MaxTokens, dead : BOOLEAN]

\* The types of the variables.  A token is one that was minted, and a device
\* that was never enrolled is not enabled.
TypeOK ==
  /\ registry \in [Devices -> [key : Generations \cup {NoKey},
                               poll : Modern \cup {NoKey}, enabled : BOOLEAN]]
  /\ \A d \in Devices : registry[d].enabled => registry[d].key # NoKey
  /\ minted \in 0..MaxTokens
  /\ token \in 0..minted
  /\ unexpired \in BOOLEAN /\ announced \in BOOLEAN
  /\ challenge \in [Challenges -> {"new", "live", "expired", "gone"}]
  /\ calls \in [Calls -> CallType]
  /\ due \in 0..minted
  /\ retired \in SUBSET (0..minted)
  /\ spent \in [Challenges -> Nat]

\* A challenge authorises one call at most, be it a pairing, a read or a
\* decision, however many copies of it arrive and in whatever order.
ChallengeOnce == \A h \in Challenges : spent[h] <= 1

\* A token that was used up, replaced by a newer one, or that expired, enrols
\* no phone whose call arrives afterwards.
RetiredTokenRefused ==
  \A c \in Calls : Pairing(c) /\ calls[c].dead => At(c, "arrived")

\* The phone that is shown the last QR code can use it: a token stays valid
\* until it is used, replaced or expired, unless another pairing was past its
\* check when it was minted, which then erases it.
MintedStaysValid == due # 0 => ValidToken(due)

\* store/approver_devices.go:95, "Revoked devices fail poll and decision
\* signature checks immediately", and those whose keys were replaced by another
\* enrolment do too: a call that arrives after that is not authorised, unless
\* the device is enrolled or enabled again while the call is under way.
RevokedStaysSilent ==
  \A c \in Calls : ~Pairing(c) /\ calls[c].step \in {"verified", "authorised"}
    => ~calls[c].dead
=============================================================================
