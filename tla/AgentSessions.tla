--------------------------- MODULE AgentSessions ---------------------------
(***************************************************************************)
(* How an agent comes to a session and loses it: the pairing code          *)
(* (auth/pairing.go), the handler of /v1/session/open, the token manager   *)
(* (auth/tokens.go) with its mirror in the table auth_tokens, the phone    *)
(* that extends and revokes sessions, and restarts of the server.          *)
(*                                                                         *)
(* One open call mints one session with one token, so the call, its        *)
(* session and its token share one name, the agent.  The manager calls its *)
(* sink while it holds its lock, hence Verify, RevokeSession and           *)
(* ExtendSession change memory and table in one step; Issue calls the sink *)
(* after it unlocked and takes two.                                        *)
(***************************************************************************)
EXTENDS Integers

CONSTANTS
  Agents,              \* callers of /v1/session/open
  CodeTTL,             \* lifetime of a pairing code
  TokenTTL,            \* session_ttl_hours; 0 means that tokens never expire
  MaxPairingAttempts,  \* wrong codes that burn a pairing code
  MaxTime,             \* bound: the clock stops here
  MaxCodes,            \* bound: pairing codes generated
  MaxCrashes,          \* bound: crashes of the server process
  MaxFaults            \* bound: writes that SQLite refuses

ASSUME ConstantsAssumption ==
  /\ CodeTTL \in Nat \ {0}
  /\ TokenTTL \in Nat
  /\ MaxPairingAttempts \in Nat \ {0}
  /\ MaxCodes \in Nat \ {0}
  /\ {MaxTime, MaxCrashes, MaxFaults} \subseteq Nat

VARIABLES
  now,        \* the clock
  up,         \* the server process runs
  pairing,    \* the current code: its number, deadline, use, wrong attempts
  pc,         \* progress of the open call of each agent
  issued,     \* deadline Issue hands to the sink after it unlocked
  tokens,     \* TokenManager.tokens: the deadline of each token
  ttl,        \* and by how much its use moves that deadline
  rows,       \* the table auth_tokens: the stored deadlines
  started,    \* the table sessions: those inserted,
  ended,      \* and those with an end
  ending,     \* revocations between RevokeSession and EndSession
  codeOf,     \* history: the code each agent paired with, 0 if none
  wrongs,     \* history: wrong attempts compared with each code
  active,     \* history: when a token was last issued, used or extended
  revoked,    \* history: sessions whose tokens were revoked
  stale,      \* history: tokens whose row missed the manager's last change
  crashes,    \* bounded by MaxCrashes
  faults      \* bounded by MaxFaults

codeVars == <<pairing, codeOf, wrongs>>
tokenVars == <<tokens, ttl, rows, active, revoked, stale, issued>>
sessionVars == <<started, ended>>
serverVars == <<up, crashes>>
vars == <<now, up, pairing, pc, issued, tokens, ttl, rows, started, ended,
          ending, codeOf, wrongs, active, revoked, stale, crashes, faults>>

None == -1    \* the deadline of no token, or of no row
Never == 0    \* the zero time, the deadline of an unlimited token

Deadline(t) == IF TokenTTL = 0 THEN Never ELSE t + TokenTTL
Expired(expires) == expires # Never /\ now > expires

NewCode(n) == [code |-> n, expires |-> now + CodeTTL, used |-> FALSE, failed |-> 0]

Init ==
  /\ now = 1
  /\ up = TRUE
  /\ pairing = [code |-> 1, expires |-> 1 + CodeTTL, used |-> FALSE, failed |-> 0]
  /\ pc = [a \in Agents |-> "idle"]
  /\ issued = [a \in Agents |-> None]
  /\ tokens = [a \in Agents |-> None]
  /\ ttl = [a \in Agents |-> 0]
  /\ rows = [a \in Agents |-> None]
  /\ started = {}
  /\ ended = {}
  /\ ending = {}
  /\ codeOf = [a \in Agents |-> 0]
  /\ wrongs = [c \in 1..MaxCodes |-> 0]
  /\ active = [a \in Agents |-> 0]
  /\ revoked = {}
  /\ stale = {}
  /\ crashes = 0
  /\ faults = 0

-----------------------------------------------------------------------------
(***************************************************************************)
(* The sink registered by server.New.  It discards the error of a write,   *)
(* so that a refused write leaves the row behind the manager.              *)
(***************************************************************************)
WriteRow(a, expires) ==
  \/ /\ rows' = [rows EXCEPT ![a] = expires]
     /\ stale' = stale \ {a}
     /\ faults' = faults
  \/ /\ faults < MaxFaults
     /\ faults' = faults + 1
     /\ stale' = stale \cup {a}
     /\ rows' = rows

-----------------------------------------------------------------------------
(***************************************************************************)
(* Pairing.Consume, the first step of handleSessionOpen.  An agent that is *)
(* refused may call again.                                                 *)
(***************************************************************************)
\* Mutant: wrong guesses are counted but burn nothing.
WrongCodeNeverBurns(a) ==
  /\ up /\ pc[a] = "idle"
  /\ ~pairing.used
  /\ now <= pairing.expires
  /\ pairing' = [pairing EXCEPT !.failed = @ + 1]
  /\ wrongs' = [wrongs EXCEPT ![pairing.code] = @ + 1]
  /\ UNCHANGED <<now, serverVars, pc, tokenVars, sessionVars, ending, codeOf, faults>>

WrongCode(a) ==
  /\ up /\ pc[a] = "idle"
  /\ ~pairing.used
  /\ now <= pairing.expires
  /\ pairing' = [pairing EXCEPT !.failed = @ + 1,
                    !.used = IF pairing.failed + 1 >= MaxPairingAttempts THEN TRUE ELSE @]
  /\ wrongs' = [wrongs EXCEPT ![pairing.code] = @ + 1]
  /\ UNCHANGED <<now, serverVars, pc, tokenVars, sessionVars, ending, codeOf, faults>>

\* Mutant: a matching code stays valid.
ConsumeKeepsCode(a) ==
  /\ up /\ pc[a] = "idle"
  /\ ~pairing.used
  /\ now <= pairing.expires
  /\ codeOf' = [codeOf EXCEPT ![a] = pairing.code]
  /\ pc' = [pc EXCEPT ![a] = "paired"]
  /\ UNCHANGED <<now, serverVars, pairing, tokenVars, sessionVars, ending, wrongs, faults>>

Consume(a) ==
  /\ up /\ pc[a] = "idle"
  /\ ~pairing.used
  /\ now <= pairing.expires
  /\ pairing' = [pairing EXCEPT !.used = TRUE]
  /\ codeOf' = [codeOf EXCEPT ![a] = pairing.code]
  /\ pc' = [pc EXCEPT ![a] = "paired"]
  /\ UNCHANGED <<now, serverVars, tokenVars, sessionVars, ending, wrongs, faults>>

\* Mutant: the error of the insert does not end the call.
InsertSessionGoesOn(a) ==
  /\ up /\ pc[a] = "paired"
  /\ pc' = [pc EXCEPT ![a] = "stored"]
  /\ \/ /\ started' = started \cup {a}
        /\ faults' = faults
     \/ /\ faults < MaxFaults
        /\ faults' = faults + 1
        /\ started' = started
  /\ UNCHANGED <<now, serverVars, codeVars, tokenVars, ended, ending>>

\* Store.InsertSession; its error ends the call, and the code stays burnt.
InsertSession(a) ==
  /\ up /\ pc[a] = "paired"
  /\ \/ /\ started' = started \cup {a}
        /\ pc' = [pc EXCEPT ![a] = "stored"]
        /\ faults' = faults
     \/ /\ faults < MaxFaults
        /\ faults' = faults + 1
        /\ pc' = [pc EXCEPT ![a] = "failed"]
        /\ started' = started
  /\ UNCHANGED <<now, serverVars, codeVars, tokenVars, ended, ending>>

\* TokenManager.IssueWithRole up to its unlock.
IssueToken(a) ==
  /\ up /\ pc[a] = "stored"
  /\ tokens' = [tokens EXCEPT ![a] = Deadline(now)]
  /\ ttl' = [ttl EXCEPT ![a] = TokenTTL]
  /\ issued' = [issued EXCEPT ![a] = Deadline(now)]
  /\ active' = [active EXCEPT ![a] = now]
  /\ pc' = [pc EXCEPT ![a] = "issued"]
  /\ UNCHANGED <<now, serverVars, codeVars, rows, revoked, stale, sessionVars,
                 ending, faults>>

\* The sink call that follows, with the claims of the moment of issue.  The
\* handler then answers, and from here on the agent holds its token.
IssueRow(a) ==
  /\ up /\ pc[a] = "issued"
  /\ \/ /\ rows' = [rows EXCEPT ![a] = issued[a]]
        /\ stale' = IF tokens[a] = issued[a] THEN stale \ {a} ELSE stale \cup {a}
        /\ faults' = faults
     \/ /\ faults < MaxFaults
        /\ faults' = faults + 1
        /\ stale' = stale \cup {a}
        /\ rows' = rows
  /\ pc' = [pc EXCEPT ![a] = "open"]
  /\ UNCHANGED <<now, serverVars, codeVars, issued, tokens, ttl, active, revoked,
                 sessionVars, ending>>

-----------------------------------------------------------------------------
(***************************************************************************)
(* TokenManager.Verify on every authenticated call.  A token that was      *)
(* restored has ttl 0 and does not slide.                                  *)
(***************************************************************************)
VerifyExpired(a) ==
  /\ up /\ pc[a] = "open"
  /\ tokens[a] # None
  /\ Expired(tokens[a])
  /\ tokens' = [tokens EXCEPT ![a] = None]
  /\ ttl' = [ttl EXCEPT ![a] = 0]
  /\ WriteRow(a, None)
  /\ UNCHANGED <<now, serverVars, codeVars, pc, issued, active, revoked,
                 sessionVars, ending>>

\* Mutant: the slide is not mirrored.
VerifySlidesInMemory(a) ==
  /\ up /\ pc[a] = "open"
  /\ tokens[a] # None
  /\ ~Expired(tokens[a])
  /\ ttl[a] > 0
  /\ tokens' = [tokens EXCEPT ![a] = now + ttl[a]]
  /\ active' = [active EXCEPT ![a] = now]
  /\ UNCHANGED <<now, serverVars, codeVars, pc, issued, ttl, revoked, rows, stale,
                 sessionVars, ending, faults>>

VerifySlides(a) ==
  /\ up /\ pc[a] = "open"
  /\ tokens[a] # None
  /\ ~Expired(tokens[a])
  /\ ttl[a] > 0
  /\ tokens' = [tokens EXCEPT ![a] = now + ttl[a]]
  /\ active' = [active EXCEPT ![a] = now]
  /\ WriteRow(a, now + ttl[a])
  /\ UNCHANGED <<now, serverVars, codeVars, pc, issued, ttl, revoked, sessionVars,
                 ending>>

\* The phone names a session that it listed, now or before it expired.
Listed(a) == tokens[a] # None \/ pc[a] = "open"

\* Mutant: the revocation is not mirrored.
RevokeSessionInMemory(a) ==
  /\ up /\ Listed(a)
  /\ a \notin ending
  /\ ending' = ending \cup {a}
  /\ tokens[a] # None
  /\ tokens' = [tokens EXCEPT ![a] = None]
  /\ ttl' = [ttl EXCEPT ![a] = 0]
  /\ revoked' = revoked \cup {a}
  /\ UNCHANGED <<now, serverVars, codeVars, pc, issued, active, rows, stale,
                 sessionVars, faults>>

\* TokenManager.RevokeSession in handleApproverSessionRevoke ...
RevokeSession(a) ==
  /\ up /\ Listed(a)
  /\ a \notin ending
  /\ ending' = ending \cup {a}
  /\ \/ /\ tokens[a] # None
        /\ tokens' = [tokens EXCEPT ![a] = None]
        /\ ttl' = [ttl EXCEPT ![a] = 0]
        /\ revoked' = revoked \cup {a}
        /\ WriteRow(a, None)
     \/ /\ tokens[a] = None
        /\ UNCHANGED <<tokens, ttl, revoked, rows, stale, faults>>
  /\ UNCHANGED <<now, serverVars, codeVars, pc, issued, active, sessionVars>>

\* ... and the EndSession that follows it, whose error is discarded.
EndSession(a) ==
  /\ up /\ a \in ending
  /\ ending' = ending \ {a}
  /\ \/ /\ ended' = ended \cup {a}
        /\ faults' = faults
     \/ /\ faults < MaxFaults
        /\ faults' = faults + 1
        /\ ended' = ended
  /\ UNCHANGED <<now, serverVars, codeVars, pc, tokenVars, started>>

\* TokenManager.ExtendSession: it extends expired tokens too, and re-arms the
\* ttl of a restored one.  To extend a session takes its revocation back.
ExtendSession(a) ==
  /\ up
  /\ tokens[a] # None
  /\ tokens' = [tokens EXCEPT ![a] = Deadline(now)]
  /\ ttl' = [ttl EXCEPT ![a] = TokenTTL]
  /\ active' = [active EXCEPT ![a] = now]
  /\ revoked' = revoked \ {a}
  /\ WriteRow(a, Deadline(now))
  /\ UNCHANGED <<now, serverVars, codeVars, pc, issued, sessionVars, ending>>

-----------------------------------------------------------------------------
\* Pairing.Regenerate, from the TUI, the phone or the admin socket.
Regenerate ==
  /\ up
  /\ pairing.code < MaxCodes
  /\ pairing' = NewCode(pairing.code + 1)
  /\ UNCHANGED <<now, serverVars, pc, tokenVars, sessionVars, ending, codeOf, wrongs, faults>>

\* The manager, the pairing code and the calls in flight die with the process.
\* A crash between a change of the manager and its sink call is one before that
\* change: the lock is held and nobody was answered.
Crash ==
  /\ up
  /\ crashes < MaxCrashes
  /\ crashes' = crashes + 1
  /\ up' = FALSE
  /\ tokens' = [a \in Agents |-> None]
  /\ ttl' = [a \in Agents |-> 0]
  /\ pc' = [a \in Agents |-> IF pc[a] \in {"paired", "stored", "issued"}
                             THEN "failed" ELSE pc[a]]
  /\ ending' = {}
  /\ UNCHANGED <<now, codeVars, issued, rows, active, revoked, stale, sessionVars, faults>>

\* Mutant: restored tokens get a fresh lifetime and slide.
RestartRearms ==
  /\ ~up
  /\ pairing.code < MaxCodes
  /\ up' = TRUE
  /\ tokens' = [a \in Agents |-> IF rows[a] = None THEN None ELSE Deadline(now)]
  /\ ttl' = [a \in Agents |-> TokenTTL]
  /\ pairing' = NewCode(pairing.code + 1)
  /\ UNCHANGED <<now, crashes, pc, issued, rows, active, revoked, stale,
                 sessionVars, ending, codeOf, wrongs, faults>>

\* server.New replays the rows through Restore and makes a new pairing code.
Restart ==
  /\ ~up
  /\ pairing.code < MaxCodes
  /\ up' = TRUE
  /\ tokens' = rows
  /\ ttl' = [a \in Agents |-> 0]
  /\ pairing' = NewCode(pairing.code + 1)
  /\ UNCHANGED <<now, crashes, pc, issued, rows, active, revoked, stale,
                 sessionVars, ending, codeOf, wrongs, faults>>

Tick ==
  /\ now < MaxTime
  /\ now' = now + 1
  /\ UNCHANGED <<serverVars, codeVars, pc, tokenVars, sessionVars, ending, faults>>

AgentStep(a) ==
  \/ WrongCode(a) \/ Consume(a) \/ InsertSession(a) \/ IssueToken(a) \/ IssueRow(a)
  \/ VerifyExpired(a) \/ VerifySlides(a)

PhoneStep(a) == RevokeSession(a) \/ EndSession(a) \/ ExtendSession(a)

Next ==
  \/ \E a \in Agents : AgentStep(a) \/ PhoneStep(a)
  \/ Regenerate \/ Crash \/ Restart \/ Tick

Spec == Init /\ [][Next]_vars

-----------------------------------------------------------------------------
PairingRecord == [code : 1..MaxCodes, expires : Nat, used : BOOLEAN, failed : Nat]
Progress == {"idle", "paired", "stored", "issued", "open", "failed"}

\* The types of the variables.
TypeOK ==
  /\ now \in 1 .. MaxTime + 1
  /\ up \in BOOLEAN
  /\ pairing \in PairingRecord
  /\ pc \in [Agents -> Progress]
  /\ issued \in [Agents -> Nat \cup {None}]
  /\ tokens \in [Agents -> Nat \cup {None}]
  /\ ttl \in [Agents -> Nat]
  /\ rows \in [Agents -> Nat \cup {None}]
  /\ started \in SUBSET Agents
  /\ ended \in SUBSET Agents
  /\ ending \in SUBSET Agents
  /\ codeOf \in [Agents -> Nat]
  /\ wrongs \in [1..MaxCodes -> Nat]
  /\ active \in [Agents -> Nat]
  /\ revoked \in SUBSET Agents
  /\ stale \in SUBSET Agents
  /\ crashes \in Nat /\ faults \in Nat

\* A pairing code opens one session at most (README: "Pairing codes are
\* single-use"), whatever open calls run at once and however often the code
\* is generated anew.
CodeOpensOne ==
  \A a, b \in Agents : codeOf[a] = codeOf[b] /\ codeOf[a] # 0 => a = b

\* A code is compared with MaxPairingAttempts wrong guesses at most, and one
\* that was burnt by guesses has opened no session and never will.
GuessesBounded ==
  \A c \in 1..MaxCodes :
    /\ wrongs[c] <= MaxPairingAttempts
    /\ wrongs[c] = MaxPairingAttempts => \A a \in Agents : codeOf[a] # c

\* Every token, live, stored or restored after a restart, belongs to a session
\* of the audit table, although the insert of that session may fail.
TokensHaveSessions ==
  \A a \in Agents :
    tokens[a] # None \/ rows[a] # None => a \in started

\* Once Issue has called the sink, the table holds the manager's deadline of
\* every token, and no row of a token that is gone, unless the write of the
\* last change was refused or overtaken: a restart changes no deadline.
RowsMirror ==
  up => \A a \in Agents \ stale :
          pc[a] # "issued" => rows[a] = tokens[a]

\* With a limited lifetime, a token is accepted TokenTTL after it was last
\* used or extended at the latest, however often the server restarts and
\* whatever row the restart finds.
IdleTokensExpire ==
  TokenTTL > 0 =>
    \A a \in Agents : /\ tokens[a] <= active[a] + TokenTTL
                      /\ rows[a] <= active[a] + TokenTTL

\* A session whose revocation reached the table is never accepted again, after
\* any number of restarts, until the phone extends it itself.
RevocationHolds == \A a \in revoked \ stale : tokens[a] = None

\* What the tests ask of every revocation: "A restarted server must not accept
\* the revoked token" (server_auth_tokens_persistence_test.go).
RevokedStaysOut == \A a \in revoked : tokens[a] = None
=============================================================================
