----------------------------- MODULE Revocation -----------------------------
(***************************************************************************)
(* The revocation list of the authenticator and its file (auth.go).        *)
(*                                                                         *)
(* The list is a map in memory, written whole to a temporary file that is  *)
(* renamed over the old one, with a.mu held throughout; so its steps meet  *)
(* no other call but a crash.  Records expire, and are dropped when they   *)
(* are saved or loaded.                                                    *)
(***************************************************************************)
EXTENDS Naturals

CONSTANTS
  Tokens,    \* ids (jti) of generated keys
  Lifetime,  \* maxJWTLifetime, 90 days
  MaxRevocationTime    \* bound of the clock

ASSUME RevocationAssumption == Lifetime \in Nat /\ MaxRevocationTime \in Nat \ {0}

VARIABLES
  clock,
  minted,   \* minted[t]: when t was generated, 0 before
  revoked,  \* the map: the expiry of the record of t, or 0
  file,     \* the records in the file; a missing file is read like an empty one
  save,     \* the call of RevokeTokenID in progress: its step, token and records
  acked,    \* history: tokens whose revocation was answered with success
  renameFailed  \* history: a rename over an existing file has failed

revocationVars == <<clock, minted, revoked, file, save, acked, renameFailed>>

NoRecords == [t \in Tokens |-> 0]
NoSave == [pc |-> "none", tokens |-> {}, records |-> NoRecords]
Records == [Tokens -> 0 .. MaxRevocationTime + Lifetime]

RevocationTypeOK ==
  /\ clock \in 1 .. MaxRevocationTime /\ minted \in [Tokens -> 0 .. MaxRevocationTime]
  /\ revoked \in Records /\ file \in Records
  /\ save \in [pc : {"none", "write", "rename", "remove", "renameAgain"},
               tokens : SUBSET Tokens, records : Records]
  /\ acked \subseteq Tokens /\ renameFailed \in BOOLEAN

RevocationInit ==
  /\ clock = 1 /\ minted = NoRecords /\ revoked = NoRecords /\ file = NoRecords
  /\ save = NoSave /\ acked = {} /\ renameFailed = FALSE

Expired(records, t) == records[t] # 0 /\ clock > records[t]
Pruned(records) == [t \in Tokens |-> IF Expired(records, t) THEN 0 ELSE records[t]]

\* jwt.Parse rejects a token from its exp claim on.
Valid(t) == minted[t] # 0 /\ clock < minted[t] + Lifetime

\* AuthenticateContext.  isRevoked also forgets a record that has expired; it is
\* asked only for valid tokens, whose records have not, so that is no action.
Accepted(t) == Valid(t) /\ (revoked[t] = 0 \/ Expired(revoked, t))

-----------------------------------------------------------------------------
RevocationTick ==
  /\ clock < MaxRevocationTime
  /\ clock' = clock + 1
  /\ UNCHANGED <<minted, revoked, file, save, acked, renameFailed>>

GenerateKey(t) ==
  /\ minted[t] = 0
  /\ minted' = [minted EXCEPT ![t] = clock]
  /\ UNCHANGED <<clock, revoked, file, save, acked, renameFailed>>

\* Mutant: a record is kept for half the time.
RecordExpiryHalf == clock + Lifetime \div 2

RecordExpiry == clock + Lifetime

\* RevokeTokenID up to the records to be saved.
RevokeTokenID(t) ==
  /\ save = NoSave /\ minted[t] # 0
  /\ LET records == Pruned([revoked EXCEPT ![t] = RecordExpiry]) IN
       /\ revoked' = records
       /\ save' = [pc |-> "write", tokens |-> {t}, records |-> records]
  /\ UNCHANGED <<clock, minted, file, acked, renameFailed>>

Saved == file' = save.records /\ acked' = acked \cup save.tokens /\ save' = NoSave
SaveFails == save' = NoSave /\ UNCHANGED <<file, acked>>
SaveGoesOn(pc) == save' = [save EXCEPT !.pc = pc] /\ UNCHANGED acked

WriteTemporary ==
  /\ save.pc = "write"
  /\ (SaveGoesOn("rename") /\ UNCHANGED file) \/ SaveFails
  /\ UNCHANGED <<clock, minted, revoked, renameFailed>>

\* A rename that fails is tried again after the file was removed.
Rename ==
  /\ save.pc = "rename"
  /\ \/ Saved /\ UNCHANGED renameFailed
     \/ SaveGoesOn("remove") /\ renameFailed' = TRUE /\ UNCHANGED file
  /\ UNCHANGED <<clock, minted, revoked>>

RemoveOld ==
  /\ save.pc = "remove"
  /\ (SaveGoesOn("renameAgain") /\ file' = NoRecords) \/ SaveFails
  /\ UNCHANGED <<clock, minted, revoked, renameFailed>>

RenameAgain ==
  /\ save.pc = "renameAgain"
  /\ Saved \/ SaveFails
  /\ UNCHANGED <<clock, minted, revoked, renameFailed>>

\* loadRevocations takes the records that have not expired.
Loaded == [t \in Tokens |-> IF file[t] > clock THEN file[t] ELSE 0]

\* The process dies and starts again.
Restart ==
  /\ revoked' = Loaded /\ save' = NoSave
  /\ UNCHANGED <<clock, minted, file, acked, renameFailed>>

RevocationNext ==
  \/ RevocationTick \/ Restart
  \/ \E t \in Tokens : GenerateKey(t) \/ RevokeTokenID(t)
  \/ WriteTemporary \/ Rename \/ RemoveOld \/ RenameAgain

RevocationSpec == RevocationInit /\ [][RevocationNext]_revocationVars

-----------------------------------------------------------------------------
\* A key whose revocation was answered with success is never accepted again,
\* after restarts, failed saves of other revocations and the pruning of records
\* too -- as long as no rename over the old file has failed: the fallback
\* removes the file first, and what happens next may lose every revocation.
RevokedStaysOut == \A t \in acked : Accepted(t) => renameFailed
=============================================================================
