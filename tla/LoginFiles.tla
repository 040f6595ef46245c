----------------------------- MODULE LoginFiles -----------------------------
(***************************************************************************)
(* The files of a login: the credential (credentials.go), the content keys *)
(* kept for re-sealing (pending_reseal.go) and the cached list of trusted  *)
(* devices (lanid/trust_signed.go, trust_binding.go), with the places      *)
(* older releases left the first two in, from which they are migrated.     *)
(* Several processes of the device work on them with no lock.  Each read,  *)
(* truncation, write and removal is a step, and a process may die between  *)
(* two.  (How the trust list itself is written: StateFiles.)               *)
(***************************************************************************)
EXTENDS Naturals

CONSTANTS
  Process,
  Token,      \* logins; one of them is there at the beginning
  FirstToken,
  AccountOf,  \* AccountOf[t]: the account login t is for
  Share,      \* shares with a retained content key
  Owner,      \* Owner[s]: the login that sends share s
  OldKeys,    \* what may lie in the key store of an older release
  None,
  MaxCalls,   \* a bound on calls
  MaxFaults   \* a bound on failing writes and dying processes

ASSUME TokenAssumption == FirstToken \in Token /\ None \notin Token /\ Owner \in [Share -> Token]
ASSUME AccountAssumption == \A t \in Token : AccountOf[t] # None
ASSUME OldKeysAssumption == OldKeys \subseteq SUBSET Share

VARIABLES
  fs,        \* fs[path]: what is there
  proc,      \* proc[p]: the call process p is in
  expired,   \* shares past PendingResealTTL
  used,      \* logins there have been
  calls, faults,
  over,      \* logins a logout has ended with success, while nobody wrote to a file
  owed,      \* shares whose key was retained with success and is still wanted
  inherited, \* shares whose key an older release left and that are still wanted
  honoured,  \* pairs of a login and an account whose list was honoured under it
  mixed      \* a process saved what it had made of files that have changed since

vars == <<fs, proc, expired, used, calls, faults, over, owed, inherited, honoured, mixed>>

Missing == [kind |-> "missing"]
Empty == [kind |-> "empty"]
Torn == [kind |-> "torn"]
Cred(token, account, signing, schema) ==
  [kind |-> "cred", token |-> token, account |-> account, signing |-> signing, schema |-> schema]
Keys(shares) == [kind |-> "keys", shares |-> shares]

NoCred == Cred(None, None, FALSE, 1)
Idle == [pc |-> "idle"]

KeyFile == {"keys", "oldKeys"}
Busy == {p \in Process : proc[p].pc # "idle"}

-----------------------------------------------------------------------------
(* Steps on files.                                                         *)

\* Process p goes on as r; what it does to a file dates what the others have read (a
\* credential is read afresh by whoever loads it again).
Becomes(p, r) == proc' = [proc EXCEPT ![p] = r]

Touches(p, r) ==
  proc' = [q \in Process |->
    IF q = p THEN r ELSE IF q \in Busy THEN [proc[q] EXCEPT !.stale = TRUE] ELSE proc[q]]

Saving(r, path, text, next) ==
  [r EXCEPT !.pc = "truncate", !.path = path, !.text = text, !.next = next]

Init ==
  /\ \E schema \in {0, 1}, here, there \in BOOLEAN, old \in OldKeys :
       LET cred == Cred(FirstToken, IF schema = 0 THEN None ELSE AccountOf[FirstToken],
                        FALSE, schema)
       IN /\ fs = [cred |-> IF here THEN cred ELSE Missing,
                   oldCred |-> IF there THEN cred ELSE Missing,
                   keys |-> Missing,
                   oldKeys |-> IF old = {} THEN Missing ELSE Keys(old),
                   trust |-> Missing]
          /\ inherited = old
  /\ proc = [p \in Process |-> Idle]
  /\ expired = {} /\ used = {FirstToken} /\ calls = 0 /\ faults = 0
  /\ over = {} /\ owed = {} /\ honoured = {} /\ mixed = FALSE

\* os.WriteFile opens and empties the file, and then writes it.
Truncate(p) ==
  /\ proc[p].pc = "truncate"
  /\ fs' = [fs EXCEPT ![proc[p].path] = Empty]
  /\ mixed' = (mixed \/ proc[p].stale)
  /\ Touches(p, [proc[p] EXCEPT !.pc = "fill"])
  /\ UNCHANGED <<expired, used, calls, faults, over, owed, inherited, honoured>>

\* What a write may leave at its path.  When another process has been there meanwhile,
\* two texts may be mixed, and a file that was removed is not the one written to.
Leaves(p, text) ==
  LET there == fs[proc[p].path]
  IN IF ~proc[p].stale THEN {text}
     ELSE IF there = Missing THEN {Missing}
     ELSE {text, there} \cup (IF there = Empty THEN {} ELSE {Torn})

Fill(p) ==
  /\ proc[p].pc = "fill"
  /\ \E text \in Leaves(p, proc[p].text) : fs' = [fs EXCEPT ![proc[p].path] = text]
  /\ mixed' = (mixed \/ proc[p].stale)
  /\ Touches(p, IF proc[p].next = "end" THEN Idle
                ELSE [proc[p] EXCEPT !.pc = proc[p].next, !.text = Missing, !.next = "end"])
  /\ owed' = IF proc[p].next = "end" /\ proc[p].call = "retain"
             THEN owed \cup {proc[p].share} ELSE owed
  /\ UNCHANGED <<expired, used, calls, faults, over, inherited, honoured>>

\* The write fails, which a migration, an upgrade and a pruning ignore.
FillFails(p) ==
  /\ faults < MaxFaults
  /\ proc[p].pc = "fill"
  /\ \E text \in Leaves(p, Torn) : fs' = [fs EXCEPT ![proc[p].path] = text]
  /\ faults' = faults + 1
  /\ Touches(p, IF proc[p].next \in {"loaded", "migrate", "dropOld"}
                THEN [proc[p] EXCEPT !.pc = proc[p].next] ELSE Idle)
  /\ mixed' = (mixed \/ proc[p].stale)
  /\ UNCHANGED <<expired, used, calls, over, owed, inherited, honoured>>

Crash(p) ==
  /\ faults < MaxFaults
  /\ p \in Busy
  /\ faults' = faults + 1
  /\ Becomes(p, Idle)
  /\ UNCHANGED <<fs, expired, used, calls, over, owed, inherited, honoured, mixed>>

Expire(s) ==
  /\ \E path \in KeyFile : fs[path].kind = "keys" /\ s \in fs[path].shares
  /\ expired' = expired \cup {s}
  /\ UNCHANGED <<fs, proc, used, calls, faults, over, owed, inherited, honoured, mixed>>

-----------------------------------------------------------------------------
(* The calls begin.                                                        *)

Start(p, call, pc, share, token) ==
  /\ proc[p] = Idle
  /\ calls < MaxCalls
  /\ calls' = calls + 1
  /\ Becomes(p, [pc |-> pc, call |-> call, share |-> share, token |-> token, cred |-> NoCred,
                 shares |-> {}, adopted |-> FALSE, account |-> None, path |-> "cred",
                 text |-> Missing, next |-> "end", stale |-> FALSE])
  /\ UNCHANGED <<fs, expired, faults, over, honoured, mixed>>

LoadCredential(p) ==
  Start(p, "load", "read", None, None) /\ UNCHANGED <<used, owed, inherited>>

PrepareLoginSigningKey(p) ==
  Start(p, "prepare", "read", None, None) /\ UNCHANGED <<used, owed, inherited>>

\* An interactive login: the signing key is prepared, the user approves, and the
\* credential is saved with the new token, its account, and that key.
Login(p, t) ==
  /\ t \notin used
  /\ used' = used \cup {t}
  /\ Start(p, "login", "read", None, t) /\ UNCHANGED <<owed, inherited>>

\* A list is fetched under the login on disk, and saved.
RefreshTrust(p) ==
  Start(p, "refresh", "read", None, None) /\ UNCHANGED <<used, owed, inherited>>

Lookup(p) ==
  /\ fs.trust # Missing
  /\ Start(p, "lookup", "readTrust", None, None) /\ UNCHANGED <<used, owed, inherited>>

\* DeleteCredential and ForgetAllRetainedKeys.
Logout(p, t) ==
  /\ t \in used /\ fs.cred.kind = "cred" /\ fs.cred.token = t
  /\ Start(p, "logout", "removeCred", None, t) /\ UNCHANGED <<used, owed, inherited>>

\* A share is sent by the login on disk, and its key kept.
RetainContentKey(p, s) ==
  /\ s \notin expired
  /\ fs.cred.kind = "cred" /\ fs.cred.token = Owner[s]
  /\ Start(p, "retain", "readKeys", s, None) /\ UNCHANGED <<used, owed, inherited>>

ForgetRetainedKey(p, s) ==
  Start(p, "forget", "readKeys", s, None) /\ UNCHANGED <<used, owed, inherited>>

LoadPendingReseal(p) ==
  Start(p, "loadKeys", "readKeys", None, None) /\ UNCHANGED <<used, owed, inherited>>

-----------------------------------------------------------------------------
(* LoadCredential.                                                         *)

Ends(p) == Becomes(p, Idle)
Quiet == UNCHANGED <<expired, used, calls, faults, over, owed, inherited>>
ReadsOnly == UNCHANGED <<fs, honoured, mixed>> /\ Quiet

Upgraded(cred) == [cred EXCEPT !.schema = 1]

\* What LoadCredentialAt does with a credential it has read at path: an older schema
\* is written back, unless the credential holds no token.
Loads(p, path, cred, next) ==
  Becomes(p,
    LET r == [proc[p] EXCEPT !.cred = Upgraded(cred), !.stale = (path # "cred" /\ @)]
    IN IF cred.schema = 0 /\ cred.token # None THEN Saving(r, path, Upgraded(cred), next)
       ELSE [r EXCEPT !.pc = next])

\* A missing credential is no error to PrepareLoginSigningKey; one that does not
\* parse is an error to all.
ReadCred(p) ==
  /\ proc[p].pc = "read"
  /\ CASE fs.cred = Missing -> Becomes(p, [proc[p] EXCEPT !.pc = "readOld", !.stale = FALSE])
       [] fs.cred.kind = "cred" -> Loads(p, "cred", fs.cred, "loaded")
       [] OTHER -> Ends(p)
  /\ ReadsOnly

ReadOldCred(p) ==
  /\ proc[p].pc = "readOld"
  /\ IF fs.oldCred.kind = "cred" THEN Loads(p, "oldCred", fs.oldCred, "migrate")
     ELSE IF proc[p].call \in {"prepare", "login"}
     THEN Becomes(p, [proc[p] EXCEPT !.pc = "loaded"])
     ELSE Ends(p)
  /\ ReadsOnly

Migrate(p) ==
  /\ proc[p].pc = "migrate"
  /\ Becomes(p, Saving(proc[p], "cred", proc[p].cred, "loaded"))
  /\ ReadsOnly

\* PrepareLoginSigningKey keeps a signing key that is there, and everything else.
SavePrepared(p) ==
  /\ proc[p].pc = "loaded" /\ proc[p].call \in {"prepare", "login"}
  /\ Becomes(p, Saving(proc[p], "cred", [proc[p].cred EXCEPT !.signing = TRUE],
                       IF proc[p].call = "login" THEN "approved" ELSE "end"))
  /\ ReadsOnly

SaveLogin(p) ==
  /\ proc[p].pc = "approved"
  /\ Becomes(p, Saving(proc[p], "cred",
                  Cred(proc[p].token, AccountOf[proc[p].token], TRUE, 1), "end"))
  /\ ReadsOnly

EndLoad(p) ==
  /\ proc[p].pc = "loaded" /\ proc[p].call = "load"
  /\ Ends(p)
  /\ ReadsOnly

-----------------------------------------------------------------------------
(* The trust list.                                                         *)

\* The server answers for the account of the token, and SaveSignedTrust caches the
\* answer; a token that is not a login's any more gets none.
SaveSignedTrust(p) ==
  /\ proc[p].pc = "loaded" /\ proc[p].call = "refresh" /\ proc[p].account = None
  /\ IF proc[p].cred.token = None THEN Ends(p) /\ UNCHANGED fs
     ELSE LET account == AccountOf[proc[p].cred.token]
          IN /\ fs' = [fs EXCEPT !.trust = [kind |-> "trust", account |-> account]]
             /\ Becomes(p, [proc[p] EXCEPT !.pc = "read", !.account = account,
                                           !.token = proc[p].cred.token])
  /\ Quiet /\ UNCHANGED <<honoured, mixed>>

\* A mutant of BindAccount: the list's account replaces the login's.
BindAccountSilently(p) ==
  /\ proc[p].pc = "loaded" /\ proc[p].call = "refresh" /\ proc[p].account # None
  /\ Becomes(p, Saving(proc[p], "cred", [proc[p].cred EXCEPT !.account = proc[p].account], "end"))
  /\ UNCHANGED fs
  /\ Quiet /\ UNCHANGED <<honoured, mixed>>

\* SaveTrustList: a login without an account learns the list's; a list for another
\* account is dropped.  (Where the login is not the one the list was fetched under, the
\* credential has changed since.)
BindAccount(p) ==
  /\ proc[p].pc = "loaded" /\ proc[p].call = "refresh" /\ proc[p].account # None
  /\ CASE proc[p].cred.account = proc[p].account -> Ends(p) /\ UNCHANGED fs
       [] proc[p].cred.account = None ->
            /\ Becomes(p, Saving([proc[p] EXCEPT !.stale = @ \/ proc[p].cred.token # proc[p].token],
                            "cred", [proc[p].cred EXCEPT !.account = proc[p].account], "end"))
            /\ UNCHANGED fs
       [] OTHER -> Ends(p) /\ fs' = [fs EXCEPT !.trust = Missing]
  /\ Quiet /\ UNCHANGED <<honoured, mixed>>

ReadTrust(p) ==
  /\ proc[p].pc = "readTrust"
  /\ IF fs.trust = Missing THEN Ends(p)
     ELSE Becomes(p, [proc[p] EXCEPT !.pc = "read", !.account = fs.trust.account])
  /\ ReadsOnly

\* verifyCached: the list is honoured for the account of the login, which is read after
\* it.
Verify(p) ==
  /\ proc[p].pc = "loaded" /\ proc[p].call = "lookup"
  /\ honoured' = IF proc[p].cred.account = proc[p].account
                 THEN honoured \cup {<<proc[p].cred.token, proc[p].account>>} ELSE honoured
  /\ Ends(p)
  /\ Quiet /\ UNCHANGED <<fs, mixed>>

-----------------------------------------------------------------------------
(* Logout.                                                                 *)

Removes(p, at, path, next) ==
  /\ proc[p].pc = at
  /\ fs' = [fs EXCEPT ![path] = Missing]
  /\ Touches(p, IF next = "end" THEN Idle ELSE [proc[p] EXCEPT !.pc = next])
  /\ owed' = IF path = "keys" THEN {} ELSE owed
  /\ inherited' = IF path \in KeyFile THEN {} ELSE inherited
  /\ UNCHANGED <<expired, used, calls, faults, honoured, mixed>>

\* A mutant of RemoveOldCred: only the present path is cleared.
RemoveOldCredNot(p) ==
  /\ proc[p].pc = "removeOldCred"
  /\ Becomes(p, [proc[p] EXCEPT !.pc = "removeOldKeys"])
  /\ ReadsOnly

RemoveCred(p) == Removes(p, "removeCred", "cred", "removeOldCred") /\ UNCHANGED over

RemoveOldCred(p) == Removes(p, "removeOldCred", "oldCred", "removeOldKeys") /\ UNCHANGED over

RemoveOldKeys(p) == Removes(p, "removeOldKeys", "oldKeys", "removeKeys") /\ UNCHANGED over

RemoveKeys(p) ==
  /\ Removes(p, "removeKeys", "keys", "end")
  /\ over' = IF proc[p].stale THEN over ELSE over \cup {proc[p].token}

-----------------------------------------------------------------------------
(* Retained keys.                                                          *)

\* The store is read; without one, the store an older release left is adopted.
ReadKeys(p) ==
  /\ proc[p].pc = "readKeys"
  /\ CASE fs.keys = Missing -> Becomes(p, [proc[p] EXCEPT !.pc = "readOldKeys"])
       [] fs.keys.kind = "keys" ->
            Becomes(p, [proc[p] EXCEPT !.pc = "prune", !.shares = fs.keys.shares])
       [] OTHER -> Ends(p)
  /\ ReadsOnly

\* (A store that does not parse is an error after which it is removed all the same.)
ReadOldKeys(p) ==
  /\ proc[p].pc = "readOldKeys"
  /\ Becomes(p,
       CASE fs.oldKeys = Missing -> [proc[p] EXCEPT !.pc = "prune"]
         [] fs.oldKeys.kind = "keys" ->
              [proc[p] EXCEPT !.pc = "prune", !.shares = fs.oldKeys.shares, !.adopted = TRUE])
  /\ ReadsOnly

\* A mutant of Prune: everything is expired.
PruneAll(p) ==
  /\ proc[p].pc = "prune"
  /\ Becomes(p, Saving([proc[p] EXCEPT !.shares = {}], "keys", Keys({}), "dropOld"))
  /\ ReadsOnly

\* Only a store that has lost an entry to pruneExpired is written back.
Prune(p) ==
  /\ proc[p].pc = "prune"
  /\ LET r == [proc[p] EXCEPT !.shares = @ \ expired]
     IN Becomes(p, IF proc[p].shares \cap expired = {} THEN [r EXCEPT !.pc = "dropOld"]
                   ELSE Saving(r, "keys", Keys(r.shares), "dropOld"))
  /\ ReadsOnly

\* The deferred removal of an adopted store, and LoadPendingReseal returns.
DropOld(p) ==
  /\ proc[p].pc = "dropOld"
  /\ IF proc[p].adopted
     THEN /\ fs' = [fs EXCEPT !.oldKeys = Missing]
          /\ Touches(p, [proc[p] EXCEPT !.pc = "have"])
     ELSE Becomes(p, [proc[p] EXCEPT !.pc = "have"]) /\ UNCHANGED fs
  /\ Quiet /\ UNCHANGED <<honoured, mixed>>

\* The caller's change, if it has one, is saved.
SaveKeys(p) ==
  /\ proc[p].pc = "have"
  /\ CASE proc[p].call = "retain" ->
            Becomes(p, Saving(proc[p], "keys", Keys(proc[p].shares \cup {proc[p].share}), "end"))
       [] proc[p].call = "forget" /\ proc[p].share \in proc[p].shares ->
            Becomes(p, Saving(proc[p], "keys", Keys(proc[p].shares \ {proc[p].share}), "end"))
       [] OTHER -> Ends(p)
  /\ LET forgotten == IF proc[p].call = "forget" THEN {proc[p].share} ELSE {}
     IN owed' = owed \ forgotten /\ inherited' = inherited \ forgotten
  /\ UNCHANGED <<fs, expired, used, calls, faults, over, honoured, mixed>>

Begin(p) ==
  \/ LoadCredential(p) \/ PrepareLoginSigningKey(p) \/ RefreshTrust(p) \/ Lookup(p)
  \/ \E t \in Token : Login(p, t) \/ Logout(p, t)
  \/ \E s \in Share : RetainContentKey(p, s) \/ ForgetRetainedKey(p, s)
  \/ LoadPendingReseal(p)

Step(p) ==
  \/ Truncate(p) \/ Fill(p) \/ FillFails(p) \/ Crash(p)
  \/ ReadCred(p) \/ ReadOldCred(p) \/ Migrate(p) \/ SavePrepared(p) \/ SaveLogin(p) \/ EndLoad(p)
  \/ SaveSignedTrust(p) \/ BindAccount(p) \/ ReadTrust(p) \/ Verify(p)
  \/ RemoveCred(p) \/ RemoveOldCred(p) \/ RemoveOldKeys(p) \/ RemoveKeys(p)
  \/ ReadKeys(p) \/ ReadOldKeys(p) \/ Prune(p) \/ DropOld(p) \/ SaveKeys(p)

Next == (\E p \in Process : Begin(p) \/ Step(p)) \/ (\E s \in Share : Expire(s))

Spec == Init /\ [][Next]_vars

-----------------------------------------------------------------------------
(* Properties.                                                             *)

Tokens == {fs[path].token : path \in {q \in {"cred", "oldCred"} : fs[q].kind = "cred"}}
SharesAt(path) == IF fs[path].kind = "keys" THEN fs[path].shares ELSE {}

\* A logout that succeeded is final: its login does not come back by a migration from
\* the old place or any later call, and no content key it retained stays on disk.
\* (Assumed: no process saves what it made of files that have changed since.)
LogoutIsFinal ==
  ~mixed => /\ Tokens \cap over = {}
            /\ \A path \in KeyFile : \A s \in SharesAt(path) : Owner[s] \notin over

\* What DeleteCredential says it prevents, with nothing assumed of other processes: a
\* deleted login comes back.  (A load that has read the old file before the logout
\* migrates it after.)
DeletedStaysDeleted == Tokens \cap over = {}

\* A key whose retention succeeded stays in the store until its share is forgotten or
\* expires or a logout removes the store, through every interleaving of calls (under the
\* same assumption), failing write and dying process, with one exception: a store whose
\* write was cut off between truncation and its end holds nothing that can be read.
KeysAreKept ==
  ~mixed /\ fs["keys"] \notin {Empty, Torn} => owed \ expired \subseteq SharesAt("keys")

\* What the comment of pending_reseal.go says of retained keys, without the exception.
\* (SavePendingReseal writes in place, LoadPendingReseal ignores the error of the write
\* with which it prunes, and a store that does not parse is an error ever after.)
KeysSurvive ==
  ~mixed /\ (\A p \in Process : proc[p].pc = "idle")
    => owed \ expired \subseteq SharesAt("keys")

\* "A file left at the old path is migrated on first use": its keys are at one place or
\* the other as long as they are wanted.
OldKeysAreKept ==
  ~mixed /\ (\A p \in Process : proc[p].pc = "idle")
    => inherited \ expired \subseteq SharesAt("keys") \cup SharesAt("oldKeys")

\* No login ever honours the trusted devices of another account, whichever logins the
\* device has had and whenever the list was fetched.
TrustIsForLogin == ~mixed => \A h \in honoured : AccountOf[h[1]] = h[2]

\* What SaveTrustList says of the account a login learns, with nothing assumed of other
\* processes: it is that login's.  (A list fetched under one login is bound to another
\* one, without an account, that has come back meanwhile.)
AccountIsTheLogins == \A path \in {"cred", "oldCred"} :
  fs[path].kind = "cred" /\ fs[path].token # None
    => fs[path].account \in {None, AccountOf[fs[path].token]}
=============================================================================
