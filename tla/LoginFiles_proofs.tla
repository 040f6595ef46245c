-------------------------- MODULE LoginFiles_proofs --------------------------
(***************************************************************************)
(* Proofs about LoginFiles: for every set of processes, logins, accounts   *)
(* and shares, and every bound on calls and failures.                      *)
(***************************************************************************)
EXTENDS LoginFiles, TLAPS

Account == {AccountOf[t] : t \in Token} \cup {None}
Creds == [kind : {"cred"}, token : Token \cup {None}, account : Account,
          signing : BOOLEAN, schema : {0, 1}]
Stores == [kind : {"keys"}, shares : SUBSET Share]
Lists == [kind : {"trust"}, account : Account]
Spoiled == {Empty, Torn}
CredFile == {"cred", "oldCred"}

FilesOK ==
  /\ DOMAIN fs = {"cred", "oldCred", "keys", "oldKeys", "trust"}
  /\ fs["cred"] \in Creds \cup {Missing} \cup Spoiled
  /\ fs["oldCred"] \in Creds \cup {Missing} \cup Spoiled
  /\ fs["keys"] \in Stores \cup {Missing} \cup Spoiled
  /\ fs["oldKeys"] \in Stores \cup {Missing}
  /\ fs["trust"] \in Lists \cup {Missing}

CredCall == {"load", "prepare", "login", "refresh", "lookup"}
KeyCall == {"retain", "forget", "loadKeys"}
Removing == {"removeCred", "removeOldCred", "removeOldKeys", "removeKeys"}
Holding == {"readKeys", "readOldKeys", "prune", "dropOld", "have"}
Writing == {"truncate", "fill"}

CallRecord ==
  [pc : {"read", "readOld", "migrate", "loaded", "approved", "readTrust"} \cup Writing
        \cup Removing \cup Holding,
   call : CredCall \cup KeyCall \cup {"logout"},
   share : Share \cup {None}, token : Token \cup {None},
   cred : Creds, shares : SUBSET Share, adopted : BOOLEAN, account : Account,
   path : CredFile \cup {"keys"}, text : Creds \cup Stores \cup {Missing},
   next : {"end", "loaded", "migrate", "approved", "dropOld"}, stale : BOOLEAN]

WritesCred(r) == r.pc \in Writing /\ r.path \in CredFile
WritesKeys(r) == r.pc \in Writing /\ r.path = "keys"

\* Which calls are at which places, and what they write there.
Placed(r) ==
  /\ r.pc \in {"read", "readOld", "migrate", "loaded"} => r.call \in CredCall
  /\ r.pc = "approved" => r.call = "login"
  /\ r.pc = "readTrust" => r.call = "lookup"
  /\ r.pc \in Removing => r.call = "logout"
  /\ r.pc \in Holding => r.call \in KeyCall
  /\ r.call \in {"login", "logout"} => r.token \in Token
  /\ r.call \in {"retain", "forget"} => r.share \in Share
  /\ r.call = "login" => r.account = None
  /\ r.call \in {"prepare", "login"} /\ r.pc \in {"read", "readOld"} => r.cred.token = None
  /\ WritesCred(r) =>
       /\ r.call \in CredCall /\ r.text \in Creds
       /\ r.next \in {"end", "loaded", "migrate", "approved"}
       /\ r.next = "approved" => r.call = "login"
  /\ WritesKeys(r) => r.call \in KeyCall /\ r.text \in Stores /\ r.next \in {"end", "dropOld"}

CallOK(r) == r \in CallRecord /\ Placed(r)

ProcOK ==
  /\ proc \in [Process -> CallRecord \cup {Idle}]
  /\ \A p \in Busy : CallOK(proc[p])

CountsOK ==
  /\ expired \subseteq Share /\ used \subseteq Token /\ calls \in Nat /\ faults \in Nat
  /\ over \subseteq Token /\ owed \subseteq Share /\ inherited \subseteq Share
  /\ mixed \in BOOLEAN

TypeOK == FilesOK /\ ProcOK /\ CountsOK

-----------------------------------------------------------------------------
(* Accounts: who has which, and which lists were honoured.                 *)

\* A credential is for the account of its login, or for none.
Own(cred) ==
  cred.account = None \/ (cred.token # None /\ cred.account = AccountOf[cred.token])

OwnInHand(r) ==
  /\ Own(r.cred)
  /\ WritesCred(r) /\ ~r.stale => Own(r.text)
  /\ r.call = "refresh" /\ r.account # None => r.token # None /\ r.account = AccountOf[r.token]
  /\ r.call = "lookup" /\ r.pc # "readTrust" => r.account # None

AccountsAreOwn ==
  ~mixed =>
    /\ \A path \in CredFile : fs[path].kind = "cred" => Own(fs[path])
    /\ fs["trust"] # Missing => fs["trust"].account # None
    /\ \A p \in Busy : OwnInHand(proc[p])
    /\ \A h \in honoured : AccountOf[h[1]] = h[2]

-----------------------------------------------------------------------------
(* Retained keys.                                                          *)

Wanted == owed \ expired

KeysReachDisk ==
  /\ fs["keys"] = Missing => Wanted = {}
  /\ fs["keys"].kind = "keys" => Wanted \subseteq fs["keys"].shares

\* What a call that nobody has disturbed holds in hand.
WantedInHand(r) ==
  /\ r.pc = "readOldKeys" => Wanted = {}
  /\ r.pc \in {"prune", "dropOld", "have"} => Wanted \subseteq r.shares
  /\ WritesKeys(r) =>
       /\ Wanted \subseteq r.text.shares
       /\ r.next = "dropOld" => r.text.shares = r.shares
       /\ r.next = "end" /\ r.call = "retain" => r.share \in r.text.shares

WantedIsKept ==
  ~mixed => KeysReachDisk /\ \A p \in Busy : proc[p].stale \/ WantedInHand(proc[p])

-----------------------------------------------------------------------------
(* Logins that are over.                                                   *)

\* Every token seen anywhere is that of a login there has been.
UsedInHand(r) ==
  /\ r.token \in used \cup {None} /\ r.cred.token \in used \cup {None}
  /\ WritesCred(r) => r.text.token \in used \cup {None}

AllUsed ==
  /\ over \subseteq used
  /\ \A path \in CredFile : fs[path].kind = "cred" => fs[path].token \in used \cup {None}
  /\ \A p \in Busy : UsedInHand(proc[p])

\* The token of a login in progress is nowhere yet but in its own hands.
Foreign(t, r) ==
  /\ r.token # t /\ r.cred.token # t
  /\ WritesCred(r) => r.text.token # t

OnlyMine(t, r) ==
  /\ r.cred.token # t
  /\ WritesCred(r) /\ r.next # "end" => r.text.token # t

LoginIsFresh ==
  \A p \in Busy : proc[p].call = "login" =>
    /\ proc[p].token \notin over
    /\ \A path \in CredFile : fs[path].kind = "cred" => fs[path].token # proc[p].token
    /\ OnlyMine(proc[p].token, proc[p])
    /\ \A q \in Busy \ {p} : Foreign(proc[p].token, proc[q])

Live(shares) == \A s \in shares : Owner[s] \notin over

LiveInHand(r) ==
  /\ r.pc \notin {"read", "readOld"} => r.cred.token \notin over
  /\ WritesCred(r) => r.text.token \notin over
  /\ r.call \in KeyCall => Live(r.shares)
  /\ WritesKeys(r) => Live(r.text.shares)
  /\ r.call = "retain" => Owner[r.share] \notin over

\* What is on disk, and what an undisturbed call holds, is of no login that is over.
NothingIsOver ==
  ~mixed =>
    /\ \A path \in CredFile : fs[path].kind = "cred" => fs[path].token \notin over
    /\ \A path \in KeyFile : fs[path].kind = "keys" => Live(fs[path].shares)
    /\ \A p \in Busy : proc[p].stale \/ LiveInHand(proc[p])

\* How far an undisturbed logout has got.
Removed(r) ==
  /\ r.pc \in {"removeOldCred", "removeOldKeys", "removeKeys"} => fs["cred"] = Missing
  /\ r.pc \in {"removeOldKeys", "removeKeys"} => fs["oldCred"] = Missing
  /\ r.pc = "removeKeys" => fs["oldKeys"] = Missing

LogoutProgress == \A p \in Busy : proc[p].stale \/ Removed(proc[p])

IInv == AccountsAreOwn /\ WantedIsKept /\ AllUsed /\ LoginIsFresh /\ NothingIsOver
        /\ LogoutProgress

-----------------------------------------------------------------------------
(* What the steps of a call do to the calls of the processes.              *)

LEMMA InCall ==
  ASSUME TypeOK, NEW p \in Process, proc[p].pc # "idle"
  PROVE  p \in Busy /\ CallOK(proc[p])
BY DEF TypeOK, ProcOK, Busy

LEMMA CallIsBusy ==
  ASSUME NEW r \in CallRecord
  PROVE  r.pc # "idle" /\ r # Idle
<1>1. r.pc # "idle"
  BY DEF CallRecord, Writing, Removing, Holding
<1> QED
  BY <1>1 DEF Idle

\* r is the call o after a step of another process on a file.
Upset(r, o) ==
  /\ CallOK(r) /\ r.stale = TRUE
  /\ r.pc = o.pc /\ r.call = o.call /\ r.share = o.share /\ r.token = o.token
  /\ r.cred = o.cred /\ r.shares = o.shares /\ r.account = o.account
  /\ r.path = o.path /\ r.text = o.text /\ r.next = o.next

OthersStay(p) == \A q \in Process : q # p => proc'[q] = proc[q]
OthersUpset(p) == \A q \in Busy \ {p} : Upset(proc'[q], proc[q])

LEMMA Disturbed ==
  ASSUME NEW r, CallOK(r)
  PROVE  Upset([r EXCEPT !.stale = TRUE], r)
<1> DEFINE d == [r EXCEPT !.stale = TRUE]
<1>1. r \in CallRecord
  BY DEF CallOK
<1>2. d \in CallRecord
  BY <1>1 DEF CallRecord
<1>3. /\ d.stale = TRUE
      /\ d.pc = r.pc /\ d.call = r.call /\ d.share = r.share /\ d.token = r.token
      /\ d.cred = r.cred /\ d.shares = r.shares /\ d.account = r.account
      /\ d.path = r.path /\ d.text = r.text /\ d.next = r.next
  BY <1>1 DEF CallRecord
<1> HIDE DEF d
<1>4. Placed(d)
  BY <1>3 DEF CallOK, Placed, WritesCred, WritesKeys
<1> QED
  BY <1>2, <1>3, <1>4 DEF CallOK, Upset, d

LEMMA BecomesOne ==
  ASSUME TypeOK, NEW p \in Process, NEW r, r = Idle \/ CallOK(r), Becomes(p, r)
  PROVE  /\ ProcOK' /\ proc'[p] = r /\ OthersStay(p)
         /\ Busy' = (Busy \ {p}) \cup (IF r = Idle THEN {} ELSE {p})
<1> USE DEF OthersStay
<1>1. /\ proc'[p] = r
      /\ \A q \in Process : q # p => proc'[q] = proc[q]
      /\ proc' \in [Process -> CallRecord \cup {Idle}]
  BY DEF TypeOK, ProcOK, Becomes, CallOK
<1>2. Busy' = (Busy \ {p}) \cup (IF r = Idle THEN {} ELSE {p})
  <2>1. r.pc = "idle" <=> r = Idle
    BY CallIsBusy DEF Idle, CallOK
  <2> QED
    BY <1>1, <2>1 DEF Busy
<1>3. \A q \in Busy' : CallOK(proc'[q])
  BY <1>1, <1>2 DEF TypeOK, ProcOK, Busy
<1> QED
  BY <1>1, <1>2, <1>3 DEF ProcOK

LEMMA TouchesOne ==
  ASSUME TypeOK, NEW p \in Process, NEW r, r = Idle \/ CallOK(r), Touches(p, r)
  PROVE  /\ ProcOK' /\ proc'[p] = r /\ OthersUpset(p)
         /\ Busy' = (Busy \ {p}) \cup (IF r = Idle THEN {} ELSE {p})
<1>1. /\ proc'[p] = r
      /\ \A q \in Process : q # p =>
           proc'[q] = IF q \in Busy THEN [proc[q] EXCEPT !.stale = TRUE] ELSE proc[q]
  BY DEF Touches
<1>2. \A q \in Busy \ {p} : Upset(proc'[q], proc[q]) /\ CallOK(proc'[q])
  <2> SUFFICES ASSUME NEW q \in Busy \ {p}
               PROVE  Upset(proc'[q], proc[q]) /\ CallOK(proc'[q])
    OBVIOUS
  <2>1. CallOK(proc[q]) /\ proc'[q] = [proc[q] EXCEPT !.stale = TRUE]
    BY <1>1 DEF TypeOK, ProcOK, Busy
  <2>2. Upset(proc'[q], proc[q])
    BY <2>1, Disturbed
  <2> QED
    BY <2>2 DEF Upset
<1>3. proc' \in [Process -> CallRecord \cup {Idle}]
  <2>1. \A q \in Process : proc'[q] \in CallRecord \cup {Idle}
    <3> SUFFICES ASSUME NEW q \in Process PROVE proc'[q] \in CallRecord \cup {Idle}
      OBVIOUS
    <3> QED
      BY <1>1, <1>2 DEF CallOK, TypeOK, ProcOK
  <2> QED
    BY <2>1, Zenon DEF Touches
<1>4. Busy' = (Busy \ {p}) \cup (IF r = Idle THEN {} ELSE {p})
  <2>1. r.pc = "idle" <=> r = Idle
    BY CallIsBusy DEF Idle, CallOK
  <2>2. \A q \in Process : q # p => (proc'[q].pc # "idle" <=> proc[q].pc # "idle")
    <3> SUFFICES ASSUME NEW q \in Process, q # p
                 PROVE  proc'[q].pc # "idle" <=> proc[q].pc # "idle"
      OBVIOUS
    <3>1. CASE q \in Busy
      BY <1>2, <3>1, CallIsBusy DEF CallOK, Busy
    <3>2. CASE q \notin Busy
      BY <1>1, <3>2 DEF Busy
    <3> QED
      BY <3>1, <3>2
  <2> QED
    BY <1>1, <2>1, <2>2 DEF Busy
<1>5. \A q \in Busy' : CallOK(proc'[q])
  BY <1>1, <1>2, <1>4
<1> QED
  BY <1>1, <1>2, <1>3, <1>4, <1>5 DEF ProcOK, OthersUpset

LEMMA KindsOfText ==
  /\ \A x \in Creds : x.kind = "cred" /\ x \notin Stores /\ x # Missing /\ x \notin Spoiled
  /\ \A x \in Stores : x.kind = "keys" /\ x # Missing /\ x \notin Spoiled
  /\ Missing.kind = "missing" /\ Empty.kind = "empty" /\ Torn.kind = "torn"
  /\ Missing # Empty /\ Missing # Torn
<1>1. \A x \in Creds : x.kind = "cred"
  BY DEF Creds
<1>2. \A x \in Stores : x.kind = "keys"
  BY DEF Stores
<1>3. Missing.kind = "missing" /\ Empty.kind = "empty" /\ Torn.kind = "torn"
  BY DEF Missing, Empty, Torn
<1> QED
  BY <1>1, <1>2, <1>3 DEF Spoiled

LEMMA KindsOfFile ==
  ASSUME TypeOK
  PROVE  /\ fs["cred"].kind = "cred" => fs["cred"] \in Creds
         /\ fs["oldCred"].kind = "cred" => fs["oldCred"] \in Creds
         /\ fs["keys"].kind = "keys" => fs["keys"] \in Stores
         /\ fs["oldKeys"].kind = "keys" => fs["oldKeys"] \in Stores
BY KindsOfText DEF TypeOK, FilesOK, Spoiled

(* Writing a file.                                                         *)
LEMMA LeavesType ==
  ASSUME TypeOK, NEW p \in Process, CallOK(proc[p]), proc[p].pc = "fill",
         NEW text, text = proc[p].text \/ text = Torn,
         NEW left \in Leaves(p, text), fs' = [fs EXCEPT ![proc[p].path] = left]
  PROVE  FilesOK'
<1>1. WritesCred(proc[p]) \/ WritesKeys(proc[p])
  BY DEF CallOK, CallRecord, WritesCred, WritesKeys, Writing
<1>2. left \in {text, fs[proc[p].path], Torn, Missing}
  BY DEF Leaves
<1>3. CASE WritesCred(proc[p])
  <2>1. proc[p].text \in Creds /\ proc[p].path \in CredFile
    BY <1>3 DEF CallOK, Placed, WritesCred
  <2> QED
    BY <1>2, <2>1 DEF TypeOK, FilesOK, CredFile, Spoiled
<1>4. CASE WritesKeys(proc[p])
  <2>1. proc[p].text \in Stores /\ proc[p].path = "keys"
    BY <1>4 DEF CallOK, Placed, WritesKeys
  <2> QED
    BY <1>2, <2>1 DEF TypeOK, FilesOK, Spoiled
<1> QED
  BY <1>1, <1>3, <1>4

LEMMA TruncateType ==
  ASSUME TypeOK, NEW p \in Process, Truncate(p)
  PROVE  /\ TypeOK' /\ p \in Busy /\ Busy' = Busy /\ OthersUpset(p)
         /\ CallOK(proc[p]) /\ proc[p].pc = "truncate" /\ proc'[p].pc = "fill"
         /\ LET r == proc'[p] o == proc[p]
            IN /\ r.call = o.call /\ r.share = o.share /\ r.token = o.token /\ r.cred = o.cred
               /\ r.shares = o.shares /\ r.account = o.account /\ r.path = o.path
               /\ r.text = o.text /\ r.next = o.next /\ r.stale = o.stale
         /\ WritesCred(proc'[p]) <=> WritesCred(proc[p])
         /\ WritesKeys(proc'[p]) <=> WritesKeys(proc[p])
<1> DEFINE r == [proc[p] EXCEPT !.pc = "fill"]
<1>1. CallOK(proc[p]) /\ proc[p].pc = "truncate"
  BY InCall DEF Truncate
<1>2. r \in CallRecord
  BY <1>1 DEF CallOK, CallRecord, Writing
<1>3. Placed(r)
  BY <1>1 DEF CallOK, CallRecord, Placed, WritesCred, WritesKeys, Writing, Removing, Holding
<1>4. ProcOK' /\ proc'[p] = r /\ OthersUpset(p) /\ Busy' = Busy /\ p \in Busy
  <2>1. CallOK(r) /\ r # Idle
    BY <1>2, <1>3, CallIsBusy DEF CallOK
  <2>2. Touches(p, r)
    BY DEF Truncate
  <2> QED
    BY <1>1, <2>1, <2>2, TouchesOne DEF Busy
<1>5. proc[p].path \in CredFile \cup {"keys"}
  BY <1>1 DEF CallOK, CallRecord
<1>6. FilesOK'
  BY <1>5 DEF Truncate, TypeOK, FilesOK, CredFile, Spoiled
<1>7. CountsOK'
  BY <1>1 DEF Truncate, TypeOK, CountsOK, CallOK, CallRecord
<1>8. LET o == proc[p]
      IN /\ r.pc = "fill"
         /\ r.call = o.call /\ r.share = o.share /\ r.token = o.token /\ r.cred = o.cred
         /\ r.shares = o.shares /\ r.account = o.account /\ r.path = o.path
         /\ r.text = o.text /\ r.next = o.next /\ r.stale = o.stale
  BY <1>1 DEF CallOK, CallRecord
<1>9. (WritesCred(r) <=> WritesCred(proc[p])) /\ (WritesKeys(r) <=> WritesKeys(proc[p]))
  BY <1>1, <1>8 DEF WritesCred, WritesKeys, Writing
<1> HIDE DEF r
<1> QED
  BY <1>1, <1>4, <1>6, <1>7, <1>8, <1>9 DEF TypeOK

\* r is the call o, which has left its write for the place named by next.
WentOn(r, o) ==
  /\ CallOK(r) /\ r # Idle /\ r.pc = o.next /\ ~WritesCred(r) /\ ~WritesKeys(r)
  /\ r.call = o.call /\ r.share = o.share /\ r.token = o.token /\ r.cred = o.cred
  /\ r.shares = o.shares /\ r.account = o.account /\ r.stale = o.stale

LEMMA FillType ==
  ASSUME TypeOK, NEW p \in Process, Fill(p)
  PROVE  /\ TypeOK' /\ p \in Busy /\ OthersUpset(p)
         /\ CallOK(proc[p]) /\ proc[p].pc = "fill"
         /\ IF proc[p].next = "end" THEN proc'[p] = Idle /\ Busy' = Busy \ {p}
            ELSE WentOn(proc'[p], proc[p]) /\ Busy' = Busy
<1> DEFINE g == [proc[p] EXCEPT !.pc = proc[p].next, !.text = Missing, !.next = "end"]
           r == IF proc[p].next = "end" THEN Idle ELSE g
<1>1. CallOK(proc[p]) /\ proc[p].pc = "fill"
  BY InCall DEF Fill
<1>2. proc[p].next # "end" => CallOK(g) /\ WentOn(g, proc[p])
  <2> SUFFICES ASSUME proc[p].next # "end" PROVE CallOK(g) /\ WentOn(g, proc[p])
    OBVIOUS
  <2>1. g \in CallRecord
    BY <1>1 DEF CallOK, CallRecord, Holding
  <2>2. /\ g.pc = proc[p].next /\ g.call = proc[p].call /\ g.token = proc[p].token
        /\ g.share = proc[p].share /\ g.account = proc[p].account /\ g.cred = proc[p].cred
        /\ g.shares = proc[p].shares /\ g.stale = proc[p].stale
    BY <1>1 DEF CallOK, CallRecord
  <2>3. \/ proc[p].call \in CredCall /\ g.pc \in {"loaded", "migrate", "approved"}
           /\ (g.pc = "approved" => g.call = "login")
        \/ proc[p].call \in KeyCall /\ g.pc = "dropOld"
    BY <1>1, <2>2 DEF CallOK, CallRecord, Placed, WritesCred, WritesKeys, Writing
  <2> HIDE DEF g
  <2>4. Placed(g)
    BY <1>1, <2>2, <2>3 DEF CallOK, Placed, WritesCred, WritesKeys, Writing, Removing, Holding
  <2>5. ~WritesCred(g) /\ ~WritesKeys(g)
    BY <2>2, <2>3 DEF WritesCred, WritesKeys, Writing
  <2> QED
    BY <2>1, <2>2, <2>4, <2>5, CallIsBusy DEF CallOK, WentOn
<1>3. /\ ProcOK' /\ proc'[p] = r /\ OthersUpset(p) /\ p \in Busy
      /\ Busy' = (Busy \ {p}) \cup (IF r = Idle THEN {} ELSE {p})
  <2>1. r = Idle \/ CallOK(r)
    BY <1>2
  <2> HIDE DEF g
  <2>2. Touches(p, r)
    BY DEF Fill, g
  <2>3. p \in Busy
    BY <1>1 DEF Busy
  <2> QED
    BY <2>1, <2>2, <2>3, TouchesOne
<1>4. FilesOK'
  BY <1>1, LeavesType DEF Fill
<1>5. CountsOK'
  BY <1>1 DEF Fill, TypeOK, CountsOK, CallOK, CallRecord, Placed
<1>6. IF proc[p].next = "end" THEN proc'[p] = Idle /\ Busy' = Busy \ {p}
      ELSE WentOn(proc'[p], proc[p]) /\ Busy' = Busy
  <2> HIDE DEF g
  <2> QED
    BY <1>2, <1>3 DEF WentOn
<1> QED
  BY <1>1, <1>3, <1>4, <1>5, <1>6 DEF TypeOK

LEMMA FillFailsType ==
  ASSUME TypeOK, NEW p \in Process, FillFails(p)
  PROVE  /\ TypeOK' /\ p \in Busy /\ OthersUpset(p)
         /\ CallOK(proc[p]) /\ proc[p].pc = "fill"
         /\ \/ proc'[p] = Idle /\ Busy' = Busy \ {p}
            \/ /\ proc[p].next \in {"loaded", "migrate", "dropOld"}
               /\ WentOn(proc'[p], proc[p]) /\ Busy' = Busy
<1> DEFINE g == [proc[p] EXCEPT !.pc = proc[p].next]
           r == IF proc[p].next \in {"loaded", "migrate", "dropOld"} THEN g ELSE Idle
<1>1. CallOK(proc[p]) /\ proc[p].pc = "fill"
  BY InCall DEF FillFails
<1>2. proc[p].next \in {"loaded", "migrate", "dropOld"}
        => CallOK(g) /\ WentOn(g, proc[p])
  <2> SUFFICES ASSUME proc[p].next \in {"loaded", "migrate", "dropOld"}
               PROVE  CallOK(g) /\ WentOn(g, proc[p])
    OBVIOUS
  <2>1. g \in CallRecord
    BY <1>1 DEF CallOK, CallRecord, Holding
  <2>2. /\ g.pc = proc[p].next /\ g.call = proc[p].call /\ g.token = proc[p].token
        /\ g.share = proc[p].share /\ g.account = proc[p].account /\ g.cred = proc[p].cred
        /\ g.shares = proc[p].shares /\ g.stale = proc[p].stale
    BY <1>1 DEF CallOK, CallRecord
  <2>3. \/ proc[p].call \in CredCall /\ g.pc \in {"loaded", "migrate"}
        \/ proc[p].call \in KeyCall /\ g.pc = "dropOld"
    BY <1>1, <2>2 DEF CallOK, CallRecord, Placed, WritesCred, WritesKeys, Writing
  <2> HIDE DEF g
  <2>4. Placed(g)
    BY <1>1, <2>2, <2>3 DEF CallOK, Placed, WritesCred, WritesKeys, Writing, Removing, Holding
  <2>5. ~WritesCred(g) /\ ~WritesKeys(g)
    BY <2>2, <2>3 DEF WritesCred, WritesKeys, Writing
  <2> QED
    BY <2>1, <2>2, <2>4, <2>5, CallIsBusy DEF CallOK, WentOn
<1>3. /\ ProcOK' /\ proc'[p] = r /\ OthersUpset(p) /\ p \in Busy
      /\ Busy' = (Busy \ {p}) \cup (IF r = Idle THEN {} ELSE {p})
  <2>1. r = Idle \/ CallOK(r)
    BY <1>2
  <2> HIDE DEF g
  <2>2. Touches(p, r)
    BY DEF FillFails, g
  <2>3. p \in Busy
    BY <1>1 DEF Busy
  <2> QED
    BY <2>1, <2>2, <2>3, TouchesOne
<1>4. FilesOK'
  BY <1>1, LeavesType DEF FillFails
<1>5. CountsOK'
  BY DEF FillFails, TypeOK, CountsOK
<1>6. \/ proc'[p] = Idle /\ Busy' = Busy \ {p}
      \/ /\ proc[p].next \in {"loaded", "migrate", "dropOld"}
         /\ WentOn(proc'[p], proc[p]) /\ Busy' = Busy
  <2> HIDE DEF g
  <2> QED
    BY <1>2, <1>3 DEF WentOn
<1> QED
  BY <1>1, <1>3, <1>4, <1>5, <1>6 DEF TypeOK

LEMMA CrashType ==
  ASSUME TypeOK, NEW p \in Process, Crash(p)
  PROVE  /\ TypeOK' /\ CallOK(proc[p]) /\ OthersStay(p) /\ proc'[p] = Idle
         /\ Busy' = Busy \ {p}
<1>1. ProcOK' /\ OthersStay(p) /\ proc'[p] = Idle /\ Busy' = Busy \ {p}
  BY BecomesOne DEF Crash
<1>2. FilesOK' /\ CountsOK'
  BY DEF Crash, TypeOK, FilesOK, CountsOK
<1>3. CallOK(proc[p])
  BY DEF Crash, TypeOK, ProcOK
<1> QED
  BY <1>1, <1>2, <1>3 DEF TypeOK

LEMMA ExpireType == ASSUME TypeOK, NEW s \in Share, Expire(s) PROVE TypeOK'
<1>1. FilesOK' /\ CountsOK'
  BY DEF Expire, TypeOK, FilesOK, CountsOK
<1>2. ProcOK'
  BY DEF Expire, TypeOK, ProcOK, Busy
<1> QED
  BY <1>1, <1>2 DEF TypeOK

(* The beginning of a call.                                                *)
Begun(r, call, at, share, token) ==
  /\ r.pc = at /\ r.call = call /\ r.share = share /\ r.token = token /\ r.cred = NoCred
  /\ r.shares = {} /\ r.account = None /\ r.stale = FALSE

LEMMA NoCredType == NoCred \in Creds /\ NoCred.token = None /\ NoCred.account = None
BY DEF NoCred, Cred, Creds, Account

LEMMA StartType ==
  ASSUME TypeOK, NEW p \in Process, NEW call, NEW at,
         NEW share \in Share \cup {None}, NEW token \in Token \cup {None},
         Start(p, call, at, share, token),
         \/ call \in CredCall /\ at = "read" /\ (call = "login" => token \in Token)
         \/ call = "lookup" /\ at = "readTrust"
         \/ call = "logout" /\ at = "removeCred" /\ token \in Token
         \/ call \in KeyCall /\ at = "readKeys" /\ (call # "loadKeys" => share \in Share)
  PROVE  /\ FilesOK' /\ ProcOK' /\ Begun(proc'[p], call, at, share, token)
         /\ OthersStay(p) /\ Busy' = Busy \cup {p} /\ p \notin Busy
<1> DEFINE r == [pc |-> at, call |-> call, share |-> share, token |-> token, cred |-> NoCred,
                 shares |-> {}, adopted |-> FALSE, account |-> None, path |-> "cred",
                 text |-> Missing, next |-> "end", stale |-> FALSE]
<1>1. r \in CallRecord
  BY NoCredType DEF CallRecord, CredCall, KeyCall, Removing, Holding, Account, CredFile
<1>2. Begun(r, call, at, share, token)
  BY DEF Begun
<1>3. Becomes(p, r)
  BY DEF Start
<1>4. UNCHANGED fs /\ proc[p] = Idle
  BY DEF Start
<1> HIDE DEF r
<1>5. Placed(r)
  BY <1>2, NoCredType
  DEF Begun, Placed, WritesCred, WritesKeys, Writing, Removing, Holding, CredCall, KeyCall
<1>6. CallOK(r) /\ r # Idle
  BY <1>1, <1>5, CallIsBusy DEF CallOK
<1>7. p \notin Busy
  BY <1>4 DEF Busy, Idle
<1> QED
  BY <1>2, <1>3, <1>4, <1>6, <1>7, BecomesOne DEF TypeOK, FilesOK

(* Every call that may begin, and what is known of it then.                *)
Begins(p, call, at, share, token) ==
  /\ Start(p, call, at, share, token)
  /\ share \in Share \cup {None} /\ token \in Token \cup {None}
  /\ \/ call \in CredCall \ {"login", "lookup"} /\ at = "read" /\ token = None /\ used' = used
     \/ call = "lookup" /\ at = "readTrust" /\ token = None /\ used' = used
     \/ /\ call = "login" /\ at = "read" /\ token \in Token \ used
        /\ used' = used \cup {token}
     \/ /\ call = "logout" /\ at = "removeCred" /\ token \in used /\ used' = used
        /\ fs["cred"].kind = "cred" /\ fs["cred"].token = token
     \/ /\ call = "retain" /\ at = "readKeys" /\ token = None /\ used' = used
        /\ share \in Share /\ fs["cred"].kind = "cred" /\ fs["cred"].token = Owner[share]
     \/ call = "forget" /\ at = "readKeys" /\ token = None /\ share \in Share /\ used' = used
     \/ call = "loadKeys" /\ at = "readKeys" /\ token = None /\ used' = used
  /\ UNCHANGED <<owed, inherited>>

LEMMA BeginBegins ==
  ASSUME TypeOK, NEW p \in Process, Begin(p)
  PROVE  \E call, at, share, token : Begins(p, call, at, share, token)
<1> USE DEF Begins, CredCall
<1>1. CASE LoadCredential(p)
  <2>1. Begins(p, "load", "read", None, None)
    BY <1>1 DEF LoadCredential
  <2> QED
    BY <2>1
<1>2. CASE PrepareLoginSigningKey(p)
  <2>1. Begins(p, "prepare", "read", None, None)
    BY <1>2 DEF PrepareLoginSigningKey
  <2> QED
    BY <2>1
<1>3. CASE RefreshTrust(p)
  <2>1. Begins(p, "refresh", "read", None, None)
    BY <1>3 DEF RefreshTrust
  <2> QED
    BY <2>1
<1>4. CASE Lookup(p)
  <2>1. Begins(p, "lookup", "readTrust", None, None)
    BY <1>4 DEF Lookup
  <2> QED
    BY <2>1
<1>5. ASSUME NEW t \in Token, Login(p, t)
      PROVE  Begins(p, "login", "read", None, t)
  BY <1>5 DEF Login
<1>6. ASSUME NEW t \in Token, Logout(p, t)
      PROVE  Begins(p, "logout", "removeCred", None, t)
  BY <1>6 DEF Logout
<1>7. ASSUME NEW s \in Share, RetainContentKey(p, s)
      PROVE  Begins(p, "retain", "readKeys", s, None)
  BY <1>7 DEF RetainContentKey
<1>8. ASSUME NEW s \in Share, ForgetRetainedKey(p, s)
      PROVE  Begins(p, "forget", "readKeys", s, None)
  BY <1>8 DEF ForgetRetainedKey
<1>9. CASE LoadPendingReseal(p)
  <2>1. Begins(p, "loadKeys", "readKeys", None, None)
    BY <1>9 DEF LoadPendingReseal
  <2> QED
    BY <2>1
<1> HIDE DEF Begins
<1> QED
  BY <1>1, <1>2, <1>3, <1>4, <1>5, <1>6, <1>7, <1>8, <1>9 DEF Begin

LEMMA BeginType ==
  ASSUME TypeOK, NEW p \in Process,
         NEW call, NEW at, NEW share, NEW token, Begins(p, call, at, share, token)
  PROVE  /\ TypeOK' /\ Begun(proc'[p], call, at, share, token)
         /\ OthersStay(p) /\ Busy' = Busy \cup {p} /\ p \notin Busy
         /\ UNCHANGED <<fs, expired, faults, over, honoured, mixed, owed, inherited>>
<1>1. /\ FilesOK' /\ ProcOK' /\ Begun(proc'[p], call, at, share, token)
      /\ OthersStay(p) /\ Busy' = Busy \cup {p} /\ p \notin Busy
  BY StartType DEF Begins, CredCall, KeyCall, TypeOK, CountsOK
<1>2. UNCHANGED <<fs, expired, faults, over, honoured, mixed, owed, inherited>>
  BY DEF Begins, Start
<1>3. CountsOK'
  BY <1>2 DEF Begins, Start, TypeOK, CountsOK
<1> QED
  BY <1>1, <1>2, <1>3 DEF TypeOK

(* The record of a call that is about to save text, or has moved on.       *)
LEMMA SavingOK ==
  ASSUME NEW r, CallOK(r), NEW path, NEW text, NEW next,
         \/ /\ r.call \in CredCall /\ path \in CredFile /\ text \in Creds
            /\ next \in {"end", "loaded", "migrate", "approved"}
            /\ next = "approved" => r.call = "login"
         \/ r.call \in KeyCall /\ path = "keys" /\ text \in Stores /\ next \in {"end", "dropOld"}
  PROVE  LET w == Saving(r, path, text, next)
         IN /\ CallOK(w) /\ w # Idle
            /\ w.pc = "truncate" /\ w.path = path /\ w.text = text /\ w.next = next
            /\ w.call = r.call /\ w.share = r.share /\ w.token = r.token /\ w.cred = r.cred
            /\ w.shares = r.shares /\ w.account = r.account /\ w.stale = r.stale
            /\ WritesCred(w) <=> path \in CredFile
            /\ WritesKeys(w) <=> path = "keys"
<1> DEFINE w == Saving(r, path, text, next)
<1>1. w \in CallRecord
  BY DEF CallOK, CallRecord, Saving, Writing
<1>2. /\ w.pc = "truncate" /\ w.path = path /\ w.text = text /\ w.next = next
      /\ w.call = r.call /\ w.share = r.share /\ w.token = r.token /\ w.cred = r.cred
      /\ w.shares = r.shares /\ w.account = r.account /\ w.stale = r.stale
  BY DEF CallOK, CallRecord, Saving
<1> HIDE DEF w
<1>3. /\ WritesCred(w) <=> path \in CredFile
      /\ WritesKeys(w) <=> path = "keys"
  BY <1>2 DEF WritesCred, WritesKeys, Writing
<1>4. Placed(w)
  BY <1>2 DEF CallOK, Placed, WritesCred, WritesKeys, Writing, Removing, Holding, CredCall,
              KeyCall, CredFile
<1> QED
  BY <1>1, <1>2, <1>3, <1>4, CallIsBusy DEF CallOK, w

LEMMA MovedOK ==
  ASSUME NEW r, CallOK(r), NEW to,
         \/ r.call \in CredCall /\ to \in {"migrate", "loaded"}
         \/ r.call \in CredCall \ {"prepare", "login"} /\ to \in {"read", "readOld"}
         \/ r.pc = "read" /\ to = "readOld"
         \/ r.call = "logout" /\ to \in Removing
         \/ r.call \in KeyCall /\ to \in Holding
  PROVE  LET m == [r EXCEPT !.pc = to]
         IN /\ CallOK(m) /\ m # Idle
            /\ m.pc = to /\ m.call = r.call /\ m.share = r.share /\ m.token = r.token
            /\ m.cred = r.cred /\ m.shares = r.shares /\ m.account = r.account
            /\ m.stale = r.stale /\ m.adopted = r.adopted /\ ~WritesCred(m) /\ ~WritesKeys(m)
<1> DEFINE m == [r EXCEPT !.pc = to]
<1>1. m \in CallRecord
  BY DEF CallOK, CallRecord, Removing, Holding
<1>2. /\ m.pc = to /\ m.call = r.call /\ m.share = r.share /\ m.token = r.token
      /\ m.cred = r.cred /\ m.shares = r.shares /\ m.account = r.account
      /\ m.stale = r.stale /\ m.adopted = r.adopted
  BY DEF CallOK, CallRecord
<1> HIDE DEF m
<1>3. ~WritesCred(m) /\ ~WritesKeys(m)
  BY <1>2 DEF WritesCred, WritesKeys, Writing, Removing, Holding
<1>4. Placed(m)
  BY <1>2, <1>3 DEF CallOK, Placed, Writing, Removing, Holding, CredCall, KeyCall
<1> QED
  BY <1>1, <1>2, <1>3, <1>4, CallIsBusy DEF CallOK, m

LEMMA QuietCounts ==
  ASSUME TypeOK, Quiet, mixed' = mixed
  PROVE  CountsOK'
BY DEF TypeOK, CountsOK, Quiet

LEMMA ReadsOnlyKeeps ==
  ASSUME TypeOK, ReadsOnly
  PROVE  FilesOK' /\ CountsOK' /\ fs' = fs
         /\ UNCHANGED <<expired, used, over, owed, honoured, mixed>>
BY QuietCounts DEF ReadsOnly, TypeOK, FilesOK, Quiet

(* What LoadCredentialAt makes of a credential it has read.                *)
LoadedAs(r, at, next, cred, path, stale) ==
  /\ CallOK(r) /\ r # Idle
  /\ r.cred = Upgraded(cred)
  /\ r.call = at.call /\ r.share = at.share /\ r.token = at.token /\ r.account = at.account
  /\ r.shares = at.shares /\ r.stale = stale
  /\ \/ r.pc = next /\ ~WritesCred(r) /\ ~WritesKeys(r)
     \/ r.pc = "truncate" /\ r.path = path /\ r.next = next /\ r.text = Upgraded(cred)

LEMMA UpgradedType ==
  ASSUME NEW cred \in Creds
  PROVE  LET u == Upgraded(cred)
         IN u \in Creds /\ u.token = cred.token /\ u.account = cred.account
BY DEF Creds, Upgraded

LEMMA LoadsAs ==
  ASSUME TypeOK, NEW p \in Process, CallOK(proc[p]), NEW cred \in Creds,
         NEW path \in CredFile, NEW next \in {"loaded", "migrate"},
         proc[p].call \in CredCall, Loads(p, path, cred, next)
  PROVE  /\ ProcOK'
         /\ LoadedAs(proc'[p], proc[p], next, cred, path, path # "cred" /\ proc[p].stale)
         /\ OthersStay(p) /\ Busy' = Busy \cup {p}
<1> DEFINE old == proc[p]
           r == [old EXCEPT !.cred = Upgraded(cred), !.stale = (path # "cred" /\ @)]
           m == [old EXCEPT !.cred = Upgraded(cred), !.stale = (path # "cred" /\ @), !.pc = next]
           w == Saving(m, path, Upgraded(cred), next)
           new == IF cred.schema = 0 /\ cred.token # None THEN Saving(r, path, Upgraded(cred), next)
                  ELSE [r EXCEPT !.pc = next]
<1>1. Upgraded(cred) \in Creds
  BY UpgradedType
<1>2. m \in CallRecord
  <2>1. \A b \in BOOLEAN :
          [old EXCEPT !.cred = Upgraded(cred), !.stale = b, !.pc = next] \in CallRecord
    BY <1>1 DEF CallOK, CallRecord
  <2>2. (path # "cred" /\ old.stale) \in BOOLEAN
    OBVIOUS
  <2>3. m = [old EXCEPT !.cred = Upgraded(cred), !.stale = (path # "cred" /\ old.stale),
                        !.pc = next]
    OBVIOUS
  <2> QED
    BY <2>1, <2>2, <2>3, Zenon
<1>3. /\ m.pc = next /\ m.cred = Upgraded(cred) /\ m.stale = (path # "cred" /\ old.stale)
      /\ m.call = old.call /\ m.share = old.share /\ m.token = old.token
      /\ m.shares = old.shares /\ m.account = old.account
  BY DEF CallOK, CallRecord
<1>4. [r EXCEPT !.pc = next] = m
  BY DEF CallOK, CallRecord
<1>5. Saving(r, path, Upgraded(cred), next) = w
  BY DEF CallOK, CallRecord, Saving
<1>6. Becomes(p, new)
  BY DEF Loads
<1> HIDE DEF m
<1>7. Placed(m)
  BY <1>3 DEF CallOK, Placed, WritesCred, WritesKeys, Writing, Removing, Holding, CredCall,
              KeyCall
<1>8. CallOK(m) /\ m # Idle /\ ~WritesCred(m) /\ ~WritesKeys(m)
  BY <1>2, <1>3, <1>7, CallIsBusy DEF CallOK, WritesCred, WritesKeys, Writing
<1>9. /\ CallOK(w) /\ w # Idle
      /\ w.pc = "truncate" /\ w.path = path /\ w.text = Upgraded(cred) /\ w.next = next
      /\ w.call = m.call /\ w.share = m.share /\ w.token = m.token /\ w.cred = m.cred
      /\ w.shares = m.shares /\ w.account = m.account /\ w.stale = m.stale
  BY <1>1, <1>3, <1>8, SavingOK
<1>10. new = m \/ new = w
  BY <1>4, <1>5
<1> HIDE DEF w, new
<1>11. LoadedAs(new, old, next, cred, path, path # "cred" /\ old.stale)
  <2>1. CASE new = m
    BY <1>3, <1>8, <2>1 DEF LoadedAs
  <2>2. CASE new = w
    BY <1>3, <1>9, <2>2 DEF LoadedAs
  <2> QED
    BY <1>10, <2>1, <2>2
<1>12. CallOK(new) /\ new # Idle
  BY <1>8, <1>9, <1>10
<1> QED
  BY <1>6, <1>11, <1>12, BecomesOne

-----------------------------------------------------------------------------
(* The steps that only read.                                               *)

\* Process p, in a call, reads; r is its call o at another place, or about to save.
Reads(p) ==
  /\ TypeOK' /\ p \in Busy /\ CallOK(proc[p]) /\ OthersStay(p)
  /\ UNCHANGED <<fs, expired, used, over, owed, honoured, mixed>>

Same(r, o) ==
  /\ CallOK(r) /\ r # Idle
  /\ r.call = o.call /\ r.share = o.share /\ r.token = o.token /\ r.cred = o.cred

IsAt(r, o, to) ==
  Same(r, o) /\ r.pc = to /\ r.account = o.account /\ ~WritesCred(r) /\ ~WritesKeys(r)

IsSaving(r, o, path, text, next) ==
  /\ Same(r, o) /\ r.account = o.account
  /\ r.pc = "truncate" /\ r.path = path /\ r.text = text /\ r.next = next

Ended(p) == proc'[p] = Idle /\ Busy' = Busy \ {p}

LEMMA EndsStep ==
  ASSUME TypeOK, NEW p \in Process, Ends(p), ReadsOnly, proc[p].pc # "idle"
  PROVE  Reads(p) /\ Ended(p)
<1>1. ProcOK' /\ OthersStay(p) /\ proc'[p] = Idle /\ Busy' = Busy \ {p}
  BY BecomesOne DEF Ends
<1> QED
  BY <1>1, ReadsOnlyKeeps, InCall DEF Reads, Ended, TypeOK

LEMMA BecomesStep ==
  ASSUME TypeOK, NEW p \in Process, NEW r, CallOK(r), r # Idle, Becomes(p, r), ReadsOnly,
         proc[p].pc # "idle"
  PROVE  Reads(p) /\ proc'[p] = r /\ Busy' = Busy
<1>1. p \in Busy /\ CallOK(proc[p])
  BY InCall
<1>2. ProcOK' /\ OthersStay(p) /\ proc'[p] = r /\ Busy' = Busy
  BY <1>1, BecomesOne
<1> QED
  BY <1>1, <1>2, ReadsOnlyKeeps DEF Reads, TypeOK

LEMMA ReadCredStep ==
  ASSUME TypeOK, NEW p \in Process, ReadCred(p)
  PROVE  /\ Reads(p) /\ proc[p].pc = "read"
         /\ \/ Ended(p)
            \/ /\ IsAt(proc'[p], proc[p], "readOld") /\ proc'[p].shares = proc[p].shares
               /\ fs["cred"] = Missing /\ proc'[p].stale = FALSE /\ Busy' = Busy
            \/ /\ LoadedAs(proc'[p], proc[p], "loaded", fs["cred"], "cred", FALSE)
               /\ fs["cred"].kind = "cred" /\ fs["cred"] \in Creds /\ Busy' = Busy
<1>1. CallOK(proc[p]) /\ proc[p].pc = "read" /\ proc[p].call \in CredCall /\ p \in Busy
  BY InCall DEF ReadCred, CallOK, Placed
<1>2. CASE fs["cred"] = Missing
  <2> DEFINE r == [proc[p] EXCEPT !.pc = "readOld", !.stale = FALSE]
  <2>1. r \in CallRecord
    BY <1>1 DEF CallOK, CallRecord
  <2>2. /\ r.pc = "readOld" /\ r.stale = FALSE /\ r.call = proc[p].call
        /\ r.share = proc[p].share /\ r.token = proc[p].token /\ r.cred = proc[p].cred
        /\ r.shares = proc[p].shares /\ r.account = proc[p].account
    BY <1>1 DEF CallOK, CallRecord
  <2>3. Becomes(p, r) /\ ReadsOnly
    BY <1>2, KindsOfText DEF ReadCred
  <2> HIDE DEF r
  <2>4. Placed(r) /\ ~WritesCred(r) /\ ~WritesKeys(r)
    BY <1>1, <2>2 DEF CallOK, Placed, WritesCred, WritesKeys, Writing, Removing, Holding
  <2>5. CallOK(r) /\ r # Idle
    BY <2>1, <2>4, CallIsBusy DEF CallOK
  <2> QED
    BY <1>1, <1>2, <2>2, <2>3, <2>4, <2>5, BecomesStep DEF IsAt, Same
<1>3. CASE fs["cred"].kind = "cred" /\ fs["cred"] # Missing
  <2>1. fs["cred"] \in Creds
    BY <1>3, KindsOfFile
  <2>2. Loads(p, "cred", fs["cred"], "loaded") /\ ReadsOnly
    BY <1>3 DEF ReadCred
  <2>3. /\ ProcOK' /\ OthersStay(p) /\ Busy' = Busy \cup {p}
        /\ LoadedAs(proc'[p], proc[p], "loaded", fs["cred"], "cred", FALSE)
    BY <1>1, <2>1, <2>2, LoadsAs DEF CredFile
  <2> QED
    BY <1>1, <1>3, <2>1, <2>2, <2>3, ReadsOnlyKeeps DEF Reads, TypeOK
<1>4. CASE fs["cred"].kind # "cred" /\ fs["cred"] # Missing
  BY <1>1, <1>4, EndsStep DEF ReadCred
<1> QED
  BY <1>2, <1>3, <1>4

LEMMA ReadOldCredStep ==
  ASSUME TypeOK, NEW p \in Process, ReadOldCred(p)
  PROVE  /\ Reads(p) /\ proc[p].pc = "readOld"
         /\ \/ Ended(p)
            \/ /\ IsAt(proc'[p], proc[p], "loaded") /\ proc'[p].shares = proc[p].shares
               /\ proc[p].call \in {"prepare", "login"}
               /\ proc'[p].stale = proc[p].stale /\ Busy' = Busy
            \/ /\ LoadedAs(proc'[p], proc[p], "migrate", fs["oldCred"], "oldCred", proc[p].stale)
               /\ fs["oldCred"].kind = "cred" /\ fs["oldCred"] \in Creds /\ Busy' = Busy
<1>1. CallOK(proc[p]) /\ proc[p].pc = "readOld" /\ proc[p].call \in CredCall /\ p \in Busy
  BY InCall DEF ReadOldCred, CallOK, Placed
<1>2. CASE fs["oldCred"].kind # "cred" /\ proc[p].call \in {"prepare", "login"}
  <2> DEFINE r == [proc[p] EXCEPT !.pc = "loaded"]
  <2>1. /\ CallOK(r) /\ IsAt(r, proc[p], "loaded") /\ r.shares = proc[p].shares
        /\ r.stale = proc[p].stale
    BY <1>1, MovedOK DEF IsAt, Same
  <2>2. Becomes(p, r) /\ ReadsOnly
    BY <1>2 DEF ReadOldCred
  <2> HIDE DEF r
  <2> QED
    BY <1>1, <1>2, <2>1, <2>2, BecomesStep DEF IsAt, Same
<1>3. CASE fs["oldCred"].kind = "cred"
  <2>1. fs["oldCred"] \in Creds
    BY <1>3, KindsOfFile
  <2>2. Loads(p, "oldCred", fs["oldCred"], "migrate") /\ ReadsOnly
    BY <1>3 DEF ReadOldCred
  <2>3. /\ ProcOK' /\ OthersStay(p) /\ Busy' = Busy \cup {p}
        /\ LoadedAs(proc'[p], proc[p], "migrate", fs["oldCred"], "oldCred",
                    "oldCred" # "cred" /\ proc[p].stale)
    BY <1>1, <2>1, <2>2, LoadsAs DEF CredFile
  <2>4. ("oldCred" # "cred" /\ proc[p].stale) = proc[p].stale
    BY <1>1 DEF CallOK, CallRecord
  <2> QED
    BY <1>1, <1>3, <2>1, <2>2, <2>3, <2>4, ReadsOnlyKeeps DEF Reads, TypeOK
<1>4. CASE fs["oldCred"].kind # "cred" /\ proc[p].call \notin {"prepare", "login"}
  BY <1>1, <1>4, EndsStep DEF ReadOldCred
<1> QED
  BY <1>2, <1>3, <1>4

LEMMA MigrateStep ==
  ASSUME TypeOK, NEW p \in Process, Migrate(p)
  PROVE  /\ Reads(p) /\ proc[p].pc = "migrate" /\ Busy' = Busy
         /\ IsSaving(proc'[p], proc[p], "cred", proc[p].cred, "loaded")
         /\ proc'[p].shares = proc[p].shares /\ proc'[p].stale = proc[p].stale
<1> DEFINE r == Saving(proc[p], "cred", proc[p].cred, "loaded")
<1>1. CallOK(proc[p]) /\ proc[p].pc = "migrate" /\ proc[p].call \in CredCall
  BY InCall DEF Migrate, CallOK, Placed
<1>2. proc[p].cred \in Creds
  BY <1>1 DEF CallOK, CallRecord
<1>3. /\ CallOK(r) /\ IsSaving(r, proc[p], "cred", proc[p].cred, "loaded")
      /\ r.shares = proc[p].shares /\ r.stale = proc[p].stale
  BY <1>1, <1>2, SavingOK DEF IsSaving, Same, CredFile
<1>4. Becomes(p, r) /\ ReadsOnly
  BY DEF Migrate
<1> HIDE DEF r
<1> QED
  BY <1>1, <1>3, <1>4, BecomesStep DEF IsSaving, Same

LEMMA SavePreparedStep ==
  ASSUME TypeOK, NEW p \in Process, SavePrepared(p)
  PROVE  /\ Reads(p) /\ proc[p].pc = "loaded" /\ Busy' = Busy
         /\ \E text \in Creds, next \in {"approved", "end"} :
              /\ text.token = proc[p].cred.token /\ text.account = proc[p].cred.account
              /\ IsSaving(proc'[p], proc[p], "cred", text, next)
              /\ proc[p].call = "login" => next = "approved"
         /\ proc'[p].shares = proc[p].shares /\ proc'[p].stale = proc[p].stale
<1> DEFINE text == [proc[p].cred EXCEPT !.signing = TRUE]
           next == IF proc[p].call = "login" THEN "approved" ELSE "end"
           r == Saving(proc[p], "cred", text, next)
<1>1. CallOK(proc[p]) /\ proc[p].pc = "loaded" /\ proc[p].call \in {"prepare", "login"}
  BY InCall DEF SavePrepared
<1>2. proc[p].cred \in Creds
  BY <1>1 DEF CallOK, CallRecord
<1>3. /\ text \in Creds /\ text.token = proc[p].cred.token
      /\ text.account = proc[p].cred.account
  BY <1>2 DEF Creds
<1>4. Becomes(p, r) /\ ReadsOnly
  BY DEF SavePrepared
<1> HIDE DEF text
<1>5. /\ CallOK(r) /\ IsSaving(r, proc[p], "cred", text, next)
      /\ r.shares = proc[p].shares /\ r.stale = proc[p].stale
  BY <1>1, <1>3, SavingOK DEF IsSaving, Same, CredFile, CredCall
<1> HIDE DEF r
<1>6. Reads(p) /\ proc'[p] = r /\ Busy' = Busy
  BY <1>1, <1>4, <1>5, BecomesStep DEF IsSaving, Same
<1> QED
  BY <1>1, <1>3, <1>5, <1>6

LEMMA SaveLoginStep ==
  ASSUME TypeOK, NEW p \in Process, SaveLogin(p)
  PROVE  /\ Reads(p) /\ proc[p].pc = "approved" /\ proc[p].call = "login" /\ Busy' = Busy
         /\ proc[p].token \in Token
         /\ \E text \in Creds :
              /\ text.token = proc[p].token /\ text.account = AccountOf[proc[p].token]
              /\ IsSaving(proc'[p], proc[p], "cred", text, "end")
         /\ proc'[p].shares = proc[p].shares /\ proc'[p].stale = proc[p].stale
<1> DEFINE text == Cred(proc[p].token, AccountOf[proc[p].token], TRUE, 1)
           r == Saving(proc[p], "cred", text, "end")
<1>1. /\ CallOK(proc[p]) /\ proc[p].pc = "approved" /\ proc[p].call = "login"
      /\ proc[p].token \in Token
  BY InCall DEF SaveLogin, CallOK, Placed
<1>2. /\ text \in Creds /\ text.token = proc[p].token
      /\ text.account = AccountOf[proc[p].token]
  BY <1>1 DEF Creds, Cred, Account
<1>3. Becomes(p, r) /\ ReadsOnly
  BY DEF SaveLogin
<1> HIDE DEF text
<1>4. /\ CallOK(r) /\ IsSaving(r, proc[p], "cred", text, "end")
      /\ r.shares = proc[p].shares /\ r.stale = proc[p].stale
  BY <1>1, <1>2, SavingOK DEF IsSaving, Same, CredFile, CredCall
<1> HIDE DEF r
<1>5. Reads(p) /\ proc'[p] = r /\ Busy' = Busy
  BY <1>1, <1>3, <1>4, BecomesStep DEF IsSaving, Same
<1> QED
  BY <1>1, <1>2, <1>4, <1>5

LEMMA EndLoadStep ==
  ASSUME TypeOK, NEW p \in Process, EndLoad(p)
  PROVE  Reads(p) /\ Ended(p)
BY EndsStep DEF EndLoad

LEMMA ReadTrustStep ==
  ASSUME TypeOK, NEW p \in Process, ReadTrust(p)
  PROVE  /\ Reads(p) /\ proc[p].call = "lookup"
         /\ \/ Ended(p)
            \/ /\ Same(proc'[p], proc[p]) /\ proc'[p].pc = "read" /\ Busy' = Busy
               /\ fs["trust"] # Missing /\ proc'[p].account = fs["trust"].account
               /\ proc'[p].shares = proc[p].shares /\ proc'[p].stale = proc[p].stale
               /\ ~WritesCred(proc'[p]) /\ ~WritesKeys(proc'[p])
<1>1. CallOK(proc[p]) /\ proc[p].pc = "readTrust" /\ proc[p].call = "lookup"
  BY InCall DEF ReadTrust, CallOK, Placed
<1>2. CASE fs["trust"] = Missing
  BY <1>1, <1>2, EndsStep DEF ReadTrust
<1>3. CASE fs["trust"] # Missing
  <2> DEFINE r == [proc[p] EXCEPT !.pc = "read", !.account = fs["trust"].account]
  <2>1. fs["trust"].account \in Account
    BY <1>3 DEF TypeOK, FilesOK, Lists
  <2>2. r \in CallRecord
    BY <1>1, <2>1 DEF CallOK, CallRecord
  <2>3. /\ r.pc = "read" /\ r.account = fs["trust"].account /\ r.call = proc[p].call
        /\ r.share = proc[p].share /\ r.token = proc[p].token /\ r.cred = proc[p].cred
        /\ r.shares = proc[p].shares /\ r.stale = proc[p].stale
    BY <1>1 DEF CallOK, CallRecord
  <2>4. Becomes(p, r) /\ ReadsOnly
    BY <1>3 DEF ReadTrust
  <2> HIDE DEF r
  <2>5. Placed(r) /\ ~WritesCred(r) /\ ~WritesKeys(r)
    BY <1>1, <2>3 DEF CallOK, Placed, WritesCred, WritesKeys, Writing, Removing, Holding, CredCall
  <2>6. CallOK(r) /\ r # Idle
    BY <2>2, <2>5, CallIsBusy DEF CallOK
  <2> QED
    BY <1>1, <1>3, <2>3, <2>4, <2>5, <2>6, BecomesStep DEF Same
<1> QED
  BY <1>2, <1>3

LEMMA ReadKeysStep ==
  ASSUME TypeOK, NEW p \in Process, ReadKeys(p)
  PROVE  /\ Reads(p) /\ proc[p].pc = "readKeys" /\ proc[p].call \in KeyCall
         /\ \/ Ended(p)
            \/ /\ IsAt(proc'[p], proc[p], "readOldKeys") /\ fs["keys"] = Missing
               /\ proc'[p].shares = proc[p].shares /\ proc'[p].stale = proc[p].stale
               /\ Busy' = Busy
            \/ /\ IsAt(proc'[p], proc[p], "prune") /\ fs["keys"].kind = "keys"
               /\ proc'[p].shares = fs["keys"].shares /\ proc'[p].stale = proc[p].stale
               /\ Busy' = Busy
<1>1. CallOK(proc[p]) /\ proc[p].pc = "readKeys" /\ proc[p].call \in KeyCall
  BY InCall DEF ReadKeys, CallOK, Placed, Holding
<1>2. CASE fs["keys"] = Missing
  <2> DEFINE r == [proc[p] EXCEPT !.pc = "readOldKeys"]
  <2>1. /\ CallOK(r) /\ IsAt(r, proc[p], "readOldKeys") /\ r.shares = proc[p].shares
        /\ r.stale = proc[p].stale
    BY <1>1, MovedOK DEF IsAt, Same, Holding
  <2>2. Becomes(p, r) /\ ReadsOnly
    BY <1>2, KindsOfText DEF ReadKeys
  <2> HIDE DEF r
  <2> QED
    BY <1>1, <1>2, <2>1, <2>2, BecomesStep DEF IsAt, Same
<1>3. CASE fs["keys"].kind = "keys" /\ fs["keys"] # Missing
  <2> DEFINE r == [proc[p] EXCEPT !.pc = "prune", !.shares = fs["keys"].shares]
  <2>1. fs["keys"].shares \in SUBSET Share
    BY <1>3, KindsOfFile DEF Stores
  <2>2. r \in CallRecord
    BY <1>1, <2>1 DEF CallOK, CallRecord, Holding
  <2>3. /\ r.pc = "prune" /\ r.account = proc[p].account /\ r.call = proc[p].call
        /\ r.share = proc[p].share /\ r.token = proc[p].token /\ r.cred = proc[p].cred
        /\ r.shares = fs["keys"].shares /\ r.stale = proc[p].stale
    BY <1>1 DEF CallOK, CallRecord
  <2>4. Becomes(p, r) /\ ReadsOnly
    BY <1>3 DEF ReadKeys
  <2> HIDE DEF r
  <2>5. Placed(r) /\ ~WritesCred(r) /\ ~WritesKeys(r)
    BY <1>1, <2>3 DEF CallOK, Placed, WritesCred, WritesKeys, Writing, Removing, Holding, CredCall,
       KeyCall
  <2>6. CallOK(r) /\ r # Idle
    BY <2>2, <2>5, CallIsBusy DEF CallOK
  <2> QED
    BY <1>1, <1>3, <2>3, <2>4, <2>5, <2>6, BecomesStep DEF IsAt, Same
<1>4. CASE fs["keys"].kind # "keys" /\ fs["keys"] # Missing
  BY <1>1, <1>4, EndsStep DEF ReadKeys
<1> QED
  BY <1>2, <1>3, <1>4

LEMMA ReadOldKeysStep ==
  ASSUME TypeOK, NEW p \in Process, ReadOldKeys(p)
  PROVE  /\ Reads(p) /\ proc[p].pc = "readOldKeys" /\ proc[p].call \in KeyCall /\ Busy' = Busy
         /\ IsAt(proc'[p], proc[p], "prune") /\ proc'[p].stale = proc[p].stale
         /\ \/ proc'[p].shares = proc[p].shares
            \/ fs["oldKeys"].kind = "keys" /\ proc'[p].shares = fs["oldKeys"].shares
<1>1. CallOK(proc[p]) /\ proc[p].pc = "readOldKeys" /\ proc[p].call \in KeyCall
  BY InCall DEF ReadOldKeys, CallOK, Placed, Holding
<1>2. CASE fs["oldKeys"] = Missing
  <2> DEFINE r == [proc[p] EXCEPT !.pc = "prune"]
  <2>1. /\ CallOK(r) /\ IsAt(r, proc[p], "prune") /\ r.shares = proc[p].shares
        /\ r.stale = proc[p].stale
    BY <1>1, MovedOK DEF IsAt, Same, Holding
  <2>2. Becomes(p, r) /\ ReadsOnly
    BY <1>2, KindsOfText DEF ReadOldKeys
  <2> HIDE DEF r
  <2> QED
    BY <1>1, <1>2, <2>1, <2>2, BecomesStep DEF IsAt, Same
<1>3. CASE fs["oldKeys"] # Missing
  <2> DEFINE r == [proc[p] EXCEPT !.pc = "prune", !.shares = fs["oldKeys"].shares, !.adopted = TRUE]
  <2>1. fs["oldKeys"] \in Stores /\ fs["oldKeys"].kind = "keys"
    BY <1>3, KindsOfText DEF TypeOK, FilesOK
  <2>2. r \in CallRecord
    BY <1>1, <2>1 DEF CallOK, CallRecord, Holding, Stores
  <2>3. /\ r.pc = "prune" /\ r.account = proc[p].account /\ r.call = proc[p].call
        /\ r.share = proc[p].share /\ r.token = proc[p].token /\ r.cred = proc[p].cred
        /\ r.shares = fs["oldKeys"].shares /\ r.stale = proc[p].stale
    BY <1>1 DEF CallOK, CallRecord
  <2>4. Becomes(p, r) /\ ReadsOnly
    BY <1>3, <2>1 DEF ReadOldKeys
  <2> HIDE DEF r
  <2>5. Placed(r) /\ ~WritesCred(r) /\ ~WritesKeys(r)
    BY <1>1, <2>3 DEF CallOK, Placed, WritesCred, WritesKeys, Writing, Removing, Holding, CredCall,
       KeyCall
  <2>6. CallOK(r) /\ r # Idle
    BY <2>2, <2>5, CallIsBusy DEF CallOK
  <2> QED
    BY <1>1, <1>3, <2>1, <2>3, <2>4, <2>5, <2>6, BecomesStep DEF IsAt, Same
<1> QED
  BY <1>2, <1>3

LEMMA PruneStep ==
  ASSUME TypeOK, NEW p \in Process, Prune(p)
  PROVE  /\ Reads(p) /\ proc[p].pc = "prune" /\ proc[p].call \in KeyCall /\ Busy' = Busy
         /\ proc'[p].shares = proc[p].shares \ expired /\ proc'[p].stale = proc[p].stale
         /\ \/ IsAt(proc'[p], proc[p], "dropOld")
            \/ IsSaving(proc'[p], proc[p], "keys", Keys(proc[p].shares \ expired), "dropOld")
<1> DEFINE r == [proc[p] EXCEPT !.shares = @ \ expired]
           m == [r EXCEPT !.pc = "dropOld"]
           text == Keys(r.shares)
           w == Saving(r, "keys", text, "dropOld")
<1>1. CallOK(proc[p]) /\ proc[p].pc = "prune" /\ proc[p].call \in KeyCall
  BY InCall DEF Prune, CallOK, Placed, Holding
<1>2. r \in CallRecord
  BY <1>1 DEF CallOK, CallRecord
<1>3. /\ r.pc = "prune" /\ r.account = proc[p].account /\ r.call = proc[p].call
      /\ r.share = proc[p].share /\ r.token = proc[p].token /\ r.cred = proc[p].cred
      /\ r.shares = proc[p].shares \ expired /\ r.stale = proc[p].stale
  BY <1>1 DEF CallOK, CallRecord
<1>4. ReadsOnly /\ (Becomes(p, m) \/ Becomes(p, w))
  BY DEF Prune
<1> HIDE DEF r
<1>5. CallOK(r)
  BY <1>1, <1>2, <1>3
  DEF CallOK, Placed, WritesCred, WritesKeys, Writing, Removing, Holding, CredCall, KeyCall
<1>6. text \in Stores /\ text = Keys(proc[p].shares \ expired)
  BY <1>2, <1>3 DEF CallRecord, Keys, Stores
<1> HIDE DEF text
<1>7. /\ CallOK(m) /\ IsAt(m, proc[p], "dropOld") /\ m.shares = r.shares /\ m.stale = r.stale
  BY <1>1, <1>3, <1>5, MovedOK DEF IsAt, Same, Holding
<1>8. /\ CallOK(w) /\ IsSaving(w, proc[p], "keys", text, "dropOld")
      /\ w.shares = r.shares /\ w.stale = r.stale
  <2>1. r.call \in KeyCall
    BY <1>1, <1>3
  <2>2. /\ CallOK(w) /\ w # Idle
        /\ w.pc = "truncate" /\ w.path = "keys" /\ w.text = text /\ w.next = "dropOld"
        /\ w.call = r.call /\ w.share = r.share /\ w.token = r.token /\ w.cred = r.cred
        /\ w.shares = r.shares /\ w.account = r.account /\ w.stale = r.stale
    BY <1>5, <1>6, <2>1, SavingOK
  <2> QED
    BY <1>3, <2>2 DEF IsSaving, Same
<1> HIDE DEF m, w
<1>9. CASE Becomes(p, m)
  BY <1>1, <1>3, <1>4, <1>7, <1>9, BecomesStep DEF IsAt, Same
<1>10. CASE Becomes(p, w)
  BY <1>1, <1>3, <1>4, <1>6, <1>8, <1>10, BecomesStep DEF IsSaving, Same
<1> QED
  BY <1>4, <1>9, <1>10

-----------------------------------------------------------------------------
(* The steps on the trust list, of a logout and of the key store.          *)

StillThere(path) == fs'[path] = fs[path]

LEMMA SaveSignedTrustStep ==
  ASSUME TypeOK, NEW p \in Process, SaveSignedTrust(p)
  PROVE  /\ TypeOK' /\ p \in Busy /\ CallOK(proc[p]) /\ OthersStay(p)
         /\ UNCHANGED <<expired, used, over, owed, honoured, mixed>>
         /\ proc[p].call = "refresh" /\ proc[p].pc = "loaded"
         /\ \A path \in {"cred", "oldCred", "keys", "oldKeys"} : StillThere(path)
         /\ \/ Ended(p) /\ StillThere("trust")
            \/ LET r == proc'[p] o == proc[p]
               IN /\ CallOK(r) /\ r # Idle /\ r.pc = "read" /\ Busy' = Busy
                  /\ r.call = o.call /\ r.share = o.share /\ r.cred = o.cred
                  /\ r.shares = o.shares /\ r.stale = o.stale
                  /\ r.token = o.cred.token /\ r.token # None /\ r.account = AccountOf[r.token]
                  /\ r.account # None /\ ~WritesCred(r) /\ ~WritesKeys(r)
                  /\ fs'["trust"] # Missing /\ fs'["trust"].account = r.account
<1> DEFINE account == AccountOf[proc[p].cred.token]
           list == [kind |-> "trust", account |-> account]
           r == [proc[p] EXCEPT !.pc = "read", !.account = account, !.token = proc[p].cred.token]
<1>1. /\ CallOK(proc[p]) /\ proc[p].pc = "loaded" /\ proc[p].call = "refresh" /\ p \in Busy
  BY InCall DEF SaveSignedTrust
<1>2. Quiet /\ UNCHANGED <<honoured, mixed>>
  BY DEF SaveSignedTrust
<1>3. CountsOK' /\ UNCHANGED <<expired, used, over, owed, honoured, mixed>>
  BY <1>2, QuietCounts DEF Quiet
<1>4. CASE proc[p].cred.token = None
  <2>1. Ends(p) /\ fs' = fs
    BY <1>4 DEF SaveSignedTrust
  <2>2. ProcOK' /\ OthersStay(p) /\ Ended(p)
    BY <2>1, BecomesOne DEF Ends, Ended
  <2> QED
    BY <1>1, <1>3, <2>1, <2>2 DEF TypeOK, FilesOK, StillThere
<1>5. CASE proc[p].cred.token # None
  <2>1. proc[p].cred.token \in Token
    BY <1>1, <1>5 DEF CallOK, CallRecord, Creds
  <2>2. account \in Account /\ account # None
    BY <2>1, AccountAssumption DEF Account
  <2>3. r \in CallRecord
    BY <1>1, <2>1, <2>2 DEF CallOK, CallRecord
  <2>4. /\ r.pc = "read" /\ r.call = proc[p].call /\ r.share = proc[p].share
        /\ r.token = proc[p].cred.token /\ r.cred = proc[p].cred /\ r.account = account
        /\ r.shares = proc[p].shares /\ r.stale = proc[p].stale
    BY <1>1 DEF CallOK, CallRecord
  <2>5. Becomes(p, r) /\ fs' = [fs EXCEPT !.trust = list]
    BY <1>5 DEF SaveSignedTrust
  <2>6. list \in Lists /\ list # Missing /\ list.account = account
    BY <2>2 DEF Lists, Missing
  <2> HIDE DEF r, list
  <2>7. Placed(r) /\ ~WritesCred(r) /\ ~WritesKeys(r)
    BY <1>1, <2>4 DEF CallOK, Placed, WritesCred, WritesKeys, Writing, Removing, Holding, CredCall
  <2>8. CallOK(r) /\ r # Idle
    BY <2>3, <2>7, CallIsBusy DEF CallOK
  <2>9. ProcOK' /\ OthersStay(p) /\ proc'[p] = r /\ Busy' = Busy
    BY <1>1, <2>5, <2>8, BecomesOne
  <2>10. FilesOK' /\ fs'["trust"] = list
    BY <2>5, <2>6 DEF TypeOK, FilesOK
  <2>11. \A path \in {"cred", "oldCred", "keys", "oldKeys"} : StillThere(path)
    BY <2>5 DEF TypeOK, FilesOK, StillThere
  <2> QED
    BY <1>1, <1>3, <1>5, <2>2, <2>4, <2>6, <2>7, <2>8, <2>9, <2>10, <2>11 DEF TypeOK
<1> QED
  BY <1>4, <1>5

LEMMA BindAccountStep ==
  ASSUME TypeOK, NEW p \in Process, BindAccount(p)
  PROVE  /\ TypeOK' /\ p \in Busy /\ CallOK(proc[p]) /\ OthersStay(p)
         /\ UNCHANGED <<expired, used, over, owed, honoured, mixed>>
         /\ proc[p].call = "refresh" /\ proc[p].pc = "loaded" /\ proc[p].account # None
         /\ \A path \in {"cred", "oldCred", "keys", "oldKeys"} : StillThere(path)
         /\ StillThere("trust") \/ fs'["trust"] = Missing
         /\ \/ Ended(p)
            \/ /\ Busy' = Busy /\ proc'[p].shares = proc[p].shares
               /\ \E text \in Creds :
                    /\ text.token = proc[p].cred.token /\ text.account = proc[p].account
                    /\ IsSaving(proc'[p], proc[p], "cred", text, "end")
               /\ ~proc'[p].stale => ~proc[p].stale /\ proc[p].cred.token = proc[p].token
<1> DEFINE old == proc[p]
           text == [old.cred EXCEPT !.account = old.account]
           r == [old EXCEPT !.stale = @ \/ old.cred.token # old.token]
           w == Saving(r, "cred", text, "end")
<1>1. /\ CallOK(old) /\ old.pc = "loaded" /\ old.call = "refresh" /\ old.account # None
      /\ p \in Busy
  BY InCall DEF BindAccount
<1>2. Quiet /\ UNCHANGED <<honoured, mixed>>
  BY DEF BindAccount
<1>3. CountsOK' /\ UNCHANGED <<expired, used, over, owed, honoured, mixed>>
  BY <1>2, QuietCounts DEF Quiet
<1>4. CASE old.cred.account = None
  <2>1. old.cred.account # old.account
    BY <1>1, <1>4
  <2>2. Becomes(p, w) /\ fs' = fs
    BY <1>4, <2>1 DEF BindAccount
  <2>3. text \in Creds /\ text.token = old.cred.token /\ text.account = old.account
    BY <1>1 DEF CallOK, CallRecord, Creds
  <2>4. r \in CallRecord
    <3>1. \A b \in BOOLEAN : [old EXCEPT !.stale = b] \in CallRecord
      BY <1>1 DEF CallOK, CallRecord
    <3>2. r = [old EXCEPT !.stale = (old.stale \/ old.cred.token # old.token)]
      OBVIOUS
    <3>3. (old.stale \/ old.cred.token # old.token) \in BOOLEAN
      OBVIOUS
    <3> QED
      BY <3>1, <3>2, <3>3, Zenon
  <2>5. /\ r.pc = old.pc /\ r.call = old.call /\ r.share = old.share /\ r.token = old.token
        /\ r.cred = old.cred /\ r.account = old.account /\ r.shares = old.shares
        /\ r.stale = (old.stale \/ old.cred.token # old.token)
    BY <1>1 DEF CallOK, CallRecord
  <2> HIDE DEF r, text
  <2>6. CallOK(r)
    BY <1>1, <2>4, <2>5 DEF CallOK, Placed, WritesCred, WritesKeys, Writing, Removing, Holding
  <2>7. /\ CallOK(w) /\ w # Idle
        /\ w.pc = "truncate" /\ w.path = "cred" /\ w.text = text /\ w.next = "end"
        /\ w.call = r.call /\ w.share = r.share /\ w.token = r.token /\ w.cred = r.cred
        /\ w.shares = r.shares /\ w.account = r.account /\ w.stale = r.stale
    <3>1. r.call \in CredCall
      BY <1>1, <2>5 DEF CredCall
    <3> QED
      BY <2>3, <2>6, <3>1, SavingOK DEF CredFile
  <2> HIDE DEF w
  <2>8. ProcOK' /\ OthersStay(p) /\ proc'[p] = w /\ Busy' = Busy
    BY <1>1, <2>2, <2>7, BecomesOne
  <2>9. IsSaving(w, old, "cred", text, "end")
    BY <2>5, <2>7 DEF IsSaving, Same
  <2>10. ~w.stale => ~old.stale /\ old.cred.token = old.token
    BY <2>5, <2>7
  <2>11. FilesOK' /\ \A path \in {"cred", "oldCred", "keys", "oldKeys", "trust"} : StillThere(path)
    BY <2>2 DEF TypeOK, FilesOK, StillThere
  <2> QED
    BY <1>1, <1>3, <2>3, <2>5, <2>7, <2>8, <2>9, <2>10, <2>11 DEF TypeOK
<1>5. CASE old.cred.account # None
  <2>1. Ends(p) /\ (fs' = fs \/ fs' = [fs EXCEPT !.trust = Missing])
    BY <1>1, <1>5 DEF BindAccount
  <2>2. ProcOK' /\ OthersStay(p) /\ Ended(p)
    BY <2>1, BecomesOne DEF Ends, Ended
  <2>3. /\ FilesOK' /\ \A path \in {"cred", "oldCred", "keys", "oldKeys"} : StillThere(path)
        /\ StillThere("trust") \/ fs'["trust"] = Missing
    BY <2>1 DEF TypeOK, FilesOK, StillThere
  <2> QED
    BY <1>1, <1>3, <2>2, <2>3 DEF TypeOK
<1> QED
  BY <1>4, <1>5

LEMMA VerifyStep ==
  ASSUME TypeOK, NEW p \in Process, Verify(p)
  PROVE  /\ TypeOK' /\ p \in Busy /\ CallOK(proc[p]) /\ OthersStay(p) /\ Ended(p)
         /\ UNCHANGED <<fs, expired, used, over, owed, mixed>>
         /\ proc[p].call = "lookup" /\ proc[p].pc = "loaded"
         /\ honoured' = IF proc[p].cred.account = proc[p].account
                        THEN honoured \cup {<<proc[p].cred.token, proc[p].account>>} ELSE honoured
<1>1. CallOK(proc[p]) /\ proc[p].pc = "loaded" /\ proc[p].call = "lookup" /\ p \in Busy
  BY InCall DEF Verify
<1>2. ProcOK' /\ OthersStay(p) /\ Ended(p)
  BY BecomesOne DEF Verify, Ends, Ended
<1>3. FilesOK' /\ CountsOK' /\ UNCHANGED <<fs, expired, used, over, owed, mixed>>
  BY QuietCounts DEF Verify, Quiet, TypeOK, FilesOK
<1> QED
  BY <1>1, <1>2, <1>3 DEF Verify, TypeOK

LEMMA RemovesStep ==
  ASSUME TypeOK, NEW p \in Process, NEW at \in Removing, NEW path, NEW next,
         Removes(p, at, path, next),
         next = "end" \/ next \in Removing,
         path \in CredFile \cup KeyFile,
         over' \subseteq Token
  PROVE  /\ TypeOK' /\ p \in Busy /\ CallOK(proc[p]) /\ OthersUpset(p)
         /\ proc[p].pc = at /\ proc[p].call = "logout"
         /\ UNCHANGED <<expired, used, honoured, mixed>>
         /\ owed' = IF path = "keys" THEN {} ELSE owed
         /\ fs'[path] = Missing
         /\ \A other \in (CredFile \cup KeyFile \cup {"trust"}) \ {path} : StillThere(other)
         /\ IF next = "end" THEN Ended(p)
            ELSE /\ IsAt(proc'[p], proc[p], next) /\ proc'[p].shares = proc[p].shares
                 /\ proc'[p].stale = proc[p].stale /\ Busy' = Busy
<1> DEFINE m == [proc[p] EXCEPT !.pc = next]
           r == IF next = "end" THEN Idle ELSE m
<1>1. proc[p].pc = at /\ Touches(p, r) /\ fs' = [fs EXCEPT ![path] = Missing]
  BY DEF Removes
<1>2. CallOK(proc[p]) /\ proc[p].call = "logout" /\ p \in Busy
  BY <1>1, InCall DEF CallOK, Placed, Removing
<1>3. next # "end" =>
        /\ CallOK(m) /\ m # Idle /\ IsAt(m, proc[p], next) /\ m.shares = proc[p].shares
        /\ m.stale = proc[p].stale
  BY <1>2, MovedOK DEF IsAt, Same
<1> HIDE DEF m
<1>4. /\ ProcOK' /\ proc'[p] = r /\ OthersUpset(p)
      /\ Busy' = (Busy \ {p}) \cup (IF r = Idle THEN {} ELSE {p})
  BY <1>1, <1>3, TouchesOne
<1>5. /\ FilesOK' /\ fs'[path] = Missing
      /\ \A other \in (CredFile \cup KeyFile \cup {"trust"}) \ {path} : StillThere(other)
  BY <1>1 DEF TypeOK, FilesOK, CredFile, KeyFile, StillThere
<1>6. /\ CountsOK' /\ owed' = IF path = "keys" THEN {} ELSE owed
      /\ UNCHANGED <<expired, used, honoured, mixed>>
  BY DEF Removes, TypeOK, CountsOK
<1> QED
  BY <1>1, <1>2, <1>3, <1>4, <1>5, <1>6 DEF TypeOK, Ended

\* One removal of a logout.
Removal(p, at, path, next) ==
  /\ TypeOK' /\ p \in Busy /\ CallOK(proc[p]) /\ OthersUpset(p)
  /\ proc[p].pc = at /\ proc[p].call = "logout"
  /\ UNCHANGED <<expired, used, honoured, mixed>>
  /\ owed' = IF path = "keys" THEN {} ELSE owed
  /\ fs'[path] = Missing
  /\ \A other \in (CredFile \cup KeyFile \cup {"trust"}) \ {path} : StillThere(other)
  /\ IF next = "end" THEN Ended(p)
     ELSE /\ IsAt(proc'[p], proc[p], next) /\ proc'[p].shares = proc[p].shares
          /\ proc'[p].stale = proc[p].stale /\ Busy' = Busy

LEMMA LogoutSteps ==
  ASSUME TypeOK, NEW p \in Process
  PROVE  /\ RemoveCred(p) => Removal(p, "removeCred", "cred", "removeOldCred") /\ over' = over
         /\ RemoveOldCred(p) => Removal(p, "removeOldCred", "oldCred", "removeOldKeys") /\ over' = over
         /\ RemoveOldKeys(p) => Removal(p, "removeOldKeys", "oldKeys", "removeKeys") /\ over' = over
         /\ RemoveKeys(p) => /\ Removal(p, "removeKeys", "keys", "end") /\ proc[p].token \in Token
                             /\ over' = IF proc[p].stale THEN over ELSE over \cup {proc[p].token}
<1> USE DEF CredFile, KeyFile
<1>0. over \subseteq Token
  BY DEF TypeOK, CountsOK
<1>1. ASSUME RemoveCred(p)
      PROVE  Removal(p, "removeCred", "cred", "removeOldCred") /\ over' = over
  <2>1. Removes(p, "removeCred", "cred", "removeOldCred") /\ over' = over
    BY <1>1 DEF RemoveCred
  <2> QED
    BY <1>0, <2>1, RemovesStep DEF Removing, Removal
<1>2. ASSUME RemoveOldCred(p)
      PROVE  Removal(p, "removeOldCred", "oldCred", "removeOldKeys") /\ over' = over
  <2>1. Removes(p, "removeOldCred", "oldCred", "removeOldKeys") /\ over' = over
    BY <1>2 DEF RemoveOldCred
  <2> QED
    BY <1>0, <2>1, RemovesStep DEF Removing, Removal
<1>3. ASSUME RemoveOldKeys(p)
      PROVE  Removal(p, "removeOldKeys", "oldKeys", "removeKeys") /\ over' = over
  <2>1. Removes(p, "removeOldKeys", "oldKeys", "removeKeys") /\ over' = over
    BY <1>3 DEF RemoveOldKeys
  <2> QED
    BY <1>0, <2>1, RemovesStep DEF Removing, Removal
<1>4. ASSUME RemoveKeys(p)
      PROVE  /\ Removal(p, "removeKeys", "keys", "end") /\ proc[p].token \in Token
             /\ over' = IF proc[p].stale THEN over ELSE over \cup {proc[p].token}
  <2>1. /\ Removes(p, "removeKeys", "keys", "end")
        /\ over' = IF proc[p].stale THEN over ELSE over \cup {proc[p].token}
    BY <1>4 DEF RemoveKeys
  <2>2. proc[p].token \in Token
    BY <2>1, InCall DEF Removes, CallOK, Placed, Removing
  <2>3. over' \subseteq Token
    BY <1>0, <2>1, <2>2
  <2> QED
    BY <2>1, <2>2, <2>3, RemovesStep DEF Removing, Removal
<1> QED
  BY <1>1, <1>2, <1>3, <1>4

LEMMA DropOldStep ==
  ASSUME TypeOK, NEW p \in Process, DropOld(p)
  PROVE  /\ TypeOK' /\ p \in Busy /\ CallOK(proc[p]) /\ Busy' = Busy
         /\ OthersStay(p) \/ OthersUpset(p)
         /\ proc[p].pc = "dropOld" /\ proc[p].call \in KeyCall
         /\ UNCHANGED <<expired, used, over, owed, honoured, mixed>>
         /\ IsAt(proc'[p], proc[p], "have") /\ proc'[p].shares = proc[p].shares
         /\ proc'[p].stale = proc[p].stale
         /\ \A path \in {"cred", "oldCred", "keys", "trust"} : StillThere(path)
         /\ StillThere("oldKeys") \/ fs'["oldKeys"] = Missing
<1> DEFINE m == [proc[p] EXCEPT !.pc = "have"]
<1>1. CallOK(proc[p]) /\ proc[p].pc = "dropOld" /\ proc[p].call \in KeyCall /\ p \in Busy
  BY InCall DEF DropOld, CallOK, Placed, Holding
<1>2. /\ CallOK(m) /\ m # Idle /\ IsAt(m, proc[p], "have") /\ m.shares = proc[p].shares
      /\ m.stale = proc[p].stale
  BY <1>1, MovedOK DEF IsAt, Same, Holding
<1>3. \/ Touches(p, m) /\ fs' = [fs EXCEPT !.oldKeys = Missing]
      \/ Becomes(p, m) /\ fs' = fs
  BY DEF DropOld
<1>4. CountsOK' /\ UNCHANGED <<expired, used, over, owed, honoured, mixed>>
  BY QuietCounts DEF DropOld, Quiet
<1>5. /\ FilesOK' /\ \A path \in {"cred", "oldCred", "keys", "trust"} : StillThere(path)
      /\ StillThere("oldKeys") \/ fs'["oldKeys"] = Missing
  BY <1>3 DEF TypeOK, FilesOK, StillThere
<1> HIDE DEF m
<1>6. ProcOK' /\ proc'[p] = m /\ (OthersStay(p) \/ OthersUpset(p)) /\ Busy' = Busy
  BY <1>1, <1>2, <1>3, BecomesOne, TouchesOne
<1> QED
  BY <1>1, <1>2, <1>4, <1>5, <1>6 DEF TypeOK

LEMMA SaveKeysStep ==
  ASSUME TypeOK, NEW p \in Process, SaveKeys(p)
  PROVE  /\ TypeOK' /\ p \in Busy /\ CallOK(proc[p]) /\ OthersStay(p)
         /\ proc[p].pc = "have" /\ proc[p].call \in KeyCall
         /\ UNCHANGED <<fs, expired, used, over, honoured, mixed>>
         /\ owed' \subseteq owed
         /\ \/ Ended(p)
            \/ /\ Busy' = Busy /\ proc'[p].shares = proc[p].shares
               /\ proc'[p].stale = proc[p].stale
               /\ \E shares \in SUBSET Share :
                    /\ IsSaving(proc'[p], proc[p], "keys", Keys(shares), "end")
                    /\ \/ proc[p].call = "retain" /\ shares = proc[p].shares \cup {proc[p].share}
                       \/ /\ proc[p].call = "forget" /\ shares = proc[p].shares \ {proc[p].share}
                          /\ owed' = owed \ {proc[p].share}
<1>1. CallOK(proc[p]) /\ proc[p].pc = "have" /\ proc[p].call \in KeyCall /\ p \in Busy
  BY InCall DEF SaveKeys, CallOK, Placed, Holding
<1>2. /\ UNCHANGED <<fs, expired, used, over, honoured, mixed>> /\ owed' \subseteq owed
      /\ proc[p].call = "forget" => owed' = owed \ {proc[p].share}
  BY DEF SaveKeys
<1>3. FilesOK' /\ CountsOK'
  BY DEF SaveKeys, TypeOK, FilesOK, CountsOK
<1>4. ASSUME NEW shares \in SUBSET Share, Becomes(p, Saving(proc[p], "keys", Keys(shares), "end"))
      PROVE  /\ ProcOK' /\ OthersStay(p) /\ Busy' = Busy /\ proc'[p].shares = proc[p].shares
             /\ proc'[p].stale = proc[p].stale
             /\ IsSaving(proc'[p], proc[p], "keys", Keys(shares), "end")
  <2> DEFINE text == Keys(shares)
             w == Saving(proc[p], "keys", text, "end")
  <2>1. text \in Stores
    BY DEF Keys, Stores
  <2> HIDE DEF text
  <2>2. /\ CallOK(w) /\ w # Idle
        /\ w.pc = "truncate" /\ w.path = "keys" /\ w.text = text /\ w.next = "end"
        /\ w.call = proc[p].call /\ w.share = proc[p].share /\ w.token = proc[p].token
        /\ w.cred = proc[p].cred /\ w.shares = proc[p].shares /\ w.account = proc[p].account
        /\ w.stale = proc[p].stale
    BY <1>1, <2>1, SavingOK
  <2>3. Becomes(p, w)
    BY <1>4 DEF text
  <2> HIDE DEF w
  <2>4. ProcOK' /\ OthersStay(p) /\ proc'[p] = w /\ Busy' = Busy
    BY <1>1, <2>2, <2>3, BecomesOne
  <2> QED
    BY <2>2, <2>4 DEF IsSaving, Same, text
<1>5. proc[p].shares \in SUBSET Share
  BY <1>1 DEF CallOK, CallRecord
<1>6. CASE proc[p].call = "retain"
  <2>1. proc[p].shares \cup {proc[p].share} \in SUBSET Share
    BY <1>1, <1>5, <1>6 DEF CallOK, Placed
  <2>2. Becomes(p, Saving(proc[p], "keys", Keys(proc[p].shares \cup {proc[p].share}), "end"))
    BY <1>6 DEF SaveKeys
  <2> QED
    BY <1>1, <1>2, <1>3, <1>4, <1>6, <2>1, <2>2 DEF TypeOK
<1>7. CASE proc[p].call = "forget" /\ proc[p].share \in proc[p].shares
  <2>1. proc[p].shares \ {proc[p].share} \in SUBSET Share
    BY <1>5
  <2>2. Becomes(p, Saving(proc[p], "keys", Keys(proc[p].shares \ {proc[p].share}), "end"))
    BY <1>7 DEF SaveKeys
  <2> QED
    BY <1>1, <1>2, <1>3, <1>4, <1>7, <2>1, <2>2 DEF TypeOK
<1>8. CASE ~(proc[p].call = "retain")
           /\ ~(proc[p].call = "forget" /\ proc[p].share \in proc[p].shares)
  <2>1. Ends(p)
    BY <1>8 DEF SaveKeys
  <2>2. ProcOK' /\ OthersStay(p) /\ Ended(p)
    BY <2>1, BecomesOne DEF Ends, Ended
  <2> QED
    BY <1>1, <1>2, <1>3, <2>2 DEF TypeOK
<1> QED
  BY <1>6, <1>7, <1>8

(* What a write leaves behind, whether it succeeds or not.                 *)
LEMMA FillWrites ==
  ASSUME TypeOK, NEW p \in Process, Fill(p), CallOK(proc[p])
  PROVE  /\ ~mixed' => ~mixed /\ ~proc[p].stale /\ fs'[proc[p].path] = proc[p].text
         /\ fs'[proc[p].path] \in {proc[p].text, fs[proc[p].path], Missing, Torn}
         /\ \A other \in (CredFile \cup KeyFile \cup {"trust"}) \ {proc[p].path} : StillThere(other)
         /\ owed' = IF proc[p].next = "end" /\ proc[p].call = "retain"
                    THEN owed \cup {proc[p].share} ELSE owed
         /\ UNCHANGED <<expired, used, over, honoured>>
<1>1. PICK left \in Leaves(p, proc[p].text) : fs' = [fs EXCEPT ![proc[p].path] = left]
  BY DEF Fill
<1>2. proc[p].path \in CredFile \cup {"keys"} /\ proc[p].stale \in BOOLEAN
  BY DEF CallOK, CallRecord
<1>3. /\ fs'[proc[p].path] = left
      /\ \A other \in (CredFile \cup KeyFile \cup {"trust"}) \ {proc[p].path} : StillThere(other)
  BY <1>1, <1>2 DEF TypeOK, FilesOK, CredFile, KeyFile, StillThere
<1>4. /\ left \in {proc[p].text, fs[proc[p].path], Missing, Torn}
      /\ ~proc[p].stale => left = proc[p].text
  BY DEF Leaves
<1>5. ~mixed' => ~mixed /\ ~proc[p].stale
  BY DEF Fill
<1> QED
  BY <1>3, <1>4, <1>5 DEF Fill

LEMMA FillFailsWrites ==
  ASSUME TypeOK, NEW p \in Process, FillFails(p), CallOK(proc[p])
  PROVE  /\ fs'[proc[p].path] \in {fs[proc[p].path], Missing, Torn}
         /\ \A other \in (CredFile \cup KeyFile \cup {"trust"}) \ {proc[p].path} : StillThere(other)
         /\ ~mixed' => ~mixed /\ ~proc[p].stale /\ fs'[proc[p].path] = Torn
         /\ UNCHANGED <<expired, used, over, owed, honoured>>
<1>1. PICK left \in Leaves(p, Torn) : fs' = [fs EXCEPT ![proc[p].path] = left]
  BY DEF FillFails
<1>2. proc[p].path \in CredFile \cup {"keys"}
  BY DEF CallOK, CallRecord
<1>3. /\ fs'[proc[p].path] = left
      /\ \A other \in (CredFile \cup KeyFile \cup {"trust"}) \ {proc[p].path} : StillThere(other)
  BY <1>1, <1>2 DEF TypeOK, FilesOK, CredFile, KeyFile, StillThere
<1>4. left \in {fs[proc[p].path], Missing, Torn} /\ (~proc[p].stale => left = Torn)
  BY DEF Leaves
<1>5. ~mixed' => ~mixed /\ ~proc[p].stale
  BY DEF FillFails
<1> QED
  BY <1>3, <1>4, <1>5 DEF FillFails

LEMMA TruncateWrites ==
  ASSUME TypeOK, NEW p \in Process, Truncate(p), CallOK(proc[p])
  PROVE  /\ ~mixed' => ~mixed /\ ~proc[p].stale
         /\ fs'[proc[p].path] = Empty
         /\ \A other \in (CredFile \cup KeyFile \cup {"trust"}) \ {proc[p].path} : StillThere(other)
         /\ UNCHANGED <<expired, used, over, owed, honoured>>
<1>1. proc[p].path \in CredFile \cup {"keys"}
  BY DEF CallOK, CallRecord
<1>2. /\ fs'[proc[p].path] = Empty
      /\ \A other \in (CredFile \cup KeyFile \cup {"trust"}) \ {proc[p].path} : StillThere(other)
  BY <1>1 DEF Truncate, TypeOK, FilesOK, CredFile, KeyFile, StillThere
<1> QED
  BY <1>2 DEF Truncate

-----------------------------------------------------------------------------
(* Accounts.                                                               *)

OthersGoOn(p) == (OthersStay(p) \/ OthersUpset(p)) /\ Busy' \ {p} = Busy \ {p}

OwnOnDisk(path) == fs[path].kind = "cred" => Own(fs[path])

LEMMA AccountsKept ==
  ASSUME AccountsAreOwn, NEW p \in Process, OthersGoOn(p),
         ~mixed' => ~mixed, ~mixed' => \A path \in CredFile : OwnOnDisk(path)',
         ~mixed' => (fs'["trust"] # Missing => fs'["trust"].account # None),
         ~mixed' => (p \in Busy' => OwnInHand(proc'[p])),
         ~mixed' => \A h \in honoured' : AccountOf[h[1]] = h[2]
  PROVE  AccountsAreOwn'
<1> SUFFICES ASSUME ~mixed' PROVE \A q \in Busy' : OwnInHand(proc'[q])
  BY Zenon DEF AccountsAreOwn, OwnOnDisk
<1> SUFFICES ASSUME NEW q \in Busy', q # p PROVE OwnInHand(proc'[q])
  OBVIOUS
<1>1. q \in Busy /\ OwnInHand(proc[q])
  BY DEF OthersGoOn, AccountsAreOwn
<1>2. CASE OthersStay(p)
  BY <1>1, <1>2 DEF OthersStay, Busy
<1>3. CASE OthersUpset(p)
  BY <1>1, <1>3 DEF OthersUpset, Upset, OwnInHand, WritesCred
<1> QED
  BY <1>2, <1>3 DEF OthersGoOn

LEMMA FilesUnchanged ==
  ASSUME NEW path, AccountsAreOwn, ~mixed, path \in CredFile, fs'[path] = fs[path]
  PROVE  OwnOnDisk(path)'
BY DEF AccountsAreOwn, OwnOnDisk

LEMMA ReadsAccounts ==
  ASSUME AccountsAreOwn, NEW p \in Process, Reads(p), Busy' = Busy \/ Busy' = Busy \ {p},
         ~mixed => (p \in Busy' => OwnInHand(proc'[p]))
  PROVE  AccountsAreOwn'
<1>1. OthersGoOn(p) /\ (~mixed' => ~mixed)
  BY DEF Reads, OthersGoOn
<1>2. ~mixed' => \A path \in CredFile : OwnOnDisk(path)'
  BY FilesUnchanged DEF Reads
<1>3. /\ ~mixed' => (fs'["trust"] # Missing => fs'["trust"].account # None)
      /\ ~mixed' => \A h \in honoured' : AccountOf[h[1]] = h[2]
  BY DEF Reads, AccountsAreOwn
<1>4. ~mixed' => (p \in Busy' => OwnInHand(proc'[p]))
  BY DEF Reads
<1> QED
  BY <1>1, <1>2, <1>3, <1>4, AccountsKept

LEMMA AccountsInit == Init => AccountsAreOwn
<1> SUFFICES ASSUME Init PROVE AccountsAreOwn
  OBVIOUS
<1>1. PICK schema \in {0, 1}, here \in BOOLEAN, there \in BOOLEAN, old \in OldKeys :
        LET cred == Cred(FirstToken, IF schema = 0 THEN None ELSE AccountOf[FirstToken],
                         FALSE, schema)
        IN fs = [cred |-> IF here THEN cred ELSE Missing,
                 oldCred |-> IF there THEN cred ELSE Missing,
                 keys |-> Missing,
                 oldKeys |-> IF old = {} THEN Missing ELSE Keys(old),
                 trust |-> Missing]
  BY DEF Init
<1> DEFINE cred == Cred(FirstToken, IF schema = 0 THEN None ELSE AccountOf[FirstToken],
                        FALSE, schema)
<1>2. Own(cred)
  BY TokenAssumption DEF Own, Cred
<1> HIDE DEF cred
<1>3. /\ fs["cred"] \in {cred, Missing} /\ fs["oldCred"] \in {cred, Missing}
      /\ fs["trust"] = Missing
  BY <1>1 DEF cred
<1>4. \A path \in CredFile : fs[path].kind = "cred" => Own(fs[path])
  BY <1>2, <1>3, KindsOfText DEF CredFile
<1>5. Busy = {} /\ honoured = {}
  BY DEF Init, Busy, Idle
<1> QED
  BY <1>3, <1>4, <1>5 DEF AccountsAreOwn

LEMMA LoadedOwn ==
  ASSUME NEW r, NEW o, NEW next \in {"loaded", "migrate"}, NEW cred \in Creds, NEW path,
         NEW stale, LoadedAs(r, o, next, cred, path, stale), Own(cred), OwnInHand(o),
         o.pc # "readTrust"
  PROVE  OwnInHand(r)
<1>1. Own(Upgraded(cred))
  BY UpgradedType DEF Own
<1> QED
  BY <1>1 DEF LoadedAs, OwnInHand, WritesCred

LEMMA RemovalAccounts ==
  ASSUME AccountsAreOwn, NEW p \in Process,
         NEW at, NEW path \in CredFile \cup KeyFile, NEW next, Removal(p, at, path, next)
  PROVE  AccountsAreOwn'
<1>1. OthersGoOn(p) /\ p \in Busy /\ UNCHANGED <<honoured, mixed>>
  BY DEF Removal, OthersGoOn, Ended
<1>2. ~mixed' => \A other \in CredFile : OwnOnDisk(other)'
  <2> SUFFICES ASSUME ~mixed', NEW other \in CredFile PROVE OwnOnDisk(other)'
    OBVIOUS
  <2>1. CASE other = path
    BY <2>1, KindsOfText DEF Removal, OwnOnDisk
  <2>2. CASE other # path
    BY <1>1, <2>2, FilesUnchanged DEF Removal, StillThere
  <2> QED
    BY <2>1, <2>2
<1>3. fs'["trust"] = fs["trust"]
  BY DEF Removal, StillThere, CredFile, KeyFile
<1>4. ~mixed' => (p \in Busy' => OwnInHand(proc'[p]))
  <2> SUFFICES ASSUME ~mixed', p \in Busy' PROVE OwnInHand(proc'[p])
    OBVIOUS
  <2>1. OwnInHand(proc[p]) /\ IsAt(proc'[p], proc[p], next) /\ proc[p].call = "logout"
    BY <1>1 DEF AccountsAreOwn, Removal, Ended
  <2> QED
    BY <2>1 DEF IsAt, Same, OwnInHand
<1> QED
  BY <1>1, <1>2, <1>3, <1>4, AccountsKept DEF AccountsAreOwn

LEMMA AccountsStep ==
  ASSUME TypeOK, AccountsAreOwn, NEW p \in Process, Step(p)
  PROVE  AccountsAreOwn'
<1>0. ~mixed => \A q \in Busy : OwnInHand(proc[q])
  BY DEF AccountsAreOwn
<1>1. CASE Truncate(p)
  <2>1. OthersGoOn(p) /\ p \in Busy /\ CallOK(proc[p])
    BY <1>1, TruncateType DEF OthersGoOn
  <2>2. ~mixed' => \A path \in CredFile : OwnOnDisk(path)'
    <3> SUFFICES ASSUME ~mixed', NEW path \in CredFile PROVE OwnOnDisk(path)'
      OBVIOUS
    <3>1. CASE path = proc[p].path
      BY <1>1, <2>1, <3>1, TruncateWrites, KindsOfText DEF OwnOnDisk
    <3>2. CASE path # proc[p].path
      BY <1>1, <2>1, <3>2, TruncateWrites, FilesUnchanged DEF StillThere
    <3> QED
      BY <3>1, <3>2
  <2>3. fs'["trust"] = fs["trust"]
    BY <1>1, <2>1, TruncateWrites DEF StillThere, CallOK, CallRecord, CredFile
  <2>4. ~mixed' => OwnInHand(proc'[p])
    BY <1>0, <1>1, <2>1, TruncateType, TruncateWrites DEF OwnInHand
  <2> QED
    BY <1>1, <2>1, <2>2, <2>3, <2>4, TruncateWrites, AccountsKept DEF AccountsAreOwn
<1>2. CASE Fill(p)
  <2>1. OthersGoOn(p) /\ p \in Busy /\ CallOK(proc[p]) /\ proc[p].pc = "fill"
    BY <1>2, FillType DEF OthersGoOn
  <2>2. ~mixed' => \A path \in CredFile : OwnOnDisk(path)'
    <3> SUFFICES ASSUME ~mixed', NEW path \in CredFile PROVE OwnOnDisk(path)'
      OBVIOUS
    <3>1. CASE path = proc[p].path
      <4>1. WritesCred(proc[p])
        BY <2>1, <3>1 DEF WritesCred, Writing
      <4>2. ~mixed /\ ~proc[p].stale /\ fs'[path] = proc[p].text
        BY <1>2, <2>1, <3>1, FillWrites
      <4>3. Own(proc[p].text)
        BY <1>0, <2>1, <4>1, <4>2 DEF OwnInHand
      <4> QED
        BY <4>2, <4>3 DEF OwnOnDisk
    <3>2. CASE path # proc[p].path
      BY <1>2, <2>1, <3>2, FillWrites, FilesUnchanged DEF StillThere
    <3> QED
      BY <3>1, <3>2
  <2>3. fs'["trust"] = fs["trust"]
    BY <1>2, <2>1, FillWrites DEF StillThere, CallOK, CallRecord, CredFile
  <2>4. ~mixed' => (p \in Busy' => OwnInHand(proc'[p]))
    BY <1>0, <1>2, <2>1, FillType, FillWrites DEF OwnInHand, WentOn
  <2> QED
    BY <1>2, <2>1, <2>2, <2>3, <2>4, FillWrites, AccountsKept DEF AccountsAreOwn
<1>3. CASE FillFails(p)
  <2>1. OthersGoOn(p) /\ p \in Busy /\ CallOK(proc[p]) /\ proc[p].pc = "fill"
    BY <1>3, FillFailsType DEF OthersGoOn
  <2>2. ~mixed' => \A path \in CredFile : OwnOnDisk(path)'
    <3> SUFFICES ASSUME ~mixed', NEW path \in CredFile PROVE OwnOnDisk(path)'
      OBVIOUS
    <3>1. CASE fs'[path] \in {Missing, Torn}
      BY <3>1, KindsOfText DEF OwnOnDisk
    <3>2. CASE fs'[path] = fs[path]
      BY <1>3, <2>1, <3>2, FillFailsWrites, FilesUnchanged
    <3> QED
      BY <1>3, <2>1, <3>1, <3>2, FillFailsWrites DEF StillThere
  <2>3. fs'["trust"] = fs["trust"]
    BY <1>3, <2>1, FillFailsWrites DEF StillThere, CallOK, CallRecord, CredFile
  <2>4. ~mixed' => (p \in Busy' => OwnInHand(proc'[p]))
    BY <1>0, <1>3, <2>1, FillFailsType, FillFailsWrites DEF OwnInHand, WentOn
  <2> QED
    BY <1>3, <2>1, <2>2, <2>3, <2>4, FillFailsWrites, AccountsKept DEF AccountsAreOwn
<1>4. CASE Crash(p)
  <2>1. OthersGoOn(p) /\ p \notin Busy' /\ UNCHANGED <<fs, honoured, mixed>>
    BY <1>4, CrashType DEF OthersGoOn, Crash
  <2>2. ~mixed' => \A path \in CredFile : OwnOnDisk(path)'
    BY <2>1, FilesUnchanged
  <2> QED
    BY <2>1, <2>2, AccountsKept DEF AccountsAreOwn
<1>5. CASE ReadCred(p)
  <2>1. ~mixed => (p \in Busy' => OwnInHand(proc'[p]))
    <3> SUFFICES ASSUME ~mixed, p \in Busy' PROVE OwnInHand(proc'[p])
      OBVIOUS
    <3>1. OwnInHand(proc[p]) /\ proc[p].pc = "read"
      BY <1>0, <1>5, ReadCredStep DEF Reads
    <3>2. CASE IsAt(proc'[p], proc[p], "readOld")
      BY <3>1, <3>2 DEF IsAt, Same, OwnInHand
    <3>3. CASE /\ LoadedAs(proc'[p], proc[p], "loaded", fs["cred"], "cred", FALSE)
               /\ fs["cred"].kind = "cred" /\ fs["cred"] \in Creds
      <4>1. Own(fs["cred"])
        BY <3>3 DEF AccountsAreOwn, CredFile
      <4> QED
        BY <3>1, <3>3, <4>1, LoadedOwn
    <3> QED
      BY <1>5, <3>2, <3>3, ReadCredStep DEF Ended
  <2> QED
    BY <1>5, <2>1, ReadCredStep, ReadsAccounts DEF Ended
<1>6. CASE ReadOldCred(p)
  <2>1. ~mixed => (p \in Busy' => OwnInHand(proc'[p]))
    <3> SUFFICES ASSUME ~mixed, p \in Busy' PROVE OwnInHand(proc'[p])
      OBVIOUS
    <3>1. OwnInHand(proc[p]) /\ proc[p].pc = "readOld"
      BY <1>0, <1>6, ReadOldCredStep DEF Reads
    <3>2. CASE IsAt(proc'[p], proc[p], "loaded")
      BY <3>1, <3>2 DEF IsAt, Same, OwnInHand
    <3>3. CASE /\ LoadedAs(proc'[p], proc[p], "migrate", fs["oldCred"], "oldCred", proc[p].stale)
               /\ fs["oldCred"].kind = "cred" /\ fs["oldCred"] \in Creds
      <4>1. Own(fs["oldCred"])
        BY <3>3 DEF AccountsAreOwn, CredFile
      <4> QED
        BY <3>1, <3>3, <4>1, LoadedOwn
    <3> QED
      BY <1>6, <3>2, <3>3, ReadOldCredStep DEF Ended
  <2> QED
    BY <1>6, <2>1, ReadOldCredStep, ReadsAccounts DEF Ended
<1>7. CASE Migrate(p)
  <2>1. ~mixed => (p \in Busy' => OwnInHand(proc'[p]))
    BY <1>0, <1>7, MigrateStep DEF Reads, IsSaving, Same, OwnInHand
  <2> QED
    BY <1>7, <2>1, MigrateStep, ReadsAccounts
<1>8. CASE SavePrepared(p)
  <2>1. ~mixed => (p \in Busy' => OwnInHand(proc'[p]))
    BY <1>0, <1>8, SavePreparedStep DEF Reads, IsSaving, Same, OwnInHand, Own
  <2> QED
    BY <1>8, <2>1, SavePreparedStep, ReadsAccounts
<1>9. CASE SaveLogin(p)
  <2>1. ~mixed => (p \in Busy' => OwnInHand(proc'[p]))
    BY <1>0, <1>9, SaveLoginStep, TokenAssumption DEF Reads, IsSaving, Same, OwnInHand, Own
  <2> QED
    BY <1>9, <2>1, SaveLoginStep, ReadsAccounts
<1>10. CASE EndLoad(p)
  BY <1>10, EndLoadStep, ReadsAccounts DEF Ended
<1>11. CASE SaveSignedTrust(p)
  <2>1. OthersGoOn(p) /\ p \in Busy /\ UNCHANGED <<honoured, mixed>>
    BY <1>11, SaveSignedTrustStep DEF OthersGoOn, Ended
  <2>2. ~mixed' => \A path \in CredFile : OwnOnDisk(path)'
    BY <1>11, <2>1, SaveSignedTrustStep, FilesUnchanged DEF CredFile, StillThere
  <2>3. ~mixed' => (fs'["trust"] # Missing => fs'["trust"].account # None)
    BY <1>11, <2>1, SaveSignedTrustStep DEF AccountsAreOwn, StillThere
  <2>4. ~mixed' => (p \in Busy' => OwnInHand(proc'[p]))
    BY <1>0, <1>11, <2>1, SaveSignedTrustStep DEF OwnInHand, Ended
  <2> QED
    BY <2>1, <2>2, <2>3, <2>4, AccountsKept DEF AccountsAreOwn
<1>12. CASE BindAccount(p)
  <2>1. OthersGoOn(p) /\ p \in Busy /\ UNCHANGED <<honoured, mixed>>
    BY <1>12, BindAccountStep DEF OthersGoOn, Ended
  <2>2. ~mixed' => \A path \in CredFile : OwnOnDisk(path)'
    BY <1>12, <2>1, BindAccountStep, FilesUnchanged DEF CredFile, StillThere
  <2>3. ~mixed' => (fs'["trust"] # Missing => fs'["trust"].account # None)
    BY <1>12, <2>1, BindAccountStep DEF AccountsAreOwn, StillThere
  <2>4. ~mixed' => (p \in Busy' => OwnInHand(proc'[p]))
    BY <1>0, <1>12, <2>1, BindAccountStep DEF OwnInHand, Own, Ended, IsSaving, Same
  <2> QED
    BY <2>1, <2>2, <2>3, <2>4, AccountsKept DEF AccountsAreOwn
<1>13. CASE ReadTrust(p)
  <2>1. ~mixed => (p \in Busy' => OwnInHand(proc'[p]))
    BY <1>0, <1>13, ReadTrustStep DEF Reads, Ended, Same, OwnInHand, AccountsAreOwn
  <2> QED
    BY <1>13, <2>1, ReadTrustStep, ReadsAccounts DEF Ended
<1>14. CASE Verify(p)
  <2>1. OthersGoOn(p) /\ p \in Busy /\ p \notin Busy' /\ UNCHANGED <<fs, mixed>>
    BY <1>14, VerifyStep DEF OthersGoOn, Ended
  <2>2. ~mixed' => \A path \in CredFile : OwnOnDisk(path)'
    BY <2>1, FilesUnchanged
  <2>3. ~mixed' => \A h \in honoured' : AccountOf[h[1]] = h[2]
    <3> SUFFICES ASSUME ~mixed', NEW h \in honoured' PROVE AccountOf[h[1]] = h[2]
      OBVIOUS
    <3>1. CASE h \in honoured
      BY <2>1, <3>1 DEF AccountsAreOwn
    <3>2. CASE h \notin honoured
      <4>1. /\ proc[p].cred.account = proc[p].account
            /\ h = <<proc[p].cred.token, proc[p].account>>
        BY <1>14, <3>2, VerifyStep
      <4>2. Own(proc[p].cred) /\ proc[p].account # None
        BY <1>0, <1>14, <2>1, VerifyStep DEF OwnInHand
      <4> QED
        BY <4>1, <4>2 DEF Own
    <3> QED
      BY <3>1, <3>2
  <2> QED
    BY <2>1, <2>2, <2>3, AccountsKept DEF AccountsAreOwn
<1>15. CASE RemoveCred(p) \/ RemoveOldCred(p) \/ RemoveOldKeys(p) \/ RemoveKeys(p)
  BY <1>15, LogoutSteps, RemovalAccounts DEF CredFile, KeyFile
<1>16. CASE ReadKeys(p)
  <2>1. ~mixed => (p \in Busy' => OwnInHand(proc'[p]))
    BY <1>0, <1>16, ReadKeysStep DEF Reads, Ended, IsAt, Same, OwnInHand, KeyCall
  <2> QED
    BY <1>16, <2>1, ReadKeysStep, ReadsAccounts DEF Ended
<1>17. CASE ReadOldKeys(p)
  <2>1. ~mixed => (p \in Busy' => OwnInHand(proc'[p]))
    BY <1>0, <1>17, ReadOldKeysStep DEF Reads, IsAt, Same, OwnInHand, KeyCall
  <2> QED
    BY <1>17, <2>1, ReadOldKeysStep, ReadsAccounts
<1>18. CASE Prune(p)
  <2>1. ~mixed => (p \in Busy' => OwnInHand(proc'[p]))
    BY <1>0, <1>18, PruneStep
    DEF Reads, IsAt, IsSaving, Same, OwnInHand, WritesCred, CredFile, KeyCall
  <2> QED
    BY <1>18, <2>1, PruneStep, ReadsAccounts
<1>19. CASE DropOld(p)
  <2>1. OthersGoOn(p) /\ p \in Busy /\ UNCHANGED <<honoured, mixed>>
    BY <1>19, DropOldStep DEF OthersGoOn
  <2>2. ~mixed' => \A path \in CredFile : OwnOnDisk(path)'
    BY <1>19, <2>1, DropOldStep, FilesUnchanged DEF CredFile, StillThere
  <2>3. fs'["trust"] = fs["trust"]
    BY <1>19, DropOldStep DEF StillThere
  <2>4. ~mixed' => (p \in Busy' => OwnInHand(proc'[p]))
    BY <1>0, <1>19, <2>1, DropOldStep DEF IsAt, Same, OwnInHand, KeyCall
  <2> QED
    BY <2>1, <2>2, <2>3, <2>4, AccountsKept DEF AccountsAreOwn
<1>20. CASE SaveKeys(p)
  <2>1. OthersGoOn(p) /\ p \in Busy /\ UNCHANGED <<fs, honoured, mixed>>
    BY <1>20, SaveKeysStep DEF OthersGoOn, Ended
  <2>2. ~mixed' => \A path \in CredFile : OwnOnDisk(path)'
    BY <2>1, FilesUnchanged
  <2>3. ~mixed' => (p \in Busy' => OwnInHand(proc'[p]))
    BY <1>0, <1>20, <2>1, SaveKeysStep
    DEF Ended, IsSaving, Same, OwnInHand, WritesCred, CredFile, KeyCall
  <2> QED
    BY <2>1, <2>2, <2>3, AccountsKept DEF AccountsAreOwn
<1> QED
  BY <1>1, <1>2, <1>3, <1>4, <1>5, <1>6, <1>7, <1>8, <1>9, <1>10, <1>11, <1>12, <1>13, <1>14,
     <1>15, <1>16, <1>17, <1>18, <1>19, <1>20 DEF Step

-----------------------------------------------------------------------------
(* Retained keys.                                                          *)

LEMMA NothingInHand ==
  ASSUME NEW p, proc'[p].pc \notin {"readOldKeys", "prune", "dropOld", "have"},
         ~WritesKeys(proc'[p])
  PROVE  WantedInHand(proc[p])'
BY DEF WantedInHand, WritesKeys

LEMMA HandKept ==
  ASSUME NEW q, WantedInHand(proc[q]), proc'[q] = proc[q], Wanted' \subseteq Wanted
  PROVE  WantedInHand(proc[q])'
BY DEF WantedInHand, WritesKeys

LEMMA NothingWanted ==
  ASSUME Wanted' = {}, FilesOK' PROVE KeysReachDisk'
BY DEF KeysReachDisk

LEMMA DiskKept ==
  ASSUME KeysReachDisk, NEW p \in Process, OthersGoOn(p), StillThere("keys"),
         Wanted' \subseteq Wanted
  PROVE  KeysReachDisk'
<1>1. fs'["keys"] = Missing => Wanted' = {}
  BY DEF KeysReachDisk, StillThere
<1>2. fs'["keys"].kind = "keys" => Wanted' \subseteq fs'["keys"].shares
  BY DEF KeysReachDisk, StillThere
<1> QED
  BY <1>1, <1>2 DEF KeysReachDisk

LEMMA WantedKept ==
  ASSUME WantedIsKept, NEW p \in Process, OthersGoOn(p), ~mixed' => ~mixed,
         ~mixed' => KeysReachDisk',
         ~mixed' => (p \in Busy' => proc'[p].stale \/ WantedInHand(proc[p])'),
         OthersUpset(p) \/ Wanted' \subseteq Wanted
  PROVE  WantedIsKept'
<1> SUFFICES ASSUME ~mixed' PROVE \A q \in Busy' : proc'[q].stale \/ WantedInHand(proc[q])'
  BY DEF WantedIsKept
<1> SUFFICES ASSUME NEW q \in Busy', q # p PROVE proc'[q].stale \/ WantedInHand(proc[q])'
  OBVIOUS
<1>1. q \in Busy /\ q \in Process /\ (proc[q].stale \/ WantedInHand(proc[q]))
  BY DEF OthersGoOn, WantedIsKept, Busy
<1>2. CASE OthersUpset(p)
  BY <1>1, <1>2 DEF OthersUpset, Upset
<1>3. CASE OthersStay(p) /\ Wanted' \subseteq Wanted
  <2>1. proc'[q] = proc[q]
    BY <1>1, <1>3 DEF OthersStay
  <2> QED
    BY <1>1, <1>3, <2>1, HandKept
<1> QED
  BY <1>2, <1>3 DEF OthersGoOn

LEMMA ReadsWanted ==
  ASSUME WantedIsKept, NEW p \in Process, Reads(p), proc[p].pc # "fill",
         Busy' = Busy \/ Busy' = Busy \ {p},
         ~mixed => (p \in Busy' => proc'[p].stale \/ WantedInHand(proc[p])')
  PROVE  WantedIsKept'
<1>1. OthersGoOn(p) /\ mixed' = mixed /\ StillThere("keys") /\ Wanted' = Wanted
  BY DEF Reads, OthersGoOn, StillThere, Wanted
<1>2. ~mixed' => KeysReachDisk'
  BY <1>1, DiskKept DEF WantedIsKept
<1> QED
  BY <1>1, <1>2, WantedKept

LEMMA RemovalWanted ==
  ASSUME WantedIsKept, NEW p \in Process, NEW at \in Removing, NEW path \in CredFile \cup KeyFile,
         NEW next, next = "end" \/ next \in Removing, Removal(p, at, path, next)
  PROVE  WantedIsKept'
<1>1. /\ OthersGoOn(p) /\ p \in Busy /\ mixed' = mixed /\ OthersUpset(p)
      /\ proc[p].pc # "fill"
  BY DEF Removal, OthersGoOn, Ended, Removing
<1>2. ~mixed' => KeysReachDisk'
  <2>1. CASE path = "keys"
    BY <2>1, NothingWanted DEF Removal, Wanted, TypeOK
  <2>2. CASE path # "keys"
    <3>1. StillThere("keys") /\ Wanted' = Wanted
      BY <2>2 DEF Removal, KeyFile, Wanted
    <3> QED
      BY <1>1, <3>1, DiskKept DEF WantedIsKept
  <2> QED
    BY <2>1, <2>2
<1>3. p \in Busy' => WantedInHand(proc[p])'
  BY <1>1, NothingInHand DEF Removal, Ended, IsAt, Removing
<1> QED
  BY <1>1, <1>2, <1>3, WantedKept

LEMMA WantedStep ==
  ASSUME TypeOK, WantedIsKept, NEW p \in Process, Step(p)
  PROVE  WantedIsKept'
<1>0. ~mixed => KeysReachDisk /\ \A q \in Busy : proc[q].stale \/ WantedInHand(proc[q])
  BY DEF WantedIsKept
<1>1. CASE Truncate(p)
  <2>1. /\ OthersGoOn(p) /\ p \in Busy /\ p \in Busy' /\ CallOK(proc[p]) /\ OthersUpset(p)
        /\ proc[p].pc = "truncate"
    BY <1>1, TruncateType DEF OthersGoOn
  <2>2. Wanted' = Wanted
    BY <1>1, <2>1, TruncateWrites DEF Wanted
  <2>3. ~mixed' => KeysReachDisk'
    <3>1. CASE proc[p].path = "keys"
      <4>1. fs'["keys"] = Empty /\ proc'[p].pc = "fill" /\ proc'[p].path = "keys"
        BY <1>1, <2>1, <3>1, TruncateWrites, TruncateType
      <4> QED
        BY <2>1, <4>1, KindsOfText DEF KeysReachDisk
    <3>2. CASE proc[p].path # "keys"
      BY <1>0, <1>1, <2>1, <2>2, <3>2, TruncateWrites, DiskKept DEF KeyFile
    <3> QED
      BY <3>1, <3>2
  <2>4. ~mixed' => proc'[p].stale \/ WantedInHand(proc[p])'
    <3> SUFFICES ASSUME ~mixed' PROVE WantedInHand(proc[p])'
      OBVIOUS
    <3>1. WantedInHand(proc[p])
      BY <1>0, <1>1, <2>1, TruncateWrites
    <3> QED
      BY <1>1, <2>1, <2>2, <3>1, TruncateType DEF WantedInHand, WritesKeys
  <2> QED
    BY <1>1, <2>1, <2>2, <2>3, <2>4, TruncateWrites, WantedKept
<1>2. CASE Fill(p)
  <2>1. /\ OthersGoOn(p) /\ p \in Busy /\ CallOK(proc[p]) /\ OthersUpset(p)
        /\ proc[p].pc = "fill"
    BY <1>2, FillType DEF OthersGoOn
  <2>2. CASE proc[p].path = "keys"
    <3>1. WritesKeys(proc[p]) /\ proc[p].text \in Stores /\ proc[p].call \in KeyCall
          /\ proc[p].next \in {"end", "dropOld"}
      BY <2>1, <2>2 DEF WritesKeys, Writing, CallOK, Placed
    <3>2. ASSUME ~mixed'
          PROVE  /\ Wanted' \subseteq proc[p].text.shares /\ fs'["keys"] = proc[p].text
                 /\ proc[p].next = "dropOld" => proc[p].text.shares = proc[p].shares
      <4>1. WantedInHand(proc[p])
        BY <1>0, <1>2, <2>1, <3>2, FillWrites
      <4>2. Wanted' \subseteq Wanted \cup (IF proc[p].next = "end" /\ proc[p].call = "retain"
                                         THEN {proc[p].share} ELSE {})
        BY <1>2, <2>1, FillWrites DEF Wanted
      <4> QED
        BY <1>2, <2>1, <2>2, <3>1, <3>2, <4>1, <4>2, FillWrites DEF WantedInHand
    <3>3. ~mixed' => KeysReachDisk'
      BY <3>1, <3>2, KindsOfText DEF KeysReachDisk
    <3>4. ~mixed' => (p \in Busy' => proc'[p].stale \/ WantedInHand(proc[p])')
      BY <1>2, <3>1, <3>2, FillType DEF WentOn, WantedInHand
    <3> QED
      BY <1>2, <2>1, <3>3, <3>4, FillWrites, WantedKept
  <2>3. CASE proc[p].path # "keys"
    <3>1. WritesCred(proc[p]) /\ proc[p].call \in CredCall
          /\ proc[p].next \in {"end", "loaded", "migrate", "approved"}
      BY <2>1, <2>3 DEF WritesCred, Writing, CallOK, Placed, CallRecord
    <3>2. Wanted' = Wanted /\ StillThere("keys")
      BY <1>2, <2>1, <2>3, <3>1, FillWrites DEF Wanted, CredCall, KeyFile
    <3>3. ~mixed' => KeysReachDisk'
      BY <1>0, <1>2, <2>1, <2>3, <3>2, FillWrites, DiskKept
    <3>4. p \in Busy' => WantedInHand(proc[p])'
      BY <1>2, <3>1, FillType, NothingInHand DEF WentOn
    <3> QED
      BY <1>2, <2>1, <3>3, <3>4, FillWrites, WantedKept
  <2> QED
    BY <2>2, <2>3
<1>3. CASE FillFails(p)
  <2>1. /\ OthersGoOn(p) /\ p \in Busy /\ CallOK(proc[p]) /\ OthersUpset(p)
        /\ proc[p].pc = "fill" /\ Wanted' = Wanted
        /\ ~mixed' => ~mixed /\ ~proc[p].stale /\ fs'[proc[p].path] = Torn
    BY <1>3, FillFailsType, FillFailsWrites DEF OthersGoOn, Wanted
  <2>2. CASE proc[p].path = "keys"
    <3>1. WritesKeys(proc[p]) /\ proc[p].call \in KeyCall /\ proc[p].next \in {"end", "dropOld"}
      BY <2>1, <2>2 DEF WritesKeys, Writing, CallOK, Placed
    <3>2. ~mixed' => KeysReachDisk'
      BY <2>1, <2>2, KindsOfText DEF KeysReachDisk
    <3>3. ASSUME ~mixed', p \in Busy' PROVE WantedInHand(proc[p])'
      <4>1. WantedInHand(proc[p])
        BY <1>0, <2>1, <3>3
      <4> QED
        BY <1>3, <2>1, <3>1, <3>3, <4>1, FillFailsType DEF WentOn, WantedInHand
    <3> QED
      BY <2>1, <3>2, <3>3, WantedKept
  <2>3. CASE proc[p].path # "keys"
    <3>1. WritesCred(proc[p]) /\ proc[p].next \in {"end", "loaded", "migrate", "approved"}
      BY <2>1, <2>3 DEF WritesCred, Writing, CallOK, Placed, CallRecord
    <3>2. StillThere("keys")
      BY <1>3, <2>1, <2>3, FillFailsWrites DEF KeyFile
    <3>3. ~mixed' => KeysReachDisk'
      BY <1>0, <2>1, <2>3, <3>2, DiskKept
    <3>4. p \in Busy' => WantedInHand(proc[p])'
      BY <1>3, <3>1, FillFailsType, NothingInHand DEF WentOn
    <3> QED
      BY <2>1, <3>3, <3>4, WantedKept
  <2> QED
    BY <2>2, <2>3
<1>4. CASE Crash(p)
  <2>1. OthersGoOn(p) /\ p \notin Busy' /\ UNCHANGED <<fs, expired, owed, mixed>>
    BY <1>4, CrashType DEF OthersGoOn, Crash
  <2>2. Wanted' = Wanted /\ StillThere("keys")
    BY <2>1 DEF Wanted, StillThere
  <2>3. ~mixed' => KeysReachDisk'
    BY <1>0, <2>1, <2>2, DiskKept
  <2> QED
    BY <2>1, <2>2, <2>3, WantedKept
<1>5. CASE ReadCred(p)
  <2>1. p \in Busy' => WantedInHand(proc[p])'
    BY <1>5, ReadCredStep, NothingInHand
    DEF IsAt, LoadedAs, WritesKeys, Ended
  <2> QED
    BY <1>5, <2>1, ReadCredStep, ReadsWanted DEF Ended
<1>6. CASE ReadOldCred(p)
  <2>1. p \in Busy' => WantedInHand(proc[p])'
    BY <1>6, ReadOldCredStep, NothingInHand
    DEF IsAt, LoadedAs, WritesKeys, Ended
  <2> QED
    BY <1>6, <2>1, ReadOldCredStep, ReadsWanted DEF Ended
<1>7. CASE Migrate(p)
  BY <1>7, MigrateStep, NothingInHand, ReadsWanted DEF IsSaving, WritesKeys
<1>8. CASE SavePrepared(p)
  BY <1>8, SavePreparedStep, NothingInHand, ReadsWanted DEF IsSaving, WritesKeys
<1>9. CASE SaveLogin(p)
  BY <1>9, SaveLoginStep, NothingInHand, ReadsWanted DEF IsSaving, WritesKeys
<1>10. CASE EndLoad(p)
  BY <1>10, EndLoadStep, ReadsWanted DEF Ended, EndLoad
<1>11. CASE SaveSignedTrust(p)
  <2>1. /\ OthersGoOn(p) /\ mixed' = mixed /\ Wanted' = Wanted /\ StillThere("keys")
        /\ proc[p].pc # "fill"
    BY <1>11, SaveSignedTrustStep DEF OthersGoOn, Ended, Wanted
  <2>2. p \in Busy' => WantedInHand(proc[p])'
    BY <1>11, SaveSignedTrustStep, NothingInHand DEF Ended
  <2> QED
    BY <1>0, <2>1, <2>2, DiskKept, WantedKept
<1>12. CASE BindAccount(p)
  <2>1. /\ OthersGoOn(p) /\ mixed' = mixed /\ Wanted' = Wanted /\ StillThere("keys")
        /\ proc[p].pc # "fill"
    BY <1>12, BindAccountStep DEF OthersGoOn, Ended, Wanted
  <2>2. p \in Busy' => WantedInHand(proc[p])'
    BY <1>12, BindAccountStep, NothingInHand DEF Ended, IsSaving, WritesKeys
  <2> QED
    BY <1>0, <2>1, <2>2, DiskKept, WantedKept
<1>13. CASE ReadTrust(p)
  BY <1>13, ReadTrustStep, NothingInHand, ReadsWanted DEF Ended, ReadTrust
<1>14. CASE Verify(p)
  <2>1. /\ OthersGoOn(p) /\ mixed' = mixed /\ Wanted' = Wanted /\ StillThere("keys")
        /\ proc[p].pc # "fill" /\ p \notin Busy'
    BY <1>14, VerifyStep DEF OthersGoOn, Ended, Wanted, StillThere
  <2> QED
    BY <1>0, <2>1, DiskKept, WantedKept
<1>15. CASE RemoveCred(p) \/ RemoveOldCred(p) \/ RemoveOldKeys(p) \/ RemoveKeys(p)
  BY <1>15, LogoutSteps, RemovalWanted DEF CredFile, KeyFile, Removing
<1>16. CASE ReadKeys(p)
  <2>1. ~mixed => (p \in Busy' => proc'[p].stale \/ WantedInHand(proc[p])')
    BY <1>0, <1>16, ReadKeysStep DEF Reads, Ended, IsAt, WantedInHand, KeysReachDisk, Wanted
  <2> QED
    BY <1>16, <2>1, ReadKeysStep, ReadsWanted DEF Ended
<1>17. CASE ReadOldKeys(p)
  <2>1. ~mixed => (p \in Busy' => proc'[p].stale \/ WantedInHand(proc[p])')
    BY <1>0, <1>17, ReadOldKeysStep DEF Reads, IsAt, WantedInHand, Wanted
  <2> QED
    BY <1>17, <2>1, ReadOldKeysStep, ReadsWanted
<1>18. CASE Prune(p)
  <2>1. ~mixed => (p \in Busy' => proc'[p].stale \/ WantedInHand(proc[p])')
    <3> SUFFICES ASSUME ~mixed, ~proc'[p].stale PROVE WantedInHand(proc[p])'
      OBVIOUS
    <3>1. Wanted' = Wanted /\ Wanted \subseteq proc'[p].shares
      BY <1>0, <1>18, PruneStep DEF Reads, WantedInHand, Wanted
    <3>2. CASE IsAt(proc'[p], proc[p], "dropOld")
      BY <3>1, <3>2 DEF IsAt, WantedInHand
    <3>3. CASE IsSaving(proc'[p], proc[p], "keys", Keys(proc[p].shares \ expired), "dropOld")
      BY <1>18, <3>1, <3>3, PruneStep DEF IsSaving, WantedInHand, Keys
    <3> QED
      BY <1>18, <3>2, <3>3, PruneStep
  <2> QED
    BY <1>18, <2>1, PruneStep, ReadsWanted
<1>19. CASE DropOld(p)
  <2>1. /\ OthersGoOn(p) /\ p \in Busy /\ mixed' = mixed /\ Wanted' = Wanted
        /\ StillThere("keys") /\ proc[p].pc # "fill"
    BY <1>19, DropOldStep DEF OthersGoOn, Wanted
  <2>2. ~mixed' => (p \in Busy' => proc'[p].stale \/ WantedInHand(proc[p])')
    BY <1>0, <1>19, <2>1, DropOldStep DEF IsAt, WantedInHand
  <2> QED
    BY <1>0, <2>1, <2>2, DiskKept, WantedKept
<1>20. CASE SaveKeys(p)
  <2>1. /\ OthersGoOn(p) /\ p \in Busy /\ mixed' = mixed /\ Wanted' \subseteq Wanted
        /\ StillThere("keys") /\ proc[p].pc # "fill"
    BY <1>20, SaveKeysStep DEF OthersGoOn, Ended, Wanted, StillThere
  <2>2. ~mixed' => (p \in Busy' => proc'[p].stale \/ WantedInHand(proc[p])')
    <3> SUFFICES ASSUME ~mixed', p \in Busy', ~proc'[p].stale PROVE WantedInHand(proc[p])'
      OBVIOUS
    <3>1. PICK shares \in SUBSET Share :
            /\ IsSaving(proc'[p], proc[p], "keys", Keys(shares), "end")
            /\ \/ proc[p].call = "retain" /\ shares = proc[p].shares \cup {proc[p].share}
               \/ /\ proc[p].call = "forget" /\ shares = proc[p].shares \ {proc[p].share}
                  /\ owed' = owed \ {proc[p].share}
      BY <1>20, SaveKeysStep DEF Ended
    <3>2. Wanted \subseteq proc[p].shares /\ expired' = expired
      BY <1>0, <1>20, <2>1, <3>1, SaveKeysStep DEF Ended, WantedInHand
    <3>3. Wanted' \subseteq shares
      BY <2>1, <3>1, <3>2 DEF Wanted
    <3>4. /\ proc'[p].pc = "truncate" /\ proc'[p].text.shares = shares /\ proc'[p].next = "end"
          /\ proc'[p].call = proc[p].call /\ proc'[p].share = proc[p].share
      BY <3>1 DEF IsSaving, Same, Keys
    <3> QED
      BY <3>1, <3>3, <3>4 DEF WantedInHand
  <2> QED
    BY <1>0, <2>1, <2>2, DiskKept, WantedKept
<1> QED
  BY <1>1, <1>2, <1>3, <1>4, <1>5, <1>6, <1>7, <1>8, <1>9, <1>10, <1>11, <1>12, <1>13, <1>14,
     <1>15, <1>16, <1>17, <1>18, <1>19, <1>20 DEF Step

-----------------------------------------------------------------------------
(* Tokens.                                                                 *)

CredToken(path) == IF fs[path].kind = "cred" THEN {fs[path].token} ELSE {}

LEMMA UsedKept ==
  ASSUME AllUsed, NEW p \in Process, OthersGoOn(p), used' = used, over' \subseteq used,
         \A path \in CredFile : CredToken(path)' \subseteq used \cup {None},
         p \in Busy' => UsedInHand(proc[p])'
  PROVE  AllUsed'
<1>1. \A q \in Busy' : UsedInHand(proc[q])'
  <2> SUFFICES ASSUME NEW q \in Busy', q # p PROVE UsedInHand(proc[q])'
    OBVIOUS
  <2>1. q \in Busy /\ q \in Process /\ UsedInHand(proc[q])
    BY DEF OthersGoOn, AllUsed, Busy
  <2>2. CASE OthersStay(p)
    BY <2>1, <2>2 DEF OthersStay, UsedInHand, WritesCred
  <2>3. CASE OthersUpset(p)
    BY <2>1, <2>3 DEF OthersUpset, Upset, UsedInHand, WritesCred
  <2> QED
    BY <2>2, <2>3 DEF OthersGoOn
<1>2. \A path \in CredFile : fs'[path].kind = "cred" => fs'[path].token \in used' \cup {None}
  BY DEF CredToken
<1> QED
  BY <1>1, <1>2 DEF AllUsed

Free(t) == t \notin over /\ \A path \in CredFile : t \notin CredToken(path)

LEMMA FreshKept ==
  ASSUME LoginIsFresh, NEW p \in Busy, OthersGoOn(p),
         \A t \in Token : Free(t) /\ Foreign(t, proc[p])
           => Free(t)' /\ (p \in Busy' => Foreign(t, proc'[p])),
         \A q \in Busy : proc[q].call = "login" => proc[q].token \in Token,
         p \in Busy' /\ proc'[p].call = "login" =>
           /\ proc[p].call = "login" /\ proc'[p].token = proc[p].token
           /\ Free(proc[p].token) /\ OnlyMine(proc[p].token, proc[p])
                => Free(proc[p].token)' /\ OnlyMine(proc[p].token, proc'[p])
  PROVE  LoginIsFresh'
<1> DEFINE StillFree(t) == /\ t \notin over'
                           /\ \A path \in CredFile : fs'[path].kind = "cred" => fs'[path].token # t
           Fresh(t, l) == /\ StillFree(t) /\ OnlyMine(t, proc'[l])
                          /\ \A q \in Busy' \ {l} : Foreign(t, proc'[q])
<1>1. ASSUME NEW q \in Busy', q # p
      PROVE  /\ q \in Busy /\ proc'[q].call = proc[q].call /\ proc'[q].token = proc[q].token
             /\ \A t : Foreign(t, proc[q]) => Foreign(t, proc'[q])
             /\ \A t : OnlyMine(t, proc[q]) => OnlyMine(t, proc'[q])
  <2>1. q \in Busy /\ q \in Process
    BY <1>1 DEF OthersGoOn, Busy
  <2>2. CASE OthersStay(p)
    BY <1>1, <2>1, <2>2 DEF OthersStay
  <2>3. CASE OthersUpset(p)
    <3>1. Upset(proc'[q], proc[q])
      BY <1>1, <2>1, <2>3 DEF OthersUpset
    <3> QED
      BY <2>1, <3>1 DEF Upset, Foreign, OnlyMine, WritesCred
  <2> QED
    BY <2>2, <2>3 DEF OthersGoOn
<1>2. ASSUME NEW l \in Busy, proc[l].call = "login"
      PROVE  /\ proc[l].token \in Token /\ Free(proc[l].token) /\ OnlyMine(proc[l].token, proc[l])
             /\ \A q \in Busy \ {l} : Foreign(proc[l].token, proc[q])
  BY <1>2 DEF LoginIsFresh, Free, CredToken
<1>3. ASSUME NEW t, Free(t)' PROVE StillFree(t)
  BY <1>3 DEF Free, CredToken
<1> HIDE DEF StillFree
<1>4. ASSUME NEW l \in Busy', proc'[l].call = "login"
      PROVE  Fresh(proc'[l].token, l)
  <2>1. CASE l = p
    <3>1. proc[p].call = "login" /\ proc'[p].token = proc[p].token
      BY <1>4, <2>1
    <3>2. StillFree(proc[p].token) /\ OnlyMine(proc[p].token, proc'[p])
      BY <1>2, <1>4, <2>1, <3>1, <1>3
    <3>3. \A q \in Busy' \ {p} : Foreign(proc[p].token, proc'[q])
      BY <1>1, <1>2, <3>1
    <3>4. Fresh(proc[p].token, p)
      BY <3>2, <3>3
    <3> QED
      BY <2>1, <3>1, <3>4
  <2>2. CASE l # p
    <3>1. l \in Busy /\ proc[l].call = "login" /\ proc'[l].token = proc[l].token
      BY <1>1, <1>4, <2>2
    <3>2. StillFree(proc[l].token) /\ (p \in Busy' => Foreign(proc[l].token, proc'[p]))
      BY <1>2, <2>2, <3>1, <1>3
    <3>3. \A q \in Busy' \ {l} : Foreign(proc[l].token, proc'[q])
      BY <1>1, <1>2, <3>1, <3>2
    <3>4. OnlyMine(proc[l].token, proc'[l])
      BY <1>1, <1>2, <1>4, <2>2, <3>1
    <3>5. Fresh(proc[l].token, l)
      BY <3>2, <3>3, <3>4
    <3> QED
      BY <3>1, <3>5
  <2> QED
    BY <2>1, <2>2
<1> QED
  BY <1>4 DEF LoginIsFresh, StillFree

\* Both at once: p takes what tokens it has in hand from its hands and the files, and
\* leaves no others behind.
InHand(r) == {r.token, r.cred.token} \cup (IF WritesCred(r) THEN {r.text.token} ELSE {})
OnDisk == CredToken("cred") \cup CredToken("oldCred")

LEMMA TokensKept ==
  ASSUME TypeOK, AllUsed, LoginIsFresh, NEW p \in Busy, OthersGoOn(p), used' = used,
         over' = over \/ (over' = over \cup {proc[p].token} /\ proc[p].token \in Token),
         OnDisk' \subseteq OnDisk \cup InHand(proc[p]),
         p \in Busy' => InHand(proc'[p]) \subseteq OnDisk \cup InHand(proc[p]),
         p \in Busy' /\ proc'[p].call = "login" =>
           /\ proc[p].call = "login" /\ proc'[p].token = proc[p].token /\ over' = over
           /\ proc[p].token \in OnDisk' => proc[p].token \in OnDisk
           /\ OnlyMine(proc[p].token, proc[p]) /\ proc[p].token \notin OnDisk
                => OnlyMine(proc[p].token, proc'[p])
  PROVE  AllUsed' /\ LoginIsFresh'
<1>1. \A r : \A t : Foreign(t, r) <=> t \notin InHand(r)
  BY DEF Foreign, InHand
<1>2. \A r : UsedInHand(r) <=> InHand(r) \subseteq used \cup {None}
  BY DEF UsedInHand, InHand
<1>3. \A r : UsedInHand(r)' <=> InHand(r) \subseteq used \cup {None}
  BY DEF UsedInHand, InHand
<1>4. \A t : Free(t) <=> t \notin over /\ t \notin OnDisk
  BY DEF Free, OnDisk, CredFile
<1>5. \A t : Free(t)' <=> t \notin over' /\ t \notin OnDisk'
  BY DEF Free, OnDisk, CredFile
<1>6. OnDisk \subseteq used \cup {None} /\ UsedInHand(proc[p]) /\ over \subseteq used
  BY DEF AllUsed, OnDisk, CredToken, CredFile
<1>7. AllUsed'
  <2>1. InHand(proc[p]) \subseteq used \cup {None}
    BY <1>2, <1>6
  <2>2. over' \subseteq used
    BY <1>6, <2>1, TokenAssumption DEF InHand
  <2>3. \A path \in CredFile : CredToken(path)' \subseteq used \cup {None}
    BY <1>6, <2>1 DEF OnDisk, CredFile
  <2>4. p \in Busy' => UsedInHand(proc[p])'
    <3>1. p \in Busy' => InHand(proc'[p]) \subseteq used \cup {None}
      BY <1>6, <2>1
    <3> QED
      BY <3>1 DEF UsedInHand, InHand, WritesCred
  <2>5. p \in Process
    BY DEF Busy
  <2> QED
    BY <2>2, <2>3, <2>4, <2>5, UsedKept
<1>8. \A q \in Busy : proc[q].call = "login" => proc[q].token \in Token
  BY DEF TypeOK, ProcOK, CallOK, Placed
<1>9. \A t \in Token : Free(t) /\ Foreign(t, proc[p])
           => Free(t)' /\ (p \in Busy' => Foreign(t, proc'[p]))
  <2> SUFFICES ASSUME NEW t \in Token, Free(t), Foreign(t, proc[p])
               PROVE  Free(t)' /\ (p \in Busy' => Foreign(t, proc'[p]))
    OBVIOUS
  <2>1. t \notin over /\ t \notin OnDisk /\ t \notin InHand(proc[p]) /\ t # proc[p].token
    BY <1>1, <1>4 DEF InHand
  <2> QED
    BY <1>1, <1>5, <2>1
<1>10. p \in Busy' /\ proc'[p].call = "login" =>
           /\ proc[p].call = "login" /\ proc'[p].token = proc[p].token
           /\ Free(proc[p].token) /\ OnlyMine(proc[p].token, proc[p])
                => Free(proc[p].token)' /\ OnlyMine(proc[p].token, proc'[p])
  BY <1>4, <1>5
<1> QED
  BY <1>7, <1>8, <1>9, <1>10, FreshKept

LEMMA ReadsTokens ==
  ASSUME TypeOK, AllUsed, LoginIsFresh, NEW p \in Process, Reads(p),
         \/ Ended(p)
         \/ /\ Busy' = Busy /\ proc'[p].call = proc[p].call /\ proc'[p].token = proc[p].token
            /\ InHand(proc'[p]) \subseteq OnDisk \cup InHand(proc[p])
            /\ proc[p].call = "login" =>
                 (OnlyMine(proc[p].token, proc[p]) /\ proc[p].token \notin OnDisk
                    => OnlyMine(proc[p].token, proc'[p]))
  PROVE  AllUsed' /\ LoginIsFresh'
<1>1. OthersGoOn(p) /\ p \in Busy /\ used' = used /\ over' = over /\ fs' = fs
  BY DEF Reads, OthersGoOn, Ended
<1>2. OnDisk' = OnDisk
  BY <1>1 DEF OnDisk, CredToken
<1> QED
  BY <1>1, <1>2, TokensKept DEF Ended

LEMMA LoadedTokens ==
  ASSUME NEW r, NEW o, NEW next \in {"loaded", "migrate"}, NEW cred \in Creds, NEW path \in CredFile,
         NEW stale, LoadedAs(r, o, next, cred, path, stale)
  PROVE  /\ r.call = o.call /\ r.token = o.token
         /\ InHand(r) \subseteq {cred.token} \cup InHand(o)
         /\ cred.token # o.token => OnlyMine(o.token, r)
<1>1. Upgraded(cred).token = cred.token
  BY UpgradedType
<1> QED
  BY <1>1 DEF LoadedAs, InHand, OnlyMine, WritesCred

LEMMA RemovalTokens ==
  ASSUME TypeOK, AllUsed, LoginIsFresh, NEW p \in Process,
         NEW at \in Removing, NEW path \in CredFile \cup KeyFile, NEW next, Removal(p, at, path, next),
         over' = over \/ (over' = over \cup {proc[p].token} /\ proc[p].token \in Token)
  PROVE  AllUsed' /\ LoginIsFresh'
<1>1. /\ OthersGoOn(p) /\ p \in Busy /\ used' = used /\ proc[p].call = "logout"
      /\ p \in Busy' => IsAt(proc'[p], proc[p], next)
  BY DEF Removal, OthersGoOn, Ended
<1>2. \A other \in CredFile : CredToken(other)' \subseteq CredToken(other)
  BY KindsOfText DEF Removal, CredToken, StillThere
<1>3. OnDisk' \subseteq OnDisk
  BY <1>2 DEF OnDisk, CredFile
<1>4. p \in Busy' => /\ InHand(proc'[p]) \subseteq InHand(proc[p]) /\ proc'[p].call = "logout"
  BY <1>1 DEF IsAt, Same, InHand
<1> QED
  BY <1>1, <1>3, <1>4, TokensKept

LEMMA TokensStep ==
  ASSUME TypeOK, AllUsed, LoginIsFresh, NEW p \in Process, Step(p)
  PROVE  AllUsed' /\ LoginIsFresh'
<1>1. CASE Truncate(p)
  <2>1. OthersGoOn(p) /\ p \in Busy /\ CallOK(proc[p])
    BY <1>1, TruncateType DEF OthersGoOn
  <2>2. \A path \in CredFile : CredToken(path)' \subseteq CredToken(path)
    BY <1>1, <2>1, TruncateWrites, KindsOfText DEF CredToken, StillThere
  <2>3. OnDisk' \subseteq OnDisk /\ used' = used /\ over' = over
    BY <1>1, <2>1, <2>2, TruncateWrites DEF OnDisk, CredFile
  <2>4. InHand(proc'[p]) = InHand(proc[p]) /\ proc'[p].call = proc[p].call
        /\ proc'[p].token = proc[p].token
    BY <1>1, TruncateType DEF InHand
  <2>5. OnlyMine(proc[p].token, proc[p]) => OnlyMine(proc[p].token, proc'[p])
    BY <1>1, TruncateType DEF OnlyMine
  <2> QED
    BY <2>1, <2>3, <2>4, <2>5, TokensKept
<1>2. CASE Fill(p)
  <2>1. OthersGoOn(p) /\ p \in Busy /\ CallOK(proc[p]) /\ proc[p].pc = "fill"
    BY <1>2, FillType DEF OthersGoOn
  <2>2. /\ used' = used /\ over' = over
        /\ p \in Busy' => WentOn(proc'[p], proc[p]) /\ proc[p].next # "end"
    BY <1>2, <2>1, FillType, FillWrites
  <2>3. \A path \in CredFile : CredToken(path)' \subseteq CredToken(path)
          \cup (IF WritesCred(proc[p]) THEN {proc[p].text.token} ELSE {})
    <3> SUFFICES ASSUME NEW path \in CredFile
                 PROVE  CredToken(path)' \subseteq CredToken(path)
                          \cup (IF WritesCred(proc[p]) THEN {proc[p].text.token} ELSE {})
      OBVIOUS
    <3>1. CASE path = proc[p].path
      <4>1. WritesCred(proc[p])
        BY <2>1, <3>1 DEF WritesCred, Writing
      <4> QED
        BY <1>2, <2>1, <3>1, <4>1, FillWrites, KindsOfText DEF CredToken
    <3>2. CASE path # proc[p].path
      BY <1>2, <2>1, <3>2, FillWrites DEF CredToken, StillThere
    <3> QED
      BY <3>1, <3>2
  <2>4. OnDisk' \subseteq OnDisk \cup (IF WritesCred(proc[p]) THEN {proc[p].text.token} ELSE {})
    BY <2>3 DEF OnDisk, CredFile
  <2>5. p \in Busy' => InHand(proc'[p]) \subseteq InHand(proc[p])
    BY <2>2 DEF WentOn, InHand
  <2>6. p \in Busy' => /\ proc'[p].call = proc[p].call /\ proc'[p].token = proc[p].token
                       /\ OnlyMine(proc[p].token, proc[p]) => OnlyMine(proc[p].token, proc'[p])
    BY <2>2 DEF WentOn, OnlyMine
  <2>7. OnDisk' \subseteq OnDisk \cup InHand(proc[p])
    BY <2>4 DEF InHand
  <2>8. p \in Busy' /\ proc[p].call = "login" /\ proc[p].token \in OnDisk'
          => proc[p].token \in OnDisk
    BY <2>1, <2>2, <2>4 DEF LoginIsFresh, OnlyMine
  <2> QED
    BY <2>1, <2>2, <2>5, <2>6, <2>7, <2>8, TokensKept
<1>3. CASE FillFails(p)
  <2>1. OthersGoOn(p) /\ p \in Busy /\ CallOK(proc[p])
    BY <1>3, FillFailsType DEF OthersGoOn
  <2>2. /\ used' = used /\ over' = over
        /\ p \in Busy' => WentOn(proc'[p], proc[p])
    BY <1>3, <2>1, FillFailsType, FillFailsWrites
  <2>3. \A path \in CredFile : CredToken(path)' \subseteq CredToken(path)
    BY <1>3, <2>1, FillFailsWrites, KindsOfText DEF CredToken, StillThere
  <2>4. OnDisk' \subseteq OnDisk
    BY <2>3 DEF OnDisk, CredFile
  <2>5. p \in Busy' => InHand(proc'[p]) \subseteq InHand(proc[p])
    BY <2>2 DEF WentOn, InHand
  <2>6. p \in Busy' => /\ proc'[p].call = proc[p].call /\ proc'[p].token = proc[p].token
                       /\ OnlyMine(proc[p].token, proc[p]) => OnlyMine(proc[p].token, proc'[p])
    BY <2>2 DEF WentOn, OnlyMine
  <2> QED
    BY <2>1, <2>2, <2>4, <2>5, <2>6, TokensKept
<1>4. CASE Crash(p)
  <2>1. OthersGoOn(p) /\ p \in Busy /\ p \notin Busy' /\ UNCHANGED <<fs, used, over>>
    BY <1>4, CrashType DEF OthersGoOn, Crash
  <2>2. OnDisk' = OnDisk
    BY <2>1 DEF OnDisk, CredToken
  <2> QED
    BY <2>1, <2>2, TokensKept
<1>5. CASE ReadCred(p)
  <2>1. Reads(p)
    BY <1>5, ReadCredStep
  <2>2. CASE IsAt(proc'[p], proc[p], "readOld") /\ Busy' = Busy
    BY <2>1, <2>2, ReadsTokens DEF IsAt, Same, InHand, OnlyMine
  <2>3. CASE /\ LoadedAs(proc'[p], proc[p], "loaded", fs["cred"], "cred", FALSE)
             /\ fs["cred"].kind = "cred" /\ fs["cred"] \in Creds /\ Busy' = Busy
    <3>1. fs["cred"].token \in OnDisk /\ "cred" \in CredFile
      BY <2>3 DEF OnDisk, CredToken, CredFile
    <3>2. /\ proc'[p].call = proc[p].call /\ proc'[p].token = proc[p].token
          /\ InHand(proc'[p]) \subseteq {fs["cred"].token} \cup InHand(proc[p])
          /\ fs["cred"].token # proc[p].token => OnlyMine(proc[p].token, proc'[p])
      BY <2>3, <3>1, LoadedTokens
    <3> QED
      BY <2>1, <2>3, <3>1, <3>2, ReadsTokens
  <2> QED
    BY <1>5, <2>1, <2>2, <2>3, ReadCredStep, ReadsTokens
<1>6. CASE ReadOldCred(p)
  <2>1. Reads(p)
    BY <1>6, ReadOldCredStep
  <2>2. CASE IsAt(proc'[p], proc[p], "loaded") /\ Busy' = Busy
    BY <2>1, <2>2, ReadsTokens DEF IsAt, Same, InHand, OnlyMine
  <2>3. CASE /\ LoadedAs(proc'[p], proc[p], "migrate", fs["oldCred"], "oldCred", proc[p].stale)
             /\ fs["oldCred"].kind = "cred" /\ fs["oldCred"] \in Creds /\ Busy' = Busy
    <3>1. fs["oldCred"].token \in OnDisk /\ "oldCred" \in CredFile
      BY <2>3 DEF OnDisk, CredToken, CredFile
    <3>2. /\ proc'[p].call = proc[p].call /\ proc'[p].token = proc[p].token
          /\ InHand(proc'[p]) \subseteq {fs["oldCred"].token} \cup InHand(proc[p])
          /\ fs["oldCred"].token # proc[p].token => OnlyMine(proc[p].token, proc'[p])
      BY <2>3, <3>1, LoadedTokens
    <3> QED
      BY <2>1, <2>3, <3>1, <3>2, ReadsTokens
  <2> QED
    BY <1>6, <2>1, <2>2, <2>3, ReadOldCredStep, ReadsTokens
<1>7. CASE Migrate(p)
  BY <1>7, MigrateStep, ReadsTokens DEF IsSaving, Same, InHand, OnlyMine
<1>8. CASE SavePrepared(p)
  BY <1>8, SavePreparedStep, ReadsTokens DEF IsSaving, Same, InHand, OnlyMine
<1>9. CASE SaveLogin(p)
  BY <1>9, SaveLoginStep, ReadsTokens DEF IsSaving, Same, InHand, OnlyMine
<1>10. CASE EndLoad(p)
  BY <1>10, EndLoadStep, ReadsTokens
<1>11. CASE SaveSignedTrust(p)
  <2>1. /\ OthersGoOn(p) /\ p \in Busy /\ used' = used /\ over' = over
        /\ StillThere("cred") /\ StillThere("oldCred") /\ proc[p].call = "refresh"
    BY <1>11, SaveSignedTrustStep DEF OthersGoOn, Ended
  <2>2. OnDisk' = OnDisk
    BY <2>1 DEF OnDisk, CredToken, StillThere
  <2>3. p \in Busy' => /\ InHand(proc'[p]) \subseteq InHand(proc[p])
                       /\ proc'[p].call = proc[p].call
    BY <1>11, SaveSignedTrustStep DEF Ended, InHand
  <2> QED
    BY <2>1, <2>2, <2>3, TokensKept
<1>12. CASE BindAccount(p)
  <2>1. /\ OthersGoOn(p) /\ p \in Busy /\ used' = used /\ over' = over
        /\ StillThere("cred") /\ StillThere("oldCred") /\ proc[p].call = "refresh"
    BY <1>12, BindAccountStep DEF OthersGoOn, Ended
  <2>2. OnDisk' = OnDisk
    BY <2>1 DEF OnDisk, CredToken, StillThere
  <2>3. p \in Busy' => /\ InHand(proc'[p]) \subseteq InHand(proc[p])
                       /\ proc'[p].call = proc[p].call
    BY <1>12, BindAccountStep DEF Ended, IsSaving, Same, InHand
  <2> QED
    BY <2>1, <2>2, <2>3, TokensKept
<1>13. CASE ReadTrust(p)
  BY <1>13, ReadTrustStep, ReadsTokens DEF Same, InHand, OnlyMine
<1>14. CASE Verify(p)
  <2>1. OthersGoOn(p) /\ p \in Busy /\ p \notin Busy' /\ UNCHANGED <<fs, used, over>>
    BY <1>14, VerifyStep DEF OthersGoOn, Ended
  <2>2. OnDisk' = OnDisk
    BY <2>1 DEF OnDisk, CredToken
  <2> QED
    BY <2>1, <2>2, TokensKept
<1>15. CASE RemoveCred(p) \/ RemoveOldCred(p) \/ RemoveOldKeys(p) \/ RemoveKeys(p)
  BY <1>15, LogoutSteps, RemovalTokens DEF CredFile, KeyFile, Removing
<1>16. CASE ReadKeys(p)
  BY <1>16, ReadKeysStep, ReadsTokens DEF IsAt, Same, InHand, OnlyMine
<1>17. CASE ReadOldKeys(p)
  BY <1>17, ReadOldKeysStep, ReadsTokens DEF IsAt, Same, InHand, OnlyMine
<1>18. CASE Prune(p)
  BY <1>18, PruneStep, ReadsTokens DEF IsAt, IsSaving, Same, InHand, OnlyMine, WritesCred, CredFile,
     KeyCall
<1>19. CASE DropOld(p)
  <2>1. /\ OthersGoOn(p) /\ p \in Busy /\ used' = used /\ over' = over
        /\ StillThere("cred") /\ StillThere("oldCred") /\ proc[p].call # "login"
    BY <1>19, DropOldStep DEF OthersGoOn, KeyCall
  <2>2. OnDisk' = OnDisk
    BY <2>1 DEF OnDisk, CredToken, StillThere
  <2>3. /\ InHand(proc'[p]) \subseteq InHand(proc[p])
        /\ proc'[p].call = proc[p].call
    BY <1>19, DropOldStep DEF IsAt, Same, InHand
  <2> QED
    BY <2>1, <2>2, <2>3, TokensKept
<1>20. CASE SaveKeys(p)
  <2>1. /\ OthersGoOn(p) /\ p \in Busy /\ UNCHANGED <<fs, used, over>>
        /\ proc[p].call # "login"
    BY <1>20, SaveKeysStep DEF OthersGoOn, Ended, KeyCall
  <2>2. OnDisk' = OnDisk
    BY <2>1 DEF OnDisk, CredToken
  <2>3. p \in Busy' => /\ InHand(proc'[p]) \subseteq InHand(proc[p])
                       /\ proc'[p].call = proc[p].call
    BY <1>20, SaveKeysStep DEF Ended, IsSaving, Same, InHand, WritesCred, CredFile
  <2> QED
    BY <2>1, <2>2, <2>3, TokensKept
<1> QED
  BY <1>1, <1>2, <1>3, <1>4, <1>5, <1>6, <1>7, <1>8, <1>9, <1>10, <1>11, <1>12, <1>13, <1>14,
     <1>15, <1>16, <1>17, <1>18, <1>19, <1>20 DEF Step

-----------------------------------------------------------------------------
(* Logins that are over.                                                   *)

\* The logins of which something is on disk at path, and in the hands of a call.
OwnersOf(shares) == {Owner[s] : s \in shares}
KeptAt(path) == IF fs[path].kind = "cred" THEN {fs[path].token}
                ELSE IF fs[path].kind = "keys" THEN OwnersOf(fs[path].shares) ELSE {}
TextFile == CredFile \cup KeyFile
Held(r) ==
  (IF r.pc \notin {"read", "readOld"} THEN {r.cred.token} ELSE {})
  \cup (IF WritesCred(r) THEN {r.text.token} ELSE {})
  \cup (IF r.call \in KeyCall THEN OwnersOf(r.shares) ELSE {})
  \cup (IF WritesKeys(r) THEN OwnersOf(r.text.shares) ELSE {})
  \cup (IF r.call = "retain" THEN {Owner[r.share]} ELSE {})

LEMMA LiveMeans ==
  /\ \A shares : Live(shares) <=> OwnersOf(shares) \cap over = {}
  /\ \A r : LiveInHand(r) <=> Held(r) \cap over = {}
<1>1. \A shares : Live(shares) <=> OwnersOf(shares) \cap over = {}
  BY DEF Live, OwnersOf
<1> QED
  BY <1>1 DEF LiveInHand, Held

LEMMA NothingIsOverMeans ==
  ASSUME TypeOK
  PROVE  NothingIsOver <=>
           (~mixed => /\ \A path \in TextFile : KeptAt(path) \cap over = {}
                      /\ \A p \in Busy : proc[p].stale \/ Held(proc[p]) \cap over = {})
<1>1. \A path \in CredFile : (fs[path].kind = "cred" => fs[path].token \notin over)
                               <=> KeptAt(path) \cap over = {}
  BY KindsOfText DEF CredFile, KeptAt, TypeOK, FilesOK, Spoiled
<1>2. \A path \in KeyFile : (fs[path].kind = "keys" => Live(fs[path].shares))
                               <=> KeptAt(path) \cap over = {}
  BY KindsOfText, LiveMeans DEF KeyFile, KeptAt, TypeOK, FilesOK, Spoiled
<1>3. \A p \in Busy : LiveInHand(proc[p]) <=> Held(proc[p]) \cap over = {}
  BY LiveMeans
<1> QED
  BY <1>1, <1>2, <1>3 DEF NothingIsOver, TextFile

LEMMA LiveKept ==
  ASSUME TypeOK, NothingIsOver, NEW p \in Process, OthersGoOn(p), over' = over,
         ~mixed' => /\ ~mixed
                    /\ \A path \in TextFile : KeptAt(path)' \cap over = {}
                    /\ p \in Busy' => proc'[p].stale \/ Held(proc'[p]) \cap over = {}
  PROVE  NothingIsOver'
<1>1. ~mixed' => \A q \in Busy : proc[q].stale \/ Held(proc[q]) \cap over = {}
  BY NothingIsOverMeans
<1>2. ASSUME ~mixed', NEW q \in Busy', q # p
      PROVE  proc'[q].stale \/ Held(proc'[q]) \cap over = {}
  <2>1. q \in Busy /\ q \in Process
    BY <1>2 DEF OthersGoOn, Busy
  <2>2. CASE OthersStay(p)
    BY <1>1, <1>2, <2>1, <2>2 DEF OthersStay
  <2>3. CASE OthersUpset(p)
    BY <1>2, <2>1, <2>3 DEF OthersUpset, Upset
  <2> QED
    BY <2>2, <2>3 DEF OthersGoOn
<1>3. ~mixed' => \A q \in Busy' : (proc[q].stale \/ LiveInHand(proc[q]))'
  BY <1>2 DEF LiveInHand, Held, WritesCred, WritesKeys, Live, OwnersOf
<1>4. ~mixed' => \A path \in CredFile : fs'[path].kind = "cred" => fs'[path].token \notin over'
  BY DEF TextFile, KeptAt
<1>5. ~mixed' => \A path \in KeyFile : fs'[path].kind = "keys" => Live(fs[path].shares)'
  BY DEF TextFile, KeptAt, Live, OwnersOf
<1> QED
  BY <1>3, <1>4, <1>5 DEF NothingIsOver

AllKept == UNION {KeptAt(path) : path \in TextFile}

LEMMA ReadsLive ==
  ASSUME TypeOK, NothingIsOver, NEW p \in Process, Reads(p),
         \/ Ended(p)
         \/ /\ Busy' = Busy
            /\ proc'[p].stale \/ Held(proc'[p]) \subseteq
                 AllKept \cup (Token \ over) \cup {None}
                   \cup (IF proc[p].stale THEN {} ELSE Held(proc[p]))
  PROVE  NothingIsOver'
<1>1. OthersGoOn(p) /\ p \in Busy /\ over' = over /\ mixed' = mixed /\ fs' = fs
  BY DEF Reads, OthersGoOn, Ended
<1>2. \A path : KeptAt(path)' = KeptAt(path)
  BY <1>1 DEF KeptAt
<1>3. ~mixed => /\ \A path \in TextFile : KeptAt(path) \cap over = {}
                /\ AllKept \cap over = {}
                /\ proc[p].stale \/ Held(proc[p]) \cap over = {}
  BY <1>1, NothingIsOverMeans DEF AllKept
<1>4. None \notin over
  BY TokenAssumption DEF TypeOK, CountsOK
<1>5. ~mixed' /\ p \in Busy' => proc'[p].stale \/ Held(proc'[p]) \cap over = {}
  BY <1>1, <1>3, <1>4 DEF Ended
<1> QED
  BY <1>1, <1>2, <1>3, <1>5, LiveKept

LEMMA LoadedHeld ==
  ASSUME NEW r, NEW o, NEW next \in {"loaded", "migrate"}, NEW cred \in Creds, NEW path \in CredFile,
         NEW stale, LoadedAs(r, o, next, cred, path, stale), o.call \in CredCall
  PROVE  Held(r) \subseteq {cred.token}
<1>1. Upgraded(cred).token = cred.token
  BY UpgradedType
<1>2. r.call \notin KeyCall /\ r.call # "retain" /\ ~WritesKeys(r)
  BY DEF LoadedAs, CredCall, KeyCall, WritesKeys, CredFile
<1>3. r.cred.token = cred.token /\ (WritesCred(r) => r.text.token = cred.token)
  BY <1>1 DEF LoadedAs, WritesCred
<1> QED
  BY <1>2, <1>3 DEF Held

\* A call at another place holds what it did, and what it has read.
LEMMA HeldAt ==
  ASSUME NEW r, NEW o, NEW to, IsAt(r, o, to)
  PROVE  /\ to \in {"read", "readOld"} \/ o.pc \notin {"read", "readOld"}
              => Held(r) \subseteq Held(o) \cup (IF o.call \in KeyCall THEN OwnersOf(r.shares) ELSE {})
         /\ o.pc \in {"read", "readOld"} /\ o.call \in CredCall => Held(r) \subseteq {o.cred.token}
<1>1. /\ r.pc = to /\ r.call = o.call /\ r.share = o.share /\ r.cred = o.cred
      /\ ~WritesCred(r) /\ ~WritesKeys(r)
  BY DEF IsAt, Same
<1> QED
  BY <1>1 DEF Held, CredCall, KeyCall

LEMMA HeldSaving ==
  ASSUME NEW r, NEW o, NEW path, NEW text, NEW next, IsSaving(r, o, path, text, next),
         o.pc \notin {"read", "readOld"}
  PROVE  /\ path \in CredFile /\ r.shares = o.shares => Held(r) \subseteq Held(o) \cup {text.token}
         /\ path = "keys" => Held(r) \subseteq Held(o) \cup OwnersOf(text.shares)
              \cup (IF o.call \in KeyCall THEN OwnersOf(r.shares) ELSE {})
<1>1. /\ r.pc = "truncate" /\ r.call = o.call /\ r.share = o.share /\ r.cred = o.cred
      /\ r.path = path /\ r.text = text
  BY DEF IsSaving, Same
<1>2. path \in CredFile => WritesCred(r) /\ ~WritesKeys(r)
  BY <1>1 DEF WritesCred, WritesKeys, CredFile, Writing
<1>3. path = "keys" => ~WritesCred(r) /\ WritesKeys(r)
  BY <1>1 DEF WritesCred, WritesKeys, CredFile, Writing
<1> QED
  BY <1>1, <1>2, <1>3 DEF Held

LEMMA RemovalLive ==
  ASSUME TypeOK, NothingIsOver, NEW p \in Process, NEW at \in Removing,
         NEW path \in CredFile \cup KeyFile, NEW next, next = "end" \/ next \in Removing,
         Removal(p, at, path, next), over' = over
  PROVE  NothingIsOver'
<1>1. OthersGoOn(p) /\ p \in Busy /\ mixed' = mixed
  BY DEF Removal, OthersGoOn, Ended
<1>2. ~mixed => /\ \A other \in TextFile : KeptAt(other) \cap over = {}
                /\ proc[p].stale \/ Held(proc[p]) \cap over = {}
  BY <1>1, NothingIsOverMeans
<1>3. ASSUME NEW other \in TextFile
      PROVE  KeptAt(other)' \subseteq KeptAt(other)
  <2>1. CASE other = path
    BY <2>1, KindsOfText DEF Removal, KeptAt
  <2>2. CASE other # path
    BY <2>2 DEF Removal, KeptAt, StillThere, TextFile
  <2> QED
    BY <2>1, <2>2
<1>4. p \in Busy' => proc'[p].stale = proc[p].stale /\ Held(proc'[p]) \subseteq Held(proc[p])
  <2> SUFFICES ASSUME p \in Busy'
               PROVE  proc'[p].stale = proc[p].stale /\ Held(proc'[p]) \subseteq Held(proc[p])
    OBVIOUS
  <2>1. IsAt(proc'[p], proc[p], next) /\ proc'[p].stale = proc[p].stale /\ proc[p].pc = at
        /\ proc[p].call = "logout"
    BY DEF Removal, Ended
  <2> QED
    BY <2>1, HeldAt DEF Removing, KeyCall
<1> QED
  BY <1>1, <1>2, <1>3, <1>4, LiveKept

\* The last removal of a logout that nobody disturbed: there is nothing left, and every
\* other call is disturbed.
LEMMA LastRemoval ==
  ASSUME TypeOK, NothingIsOver, LogoutProgress, NEW p \in Process, RemoveKeys(p)
  PROVE  NothingIsOver'
<1>1. /\ Removal(p, "removeKeys", "keys", "end") /\ proc[p].token \in Token
      /\ over' = IF proc[p].stale THEN over ELSE over \cup {proc[p].token}
  BY LogoutSteps
<1>2. CASE proc[p].stale
  BY <1>1, <1>2, RemovalLive DEF Removing, KeyFile
<1>3. CASE ~proc[p].stale
  <2>1. p \in Busy /\ Removed(proc[p]) /\ proc[p].pc = "removeKeys"
    BY <1>1, <1>3 DEF Removal, LogoutProgress
  <2>2. \A path \in TextFile : fs'[path] = Missing
    BY <1>1, <2>1 DEF Removal, Removed, TextFile, CredFile, KeyFile, StillThere
  <2>3. \A q \in Busy' : proc'[q].stale
    BY <1>1 DEF Removal, Ended, OthersUpset, Upset
  <2> QED
    BY <2>2, <2>3, KindsOfText DEF NothingIsOver, TextFile
<1> QED
  BY <1>2, <1>3

LEMMA LiveStep ==
  ASSUME TypeOK, NothingIsOver, LogoutProgress, LoginIsFresh, NEW p \in Process, Step(p)
  PROVE  NothingIsOver'
<1>0. ~mixed => /\ \A path \in TextFile : KeptAt(path) \cap over = {}
                /\ p \in Busy => proc[p].stale \/ Held(proc[p]) \cap over = {}
  BY NothingIsOverMeans
<1>1. CASE Truncate(p)
  <2>1. OthersGoOn(p) /\ p \in Busy /\ CallOK(proc[p]) /\ proc[p].pc = "truncate"
    BY <1>1, TruncateType DEF OthersGoOn
  <2>2. \A path \in TextFile : KeptAt(path)' \subseteq KeptAt(path)
    BY <1>1, <2>1, TruncateWrites, KindsOfText DEF KeptAt, StillThere, TextFile
  <2>3. Held(proc'[p]) = Held(proc[p]) /\ proc'[p].stale = proc[p].stale
    BY <1>1, TruncateType DEF Held
  <2> QED
    BY <1>0, <1>1, <2>1, <2>2, <2>3, TruncateWrites, LiveKept
<1>2. CASE Fill(p)
  <2>1. OthersGoOn(p) /\ p \in Busy /\ CallOK(proc[p]) /\ proc[p].pc = "fill"
    BY <1>2, FillType DEF OthersGoOn
  <2>2. ~mixed' => /\ ~mixed /\ ~proc[p].stale /\ fs'[proc[p].path] = proc[p].text
                   /\ Held(proc[p]) \cap over = {}
    BY <1>0, <1>2, <2>1, FillWrites
  <2>3. \/ WritesCred(proc[p]) /\ proc[p].text \in Creds
        \/ WritesKeys(proc[p]) /\ proc[p].text \in Stores
    <3>1. WritesCred(proc[p]) \/ WritesKeys(proc[p])
      BY <2>1 DEF CallOK, CallRecord, WritesCred, WritesKeys, Writing
    <3>2. WritesCred(proc[p]) => proc[p].text \in Creds
      BY <2>1 DEF CallOK, Placed
    <3>3. WritesKeys(proc[p]) => proc[p].text \in Stores
      BY <2>1 DEF CallOK, Placed
    <3> QED
      BY <3>1, <3>2, <3>3
  <2>4. ASSUME ~mixed', NEW path \in TextFile PROVE KeptAt(path)' \cap over = {}
    <3>1. CASE path # proc[p].path
      <4>1. KeptAt(path)' = KeptAt(path)
        BY <1>2, <2>1, <3>1, FillWrites DEF TextFile, StillThere, KeptAt
      <4> QED
        BY <1>0, <2>2, <2>4, <4>1
    <3>2. CASE path = proc[p].path
      <4>1. proc[p].text.kind = "cred" => proc[p].text.token \in Held(proc[p])
        BY <2>3, KindsOfText DEF Held
      <4>2. proc[p].text.kind = "keys" => OwnersOf(proc[p].text.shares) \subseteq Held(proc[p])
        BY <2>3, KindsOfText DEF Held
      <4>3. fs'[path] = proc[p].text
        BY <2>2, <2>4, <3>2
      <4>4. KeptAt(path)' \subseteq Held(proc[p])
        BY <4>1, <4>2, <4>3 DEF KeptAt, OwnersOf
      <4> QED
        BY <2>2, <2>4, <4>4
    <3> QED
      BY <3>1, <3>2
  <2>6. p \in Busy' => Held(proc'[p]) \subseteq Held(proc[p])
    BY <1>2, <2>1, FillType DEF WentOn, Held
  <2> QED
    BY <1>2, <2>1, <2>2, <2>4, <2>6, FillWrites, LiveKept
<1>3. CASE FillFails(p)
  <2>1. OthersGoOn(p) /\ p \in Busy /\ CallOK(proc[p]) /\ proc[p].pc = "fill"
    BY <1>3, FillFailsType DEF OthersGoOn
  <2>2. \A path \in TextFile : KeptAt(path)' \subseteq KeptAt(path)
    BY <1>3, <2>1, FillFailsWrites, KindsOfText DEF KeptAt, StillThere, TextFile
  <2>3. p \in Busy' => Held(proc'[p]) \subseteq Held(proc[p]) /\ proc'[p].stale = proc[p].stale
    BY <1>3, <2>1, FillFailsType DEF WentOn, Held
  <2> QED
    BY <1>0, <1>3, <2>1, <2>2, <2>3, FillFailsWrites, LiveKept
<1>4. CASE Crash(p)
  <2>1. OthersGoOn(p) /\ p \notin Busy' /\ UNCHANGED <<fs, over, mixed>>
    BY <1>4, CrashType DEF OthersGoOn, Crash
  <2>2. \A path : KeptAt(path)' = KeptAt(path)
    BY <2>1 DEF KeptAt
  <2> QED
    BY <1>0, <2>1, <2>2, LiveKept
<1>5. CASE ReadCred(p)
  <2>1. Reads(p) /\ proc[p].pc = "read" /\ proc[p].call \in CredCall
    BY <1>5, ReadCredStep DEF Reads, CallOK, Placed
  <2>2. CASE IsAt(proc'[p], proc[p], "readOld") /\ Busy' = Busy
    <3>1. Held(proc'[p]) = {}
      BY <2>1, <2>2 DEF IsAt, Same, Held, CredCall, KeyCall
    <3> QED
      BY <2>1, <2>2, <3>1, ReadsLive
  <2>3. CASE /\ LoadedAs(proc'[p], proc[p], "loaded", fs["cred"], "cred", FALSE)
             /\ fs["cred"].kind = "cred" /\ fs["cred"] \in Creds /\ Busy' = Busy
    <3>1. Held(proc'[p]) \subseteq AllKept
      BY <2>1, <2>3, LoadedHeld DEF AllKept, KeptAt, TextFile, CredFile
    <3> QED
      BY <2>1, <2>3, <3>1, ReadsLive
  <2> QED
    BY <1>5, <2>1, <2>2, <2>3, ReadCredStep, ReadsLive
<1>6. CASE ReadOldCred(p)
  <2>1. Reads(p) /\ proc[p].pc = "readOld" /\ proc[p].call \in CredCall
        /\ (proc[p].call \in {"prepare", "login"} => proc[p].cred.token = None)
    BY <1>6, ReadOldCredStep DEF Reads, CallOK, Placed
  <2>2. CASE /\ IsAt(proc'[p], proc[p], "loaded") /\ proc[p].call \in {"prepare", "login"}
             /\ Busy' = Busy
    <3>1. Held(proc'[p]) \subseteq {None}
      BY <2>1, <2>2, HeldAt
    <3> QED
      BY <2>1, <2>2, <3>1, ReadsLive
  <2>3. CASE /\ LoadedAs(proc'[p], proc[p], "migrate", fs["oldCred"], "oldCred", proc[p].stale)
             /\ fs["oldCred"].kind = "cred" /\ fs["oldCred"] \in Creds /\ Busy' = Busy
    <3>1. Held(proc'[p]) \subseteq AllKept
      BY <2>1, <2>3, LoadedHeld DEF AllKept, KeptAt, TextFile, CredFile
    <3> QED
      BY <2>1, <2>3, <3>1, ReadsLive
  <2> QED
    BY <1>6, <2>1, <2>2, <2>3, ReadOldCredStep, ReadsLive
<1>7. CASE Migrate(p)
  <2>1. Held(proc'[p]) \subseteq Held(proc[p]) \cup {proc[p].cred.token}
    BY <1>7, MigrateStep, HeldSaving DEF CredFile
  <2>2. Held(proc'[p]) \subseteq Held(proc[p])
    BY <1>7, <2>1, MigrateStep DEF Held
  <2> QED
    BY <1>7, <2>2, MigrateStep, ReadsLive
<1>8. CASE SavePrepared(p)
  <2>1. Held(proc'[p]) \subseteq Held(proc[p]) \cup {proc[p].cred.token}
    BY <1>8, SavePreparedStep, HeldSaving DEF CredFile
  <2>2. Held(proc'[p]) \subseteq Held(proc[p])
    BY <1>8, <2>1, SavePreparedStep DEF Held
  <2> QED
    BY <1>8, <2>2, SavePreparedStep, ReadsLive
<1>9. CASE SaveLogin(p)
  <2>1. Held(proc'[p]) \subseteq Held(proc[p]) \cup {proc[p].token}
    BY <1>9, SaveLoginStep, HeldSaving DEF CredFile
  <2>2. proc[p].token \in Token \ over
    BY <1>9, SaveLoginStep DEF LoginIsFresh, Reads
  <2> QED
    BY <1>9, <2>1, <2>2, SaveLoginStep, ReadsLive
<1>10. CASE EndLoad(p)
  BY <1>10, EndLoadStep, ReadsLive
<1>11. CASE SaveSignedTrust(p)
  <2>1. /\ OthersGoOn(p) /\ p \in Busy /\ over' = over /\ mixed' = mixed
        /\ proc[p].call = "refresh"
    BY <1>11, SaveSignedTrustStep DEF OthersGoOn, Ended
  <2>2. \A path \in TextFile : KeptAt(path)' = KeptAt(path)
    BY <1>11, SaveSignedTrustStep DEF KeptAt, StillThere, TextFile, CredFile, KeyFile
  <2>3. p \in Busy' => Held(proc'[p]) = {}
    BY <1>11, SaveSignedTrustStep DEF Ended, Held, KeyCall
  <2> QED
    BY <1>0, <2>1, <2>2, <2>3, LiveKept
<1>12. CASE BindAccount(p)
  <2>1. /\ OthersGoOn(p) /\ p \in Busy /\ over' = over /\ mixed' = mixed
        /\ proc[p].call = "refresh" /\ proc[p].pc = "loaded"
    BY <1>12, BindAccountStep DEF OthersGoOn, Ended
  <2>2. \A path \in TextFile : KeptAt(path)' = KeptAt(path)
    BY <1>12, BindAccountStep DEF KeptAt, StillThere, TextFile, CredFile, KeyFile
  <2>3. p \in Busy' => /\ ~proc'[p].stale => ~proc[p].stale
                       /\ Held(proc'[p]) \subseteq Held(proc[p]) \cup {proc[p].cred.token}
    BY <1>12, <2>1, BindAccountStep, HeldSaving DEF Ended, CredFile
  <2>4. proc[p].cred.token \in Held(proc[p])
    BY <2>1 DEF Held
  <2> QED
    BY <1>0, <2>1, <2>2, <2>3, <2>4, LiveKept
<1>13. CASE ReadTrust(p)
  <2>1. proc'[p].pc = "read" => Held(proc'[p]) = {} \/ Ended(p)
    BY <1>13, ReadTrustStep DEF Same, Held, KeyCall
  <2> QED
    BY <1>13, <2>1, ReadTrustStep, ReadsLive
<1>14. CASE Verify(p)
  <2>1. OthersGoOn(p) /\ p \notin Busy' /\ UNCHANGED <<fs, over, mixed>>
    BY <1>14, VerifyStep DEF OthersGoOn, Ended
  <2>2. \A path : KeptAt(path)' = KeptAt(path)
    BY <2>1 DEF KeptAt
  <2> QED
    BY <1>0, <2>1, <2>2, LiveKept
<1>15. CASE RemoveCred(p) \/ RemoveOldCred(p) \/ RemoveOldKeys(p)
  BY <1>15, LogoutSteps, RemovalLive DEF CredFile, KeyFile, Removing
<1>16. CASE RemoveKeys(p)
  BY <1>16, LastRemoval
<1>17. CASE ReadKeys(p)
  <2>1. CASE IsAt(proc'[p], proc[p], "readOldKeys")
    <3>1. proc[p].pc = "readKeys" /\ proc[p].call \in KeyCall /\ proc'[p].stale = proc[p].stale
          /\ proc'[p].shares = proc[p].shares /\ Reads(p) /\ Busy' = Busy
      BY <1>17, <2>1, ReadKeysStep DEF IsAt, Same, Ended, Idle
    <3>2. OwnersOf(proc[p].shares) \subseteq Held(proc[p])
      BY <3>1 DEF Held
    <3>3. Held(proc'[p]) \subseteq Held(proc[p])
      BY <2>1, <3>1, <3>2, HeldAt
    <3> QED
      BY <3>1, <3>3, ReadsLive
  <2>2. CASE /\ IsAt(proc'[p], proc[p], "prune") /\ fs["keys"].kind = "keys"
             /\ proc'[p].shares = fs["keys"].shares
    <3>1. OwnersOf(proc'[p].shares) \subseteq AllKept
      BY <2>2 DEF AllKept, KeptAt, TextFile, KeyFile
    <3>2. Held(proc'[p]) \subseteq Held(proc[p]) \cup OwnersOf(proc'[p].shares)
      BY <1>17, <2>2, ReadKeysStep, HeldAt
    <3> QED
      BY <1>17, <3>1, <3>2, ReadKeysStep, ReadsLive
  <2> QED
    BY <1>17, <2>1, <2>2, ReadKeysStep, ReadsLive
<1>18. CASE ReadOldKeys(p)
  <2>1. Held(proc'[p]) \subseteq Held(proc[p]) \cup OwnersOf(proc'[p].shares)
    BY <1>18, ReadOldKeysStep, HeldAt
  <2>2. OwnersOf(proc'[p].shares) \subseteq AllKept \cup Held(proc[p])
    BY <1>18, ReadOldKeysStep DEF AllKept, KeptAt, TextFile, KeyFile, Held
  <2>3. proc'[p].shares = proc[p].shares => Held(proc'[p]) \subseteq Held(proc[p])
    BY <1>18, <2>1, ReadOldKeysStep DEF Held
  <2>4. proc'[p].shares # proc[p].shares => OwnersOf(proc'[p].shares) \subseteq AllKept
    BY <1>18, ReadOldKeysStep DEF AllKept, KeptAt, TextFile, KeyFile
  <2> QED
    BY <1>18, <2>1, <2>3, <2>4, ReadOldKeysStep, ReadsLive
<1>19. CASE Prune(p)
  <2>1. OwnersOf(proc[p].shares \ expired) \subseteq OwnersOf(proc[p].shares)
    BY DEF OwnersOf
  <2>2. OwnersOf(proc[p].shares) \subseteq Held(proc[p])
    BY <1>19, PruneStep DEF Held
  <2>3. Held(proc'[p]) \subseteq Held(proc[p])
    <3>1. /\ proc[p].pc = "prune" /\ proc[p].call \in KeyCall
          /\ OwnersOf(proc'[p].shares) \subseteq Held(proc[p])
      BY <1>19, <2>1, <2>2, PruneStep
    <3>2. CASE IsAt(proc'[p], proc[p], "dropOld")
      BY <3>1, <3>2, HeldAt
    <3>3. CASE IsSaving(proc'[p], proc[p], "keys", Keys(proc[p].shares \ expired), "dropOld")
      <4>1. OwnersOf(Keys(proc[p].shares \ expired).shares) \subseteq Held(proc[p])
        BY <2>1, <2>2 DEF Keys
      <4> QED
        BY <3>1, <3>3, <4>1, HeldSaving
    <3> QED
      BY <1>19, <3>2, <3>3, PruneStep
  <2> QED
    BY <1>19, <2>3, PruneStep, ReadsLive
<1>20. CASE DropOld(p)
  <2>1. /\ OthersGoOn(p) /\ p \in Busy /\ over' = over /\ mixed' = mixed
    BY <1>20, DropOldStep DEF OthersGoOn
  <2>2. \A path \in TextFile : KeptAt(path)' \subseteq KeptAt(path)
    BY <1>20, DropOldStep, KindsOfText DEF KeptAt, StillThere, TextFile, CredFile, KeyFile
  <2>3. Held(proc'[p]) \subseteq Held(proc[p]) /\ proc'[p].stale = proc[p].stale
    BY <1>20, DropOldStep, HeldAt DEF Held
  <2> QED
    BY <1>0, <2>1, <2>2, <2>3, LiveKept
<1>21. CASE SaveKeys(p)
  <2>1. OthersGoOn(p) /\ p \in Busy /\ UNCHANGED <<fs, over, mixed>>
    BY <1>21, SaveKeysStep DEF OthersGoOn, Ended
  <2>2. \A path : KeptAt(path)' = KeptAt(path)
    BY <2>1 DEF KeptAt
  <2>3. ASSUME p \in Busy' PROVE Held(proc'[p]) \subseteq Held(proc[p]) /\ proc'[p].stale = proc[p].stale
    <3>1. PICK shares \in SUBSET Share :
             /\ IsSaving(proc'[p], proc[p], "keys", Keys(shares), "end")
             /\ \/ proc[p].call = "retain" /\ shares = proc[p].shares \cup {proc[p].share}
                \/ proc[p].call = "forget" /\ shares = proc[p].shares \ {proc[p].share}
      BY <1>21, <2>3, SaveKeysStep DEF Ended
    <3>2. OwnersOf(shares) \subseteq Held(proc[p])
      BY <3>1 DEF Held, OwnersOf, KeyCall
    <3>3. /\ proc'[p].shares = proc[p].shares /\ proc'[p].stale = proc[p].stale
          /\ proc[p].call \in KeyCall /\ proc[p].pc = "have"
      BY <1>21, <2>3, SaveKeysStep DEF Ended
    <3>4. OwnersOf(proc[p].shares) \subseteq Held(proc[p])
      BY <3>3 DEF Held
    <3>5. Keys(shares).shares = shares
      BY DEF Keys
    <3> QED
      BY <3>1, <3>2, <3>3, <3>4, <3>5, HeldSaving
  <2> QED
    BY <1>0, <2>1, <2>2, <2>3, LiveKept
<1> QED
  BY <1>1, <1>2, <1>3, <1>4, <1>5, <1>6, <1>7, <1>8, <1>9, <1>10, <1>11, <1>12, <1>13, <1>14,
     <1>15, <1>16, <1>17, <1>18, <1>19, <1>20, <1>21 DEF Step

-----------------------------------------------------------------------------
(* How far a logout has got.                                               *)

UnderRemoval == {"removeOldCred", "removeOldKeys", "removeKeys"}

LEMMA ProgressKept ==
  ASSUME LogoutProgress, NEW p \in Process, OthersGoOn(p),
         \/ OthersUpset(p)
         \/ \A path \in {"cred", "oldCred", "oldKeys"} : StillThere(path) \/ fs'[path] = Missing,
         p \in Busy' => \/ proc'[p].pc \notin UnderRemoval
                        \/ proc'[p].stale
                        \/ Removed(proc[p])'
  PROVE  LogoutProgress'
<1> SUFFICES ASSUME NEW q \in Busy' PROVE proc'[q].stale \/ Removed(proc[q])'
  BY DEF LogoutProgress
<1>1. CASE q = p
  BY <1>1 DEF Removed, UnderRemoval
<1>2. CASE q # p /\ OthersUpset(p)
  BY <1>2 DEF OthersUpset, Upset, OthersGoOn
<1>3. CASE /\ q # p /\ OthersStay(p)
           /\ \A path \in {"cred", "oldCred", "oldKeys"} : StillThere(path) \/ fs'[path] = Missing
  <2>1. q \in Busy /\ q \in Process /\ proc'[q] = proc[q]
    BY <1>3 DEF OthersGoOn, OthersStay, Busy
  <2> QED
    BY <1>3, <2>1 DEF LogoutProgress, Removed, StillThere
<1> QED
  BY <1>1, <1>2, <1>3 DEF OthersGoOn

LEMMA ReadsProgress ==
  ASSUME LogoutProgress, NEW p \in Process, Reads(p),
         Ended(p) \/ (Busy' = Busy /\ proc'[p].pc \notin UnderRemoval)
  PROVE  LogoutProgress'
<1>1. OthersGoOn(p) /\ \A path : StillThere(path)
  BY DEF Reads, OthersGoOn, Ended, StillThere
<1> QED
  BY <1>1, ProgressKept DEF Ended

LEMMA RemovalProgress ==
  ASSUME LogoutProgress, NEW p \in Process,
         \/ Removal(p, "removeCred", "cred", "removeOldCred")
         \/ Removal(p, "removeOldCred", "oldCred", "removeOldKeys")
         \/ Removal(p, "removeOldKeys", "oldKeys", "removeKeys")
         \/ Removal(p, "removeKeys", "keys", "end")
  PROVE  LogoutProgress'
<1>1. OthersGoOn(p) /\ OthersUpset(p) /\ p \in Busy
  BY DEF Removal, OthersGoOn, Ended
<1>2. proc[p].stale \/ Removed(proc[p])
  BY <1>1 DEF LogoutProgress
<1>3. CASE Removal(p, "removeCred", "cred", "removeOldCred")
  <2>1. fs'["cred"] = Missing /\ proc'[p].pc = "removeOldCred"
    BY <1>3 DEF Removal, IsAt
  <2> QED
    BY <1>1, <2>1, ProgressKept DEF Removed
<1>4. CASE Removal(p, "removeOldCred", "oldCred", "removeOldKeys")
  <2>1. /\ fs'["oldCred"] = Missing /\ fs'["cred"] = fs["cred"] /\ proc'[p].pc = "removeOldKeys"
        /\ proc[p].pc = "removeOldCred" /\ proc'[p].stale = proc[p].stale
    BY <1>4 DEF Removal, IsAt, StillThere, CredFile
  <2>2. proc'[p].stale \/ Removed(proc[p])'
    BY <1>2, <2>1 DEF Removed
  <2> QED
    BY <1>1, <2>2, ProgressKept
<1>5. CASE Removal(p, "removeOldKeys", "oldKeys", "removeKeys")
  <2>1. /\ fs'["oldKeys"] = Missing /\ fs'["cred"] = fs["cred"] /\ fs'["oldCred"] = fs["oldCred"]
        /\ proc'[p].pc = "removeKeys" /\ proc[p].pc = "removeOldKeys"
        /\ proc'[p].stale = proc[p].stale
    BY <1>5 DEF Removal, IsAt, StillThere, CredFile
  <2>2. proc'[p].stale \/ Removed(proc[p])'
    BY <1>2, <2>1 DEF Removed
  <2> QED
    BY <1>1, <2>2, ProgressKept
<1>6. CASE Removal(p, "removeKeys", "keys", "end")
  BY <1>1, <1>6, ProgressKept DEF Removal, Ended
<1> QED
  BY <1>3, <1>4, <1>5, <1>6

LEMMA ProgressStep ==
  ASSUME TypeOK, LogoutProgress, NEW p \in Process, Step(p)
  PROVE  LogoutProgress'
<1>1. CASE Truncate(p)
  BY <1>1, TruncateType, ProgressKept DEF OthersGoOn, UnderRemoval
<1>2. CASE Fill(p)
  <2>1. CallOK(proc[p]) /\ OthersGoOn(p) /\ OthersUpset(p)
    BY <1>2, FillType DEF OthersGoOn
  <2>2. p \in Busy' => proc'[p].pc = proc[p].next
    BY <1>2, FillType DEF WentOn
  <2>3. proc[p].next \notin UnderRemoval
    BY <2>1 DEF CallOK, CallRecord, UnderRemoval
  <2> QED
    BY <2>1, <2>2, <2>3, ProgressKept
<1>3. CASE FillFails(p)
  <2>1. OthersGoOn(p) /\ OthersUpset(p)
    BY <1>3, FillFailsType DEF OthersGoOn
  <2>2. p \in Busy' => proc'[p].pc \notin UnderRemoval
    BY <1>3, FillFailsType DEF WentOn, UnderRemoval
  <2> QED
    BY <2>1, <2>2, ProgressKept
<1>4. CASE Crash(p)
  <2>1. OthersGoOn(p) /\ p \notin Busy' /\ \A path : StillThere(path)
    BY <1>4, CrashType DEF OthersGoOn, Crash, StillThere
  <2> QED
    BY <2>1, ProgressKept
<1>5. CASE ReadCred(p)
  BY <1>5, ReadCredStep, ReadsProgress DEF IsAt, LoadedAs, UnderRemoval
<1>6. CASE ReadOldCred(p)
  BY <1>6, ReadOldCredStep, ReadsProgress DEF IsAt, LoadedAs, UnderRemoval
<1>7. CASE Migrate(p)
  BY <1>7, MigrateStep, ReadsProgress DEF IsSaving, UnderRemoval
<1>8. CASE SavePrepared(p)
  BY <1>8, SavePreparedStep, ReadsProgress DEF IsSaving, UnderRemoval
<1>9. CASE SaveLogin(p)
  BY <1>9, SaveLoginStep, ReadsProgress DEF IsSaving, UnderRemoval
<1>10. CASE EndLoad(p)
  BY <1>10, EndLoadStep, ReadsProgress
<1>11. CASE SaveSignedTrust(p)
  <2>1. /\ OthersGoOn(p) /\ \A path \in {"cred", "oldCred", "oldKeys"} : StillThere(path)
        /\ p \in Busy' => proc'[p].pc \notin UnderRemoval
    BY <1>11, SaveSignedTrustStep DEF OthersGoOn, Ended, UnderRemoval
  <2> QED
    BY <2>1, ProgressKept
<1>12. CASE BindAccount(p)
  <2>1. /\ OthersGoOn(p) /\ \A path \in {"cred", "oldCred", "oldKeys"} : StillThere(path)
        /\ p \in Busy' => proc'[p].pc \notin UnderRemoval
    BY <1>12, BindAccountStep DEF OthersGoOn, Ended, IsSaving, UnderRemoval
  <2> QED
    BY <2>1, ProgressKept
<1>13. CASE ReadTrust(p)
  BY <1>13, ReadTrustStep, ReadsProgress DEF UnderRemoval
<1>14. CASE Verify(p)
  <2>1. OthersGoOn(p) /\ p \notin Busy' /\ \A path : StillThere(path)
    BY <1>14, VerifyStep DEF OthersGoOn, Ended, StillThere
  <2> QED
    BY <2>1, ProgressKept
<1>15. CASE RemoveCred(p) \/ RemoveOldCred(p) \/ RemoveOldKeys(p) \/ RemoveKeys(p)
  BY <1>15, LogoutSteps, RemovalProgress
<1>16. CASE ReadKeys(p)
  BY <1>16, ReadKeysStep, ReadsProgress DEF IsAt, UnderRemoval
<1>17. CASE ReadOldKeys(p)
  BY <1>17, ReadOldKeysStep, ReadsProgress DEF IsAt, UnderRemoval
<1>18. CASE Prune(p)
  BY <1>18, PruneStep, ReadsProgress DEF IsAt, IsSaving, UnderRemoval
<1>19. CASE DropOld(p)
  <2>1. /\ OthersGoOn(p) /\ proc'[p].pc \notin UnderRemoval
        /\ \A path \in {"cred", "oldCred", "oldKeys"} : StillThere(path) \/ fs'[path] = Missing
    BY <1>19, DropOldStep DEF OthersGoOn, IsAt, UnderRemoval
  <2> QED
    BY <2>1, ProgressKept
<1>20. CASE SaveKeys(p)
  <2>1. /\ OthersGoOn(p) /\ \A path : StillThere(path)
        /\ p \in Busy' => proc'[p].pc \notin UnderRemoval
    BY <1>20, SaveKeysStep DEF OthersGoOn, Ended, IsSaving, StillThere, UnderRemoval
  <2> QED
    BY <2>1, ProgressKept
<1> QED
  BY <1>1, <1>2, <1>3, <1>4, <1>5, <1>6, <1>7, <1>8, <1>9, <1>10, <1>11, <1>12, <1>13, <1>14,
     <1>15, <1>16, <1>17, <1>18, <1>19, <1>20 DEF Step

-----------------------------------------------------------------------------
(* Calls begin, and keys expire.                                           *)

LEMMA BeginKeeps ==
  ASSUME TypeOK, IInv, NEW p \in Process, NEW call, NEW at, NEW share, NEW token,
         Begins(p, call, at, share, token)
  PROVE  IInv'
<1>1. /\ Begun(proc'[p], call, at, share, token)
      /\ OthersStay(p) /\ Busy' = Busy \cup {p} /\ p \notin Busy
      /\ UNCHANGED <<fs, expired, faults, over, honoured, mixed, owed, inherited>>
  BY BeginType
<1>2. /\ OthersGoOn(p) /\ \A path : StillThere(path)
      /\ ~WritesCred(proc'[p]) /\ ~WritesKeys(proc'[p])
      /\ at \in {"read", "readTrust", "removeCred", "readKeys"}
  BY <1>1 DEF OthersGoOn, StillThere, WritesCred, WritesKeys, Writing, Begun, Begins
<1>3. ASSUME NEW q \in Busy' \ {p} PROVE q \in Busy /\ q \in Process /\ proc'[q] = proc[q]
  BY <1>1 DEF OthersStay, Busy
<1>4. AccountsAreOwn'
  <2>1. OwnInHand(proc'[p])
    <3>1. proc'[p].account = None /\ Own(proc'[p].cred)
      BY <1>1, NoCredType DEF Own, Begun
    <3>2. proc'[p].call = "lookup" => proc'[p].pc = "readTrust"
      BY <1>1 DEF Begun, Begins
    <3> QED
      BY <1>2, <3>1, <3>2 DEF OwnInHand
  <2> QED
    BY <1>1, <1>3, <2>1 DEF AccountsAreOwn, IInv
<1>5. WantedIsKept'
  <2>1. WantedInHand(proc[p])'
    BY <1>1, <1>2, NothingInHand DEF Begun
  <2>2. Wanted' = Wanted /\ proc[p].pc = "idle"
    BY <1>1 DEF Wanted, Begins, Start, Idle
  <2>3. ~mixed' => KeysReachDisk'
    BY <1>1, <1>2, <2>2, DiskKept DEF IInv, WantedIsKept
  <2> QED
    BY <1>1, <1>2, <2>1, <2>2, <2>3, WantedKept DEF IInv
<1>6. AllUsed'
  <2>1. used \subseteq used' /\ token \in used' \cup {None}
    BY DEF Begins
  <2>2. UsedInHand(proc[p])'
    BY <1>1, <1>2, <2>1, NoCredType DEF UsedInHand, Begun, WritesCred
  <2>3. ASSUME NEW q \in Busy' PROVE UsedInHand(proc[q])'
    <3>1. CASE q # p
      BY <1>3, <2>1, <3>1 DEF IInv, AllUsed, UsedInHand, WritesCred
    <3> QED
      BY <2>2, <3>1
  <2> QED
    BY <1>1, <2>1, <2>3 DEF IInv, AllUsed
<1>7. LoginIsFresh'
  <2> SUFFICES ASSUME NEW l \in Busy', proc'[l].call = "login"
               PROVE  /\ proc'[l].token \notin over
                      /\ \A path \in CredFile : fs[path].kind = "cred" => fs[path].token # proc'[l].token
                      /\ OnlyMine(proc'[l].token, proc'[l])
                      /\ \A q \in Busy' \ {l} : Foreign(proc'[l].token, proc'[q])
    BY <1>1 DEF LoginIsFresh
  <2>1. CASE l = p
    <3>1. proc'[p].token = token /\ token \in Token \ used /\ token # None
      BY <1>1, <2>1, TokenAssumption DEF Begun, Begins, CredCall, KeyCall
    <3>2. OnlyMine(token, proc'[p])
      BY <1>1, <1>2, <3>1, NoCredType DEF OnlyMine, Begun
    <3>3. ASSUME NEW q \in Busy' \ {p} PROVE Foreign(token, proc'[q])
      BY <1>3, <3>1, <3>3 DEF Foreign, IInv, AllUsed, UsedInHand
    <3>4. token \notin over
      BY <3>1 DEF IInv, AllUsed
    <3>5. \A path \in CredFile : fs[path].kind = "cred" => fs[path].token # token
      BY <3>1 DEF IInv, AllUsed
    <3> QED
      BY <2>1, <3>1, <3>2, <3>3, <3>4, <3>5
  <2>2. CASE l # p
    <3>1. l \in Busy /\ proc'[l] = proc[l]
      BY <1>3, <2>2
    <3>2. /\ proc[l].token \notin over
          /\ \A path \in CredFile : fs[path].kind = "cred" => fs[path].token # proc[l].token
          /\ OnlyMine(proc[l].token, proc[l])
          /\ \A q \in Busy \ {l} : Foreign(proc[l].token, proc[q])
      BY <3>1 DEF IInv, LoginIsFresh
    <3>3. proc[l].token \in used /\ proc[l].token # None
      <4>1. proc[l].token \in Token
        BY <3>1 DEF TypeOK, ProcOK, CallOK, Placed
      <4> QED
        BY <3>1, <4>1, TokenAssumption DEF IInv, AllUsed, UsedInHand
    <3>4. token # proc[l].token
      <4>1. CASE token \in Token \ used \/ token = None
        BY <3>3, <4>1
      <4>2. CASE token \in used /\ fs["cred"].kind = "cred" /\ fs["cred"].token = token
        BY <3>2, <4>2 DEF CredFile
      <4> QED
        BY <4>1, <4>2 DEF Begins
    <3>5. Foreign(proc[l].token, proc'[p])
      BY <1>1, <1>2, <3>3, <3>4, NoCredType DEF Foreign, Begun
    <3>6. \A q \in Busy' \ {l} : Foreign(proc[l].token, proc'[q])
      BY <1>3, <3>2, <3>5
    <3> QED
      BY <3>1, <3>2, <3>6
  <2> QED
    BY <2>1, <2>2
<1>8. NothingIsOver'
  <2>1. ~mixed => /\ \A path \in TextFile : KeptAt(path) \cap over = {}
    BY NothingIsOverMeans DEF IInv
  <2>2. \A path : KeptAt(path)' = KeptAt(path)
    BY <1>1 DEF KeptAt
  <2>3. Held(proc'[p]) \subseteq {None} \cup KeptAt("cred")
    <3>1. OwnersOf({}) = {}
      BY DEF OwnersOf
    <3>2. call = "retain" => Owner[share] \in KeptAt("cred")
      BY DEF Begins, KeptAt, CredCall
    <3> QED
      BY <1>1, <1>2, <3>1, <3>2, NoCredType DEF Held, Begun
  <2>4. None \notin over
    BY TokenAssumption DEF TypeOK, CountsOK
  <2>5. ~mixed => Held(proc'[p]) \cap over = {}
    BY <2>1, <2>3, <2>4 DEF TextFile, CredFile
  <2> QED
    BY <1>1, <1>2, <2>1, <2>2, <2>5, LiveKept DEF IInv
<1>9. LogoutProgress'
  BY <1>1, <1>2, ProgressKept DEF IInv, Begun, UnderRemoval
<1> QED
  BY <1>4, <1>5, <1>6, <1>7, <1>8, <1>9 DEF IInv

\* Nothing but the age of the keys changes.
LEMMA OnlyAges ==
  ASSUME TypeOK, IInv, UNCHANGED <<fs, proc, used, over, owed, honoured, mixed>>,
         expired \subseteq expired'
  PROVE  IInv'
<1>1. Busy' = Busy /\ Wanted' \subseteq Wanted
  BY DEF Busy, Wanted
<1>2. AccountsAreOwn'
  BY <1>1 DEF IInv, AccountsAreOwn
<1>3. WantedIsKept'
  <2>1. ASSUME ~mixed PROVE KeysReachDisk'
    BY <1>1, <2>1 DEF IInv, WantedIsKept, KeysReachDisk
  <2>2. ASSUME ~mixed, NEW q \in Busy PROVE proc[q].stale \/ WantedInHand(proc[q])'
    BY <1>1, <2>2, HandKept DEF IInv, WantedIsKept
  <2> QED
    BY <1>1, <2>1, <2>2 DEF WantedIsKept
<1>4. AllUsed'
  BY <1>1 DEF IInv, AllUsed, UsedInHand, WritesCred
<1>5. LoginIsFresh'
  BY <1>1 DEF IInv, LoginIsFresh
<1>6. NothingIsOver'
  BY <1>1 DEF IInv, NothingIsOver, LiveInHand, Live, WritesCred, WritesKeys
<1>7. LogoutProgress'
  BY <1>1 DEF IInv, LogoutProgress, Removed
<1> QED
  BY <1>2, <1>3, <1>4, <1>5, <1>6, <1>7 DEF IInv

-----------------------------------------------------------------------------
(* The invariant.                                                          *)

LEMMA InitType == Init => TypeOK
<1> SUFFICES ASSUME Init PROVE TypeOK
  OBVIOUS
<1>1. PICK schema \in {0, 1}, here \in BOOLEAN, there \in BOOLEAN, old \in OldKeys :
        LET cred == Cred(FirstToken, IF schema = 0 THEN None ELSE AccountOf[FirstToken],
                         FALSE, schema)
        IN /\ fs = [cred |-> IF here THEN cred ELSE Missing,
                    oldCred |-> IF there THEN cred ELSE Missing,
                    keys |-> Missing,
                    oldKeys |-> IF old = {} THEN Missing ELSE Keys(old),
                    trust |-> Missing]
           /\ inherited = old
  BY DEF Init
<1>2. Cred(FirstToken, IF schema = 0 THEN None ELSE AccountOf[FirstToken], FALSE, schema) \in Creds
  BY TokenAssumption DEF Cred, Creds, Account
<1>3. old \subseteq Share /\ Keys(old) \in Stores
  BY OldKeysAssumption DEF Keys, Stores
<1>4. FilesOK
  BY <1>1, <1>2, <1>3 DEF FilesOK
<1>5. ProcOK
  BY DEF Init, ProcOK, Busy, Idle
<1>6. CountsOK
  BY <1>1, <1>3, TokenAssumption DEF Init, CountsOK
<1> QED
  BY <1>4, <1>5, <1>6 DEF TypeOK

LEMMA InitEstablishes == Init => IInv
<1> SUFFICES ASSUME Init PROVE IInv
  OBVIOUS
<1>1. Busy = {} /\ over = {} /\ owed = {} /\ used = {FirstToken}
  BY DEF Init, Busy, Idle
<1>2. \A path \in CredFile : fs[path] = Missing \/ fs[path].token = FirstToken
  BY DEF Init, CredFile, Cred
<1>3. AllUsed
  BY <1>1, <1>2, KindsOfText DEF AllUsed
<1>4. fs["keys"] = Missing
  BY DEF Init
<1>5. WantedIsKept
  BY <1>1, <1>4, KindsOfText DEF WantedIsKept, KeysReachDisk, Wanted
<1>6. LoginIsFresh /\ LogoutProgress
  BY <1>1 DEF LoginIsFresh, LogoutProgress
<1>7. NothingIsOver
  BY <1>1 DEF NothingIsOver, Live
<1> QED
  BY <1>3, <1>5, <1>6, <1>7, AccountsInit DEF IInv

LEMMA StepType ==
  ASSUME TypeOK, NEW p \in Process, Step(p)
  PROVE  TypeOK'
<1>1. CASE Truncate(p) \/ Fill(p) \/ FillFails(p) \/ Crash(p)
  BY <1>1, TruncateType, FillType, FillFailsType, CrashType
<1>2. CASE ReadCred(p) \/ ReadOldCred(p) \/ Migrate(p) \/ SavePrepared(p) \/ SaveLogin(p) \/ EndLoad(p)
  BY <1>2, ReadCredStep, ReadOldCredStep, MigrateStep, SavePreparedStep, SaveLoginStep, EndLoadStep
  DEF Reads
<1>3. CASE SaveSignedTrust(p) \/ BindAccount(p) \/ ReadTrust(p) \/ Verify(p)
  BY <1>3, SaveSignedTrustStep, BindAccountStep, ReadTrustStep, VerifyStep DEF Reads
<1>4. CASE RemoveCred(p) \/ RemoveOldCred(p) \/ RemoveOldKeys(p) \/ RemoveKeys(p)
  BY <1>4, LogoutSteps DEF Removal
<1>5. CASE ReadKeys(p) \/ ReadOldKeys(p) \/ Prune(p) \/ DropOld(p) \/ SaveKeys(p)
  BY <1>5, ReadKeysStep, ReadOldKeysStep, PruneStep, DropOldStep, SaveKeysStep DEF Reads
<1> QED
  BY <1>1, <1>2, <1>3, <1>4, <1>5 DEF Step

LEMMA StepPreserves == TypeOK /\ IInv /\ [Next]_vars => TypeOK' /\ IInv'
<1> SUFFICES ASSUME TypeOK, IInv, [Next]_vars PROVE TypeOK' /\ IInv'
  OBVIOUS
<1>1. ASSUME NEW p \in Process, Begin(p) PROVE TypeOK' /\ IInv'
  <2>1. PICK call, at, share, token : Begins(p, call, at, share, token)
    BY <1>1, BeginBegins
  <2> QED
    BY <2>1, BeginType, BeginKeeps
<1>2. ASSUME NEW p \in Process, Step(p) PROVE TypeOK' /\ IInv'
  <2>1. TypeOK'
    BY <1>2, StepType
  <2>2. AccountsAreOwn'
    BY <1>2, AccountsStep DEF IInv
  <2>3. WantedIsKept'
    BY <1>2, WantedStep DEF IInv
  <2>4. AllUsed' /\ LoginIsFresh'
    BY <1>2, TokensStep DEF IInv
  <2>5. NothingIsOver'
    BY <1>2, LiveStep DEF IInv
  <2>6. LogoutProgress'
    BY <1>2, ProgressStep DEF IInv
  <2> QED
    BY <2>1, <2>2, <2>3, <2>4, <2>5, <2>6 DEF IInv
<1>3. ASSUME NEW s \in Share, Expire(s) PROVE TypeOK' /\ IInv'
  <2>1. TypeOK'
    BY <1>3, ExpireType
  <2> QED
    BY <1>3, <2>1, OnlyAges DEF Expire
<1>4. CASE UNCHANGED vars
  <2>1. TypeOK'
    BY <1>4 DEF vars, TypeOK, FilesOK, ProcOK, CountsOK, Busy
  <2> QED
    BY <1>4, <2>1, OnlyAges DEF vars
<1> QED
  BY <1>1, <1>2, <1>3, <1>4 DEF Next

\* What lies in each file is of its kind, every call is at one of its own places, and
\* everything else of IInv, in every reachable state.
THEOREM Invariance == Spec => [](TypeOK /\ IInv)
<1>1. Init => TypeOK /\ IInv
  BY InitType, InitEstablishes
<1> QED
  BY <1>1, StepPreserves, PTL DEF Spec

\* A logout that succeeded is final, for any number of processes, logins, calls and
\* failures: with no process saving what it made of files that have changed since, the
\* login comes back from no file, and none of the content keys it retained stays.
THEOREM LogoutsAreFinal == Spec => []LogoutIsFinal
<1>1. TypeOK /\ IInv => LogoutIsFinal
  <2> SUFFICES ASSUME TypeOK, NothingIsOver, ~mixed
               PROVE  /\ Tokens \cap over = {}
                      /\ \A path \in KeyFile : \A s \in SharesAt(path) : Owner[s] \notin over
    BY DEF IInv, LogoutIsFinal
  <2>1. Tokens \cap over = {}
    BY DEF Tokens, NothingIsOver, CredFile
  <2>2. \A path \in KeyFile : \A s \in SharesAt(path) : Owner[s] \notin over
    BY DEF SharesAt, NothingIsOver, Live
  <2> QED
    BY <2>1, <2>2
<1> QED
  BY <1>1, Invariance, PTL

\* A content key whose retention succeeded is in the store until its share is forgotten
\* or expires or a logout removes the store, whatever call fails or dies at whatever step:
\* unless a write of the store was cut off between truncation and its end, the store
\* holds it.  (Assumed: no process saves what it made of files that have changed since.)
THEOREM RetainedKeysAreKept == Spec => []KeysAreKept
<1>1. TypeOK /\ IInv => KeysAreKept
  <2> SUFFICES ASSUME TypeOK, WantedIsKept, ~mixed, fs["keys"] \notin {Empty, Torn}
               PROVE  Wanted \subseteq SharesAt("keys")
    BY DEF IInv, KeysAreKept, Wanted
  <2>1. fs["keys"].kind = "keys" \/ fs["keys"] = Missing
    BY KindsOfText DEF TypeOK, FilesOK, Spoiled
  <2> QED
    BY <2>1 DEF WantedIsKept, KeysReachDisk, SharesAt
<1> QED
  BY <1>1, Invariance, PTL

\* No login ever honours the trusted devices of another account.
THEOREM ListsAreForTheLogin == Spec => []TrustIsForLogin
<1>1. IInv => TrustIsForLogin
  BY DEF IInv, AccountsAreOwn, TrustIsForLogin
<1> QED
  BY <1>1, Invariance, PTL
=============================================================================
