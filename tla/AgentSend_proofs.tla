-------------------------- MODULE AgentSend_proofs --------------------------
(***************************************************************************)
(* Proofs about AgentSend: any devices, any adverts, true and false, any   *)
(* number of changes around the call, any bounds on attempts and waiting,  *)
(* and any width of a Duration.                                            *)
(***************************************************************************)
EXTENDS AgentSend, FiniteSetTheorems, TLAPS

Peers == [host : Addr, fp : Nat, id : Host \cup {None}]

Issued(c) == c \in 1 .. Len(issued)

\* A certificate in service was issued to its listener.
LanOK ==
  /\ addr \in [Host -> Addr]
  /\ issued \in Seq(Runs)
  /\ cert \in [Runs -> Nat]
  /\ \A l \in Runs : cert[l] # 0 => Issued(cert[l]) /\ issued[cert[l]] = l

Proved(q) == Issued(q.fp) /\ q.id = Identity(q.fp)

\* Of what was announced nothing is known but its form.
BrowseOK == browse \in [local : SUBSET Addr, seen : SUBSET Entries]

ScanOK ==
  /\ scan \in [todo : SUBSET Addr, found : SUBSET Peers, swept : BOOLEAN]
  /\ \A q \in scan.found : Proved(q)

\* A match is made for a wanted session, with a peer that proved its identity.
MatchOK == \A m \in matches :
  \E i \in Wanted : m[1] = Sessions[i][1] /\ Proved(m[2]) /\ m[2].id = Sessions[i][2]

OnePeer == \A m, n \in matches : m[1] = n[1] => m = n

DInv == LanOK /\ BrowseOK /\ ScanOK /\ MatchOK /\ OnePeer

-----------------------------------------------------------------------------
\* What the call has done so far.
Before == {"match", "prepare", "push lan", "browse", "probe", "push", "upload"}
After == {"seal", "inject", "wait"}

Params == p \in [file : BOOLEAN, fp : {None, Target}]

Chosen ==
  /\ step \in {"push lan", "push"} => p.fp = Target
  /\ step = "browse" /\ ~Matching => p.fp = Target
  /\ step = "push" => dest \in Entries /\ dest.role = "agent" /\ dest.id = Target

Placed ==
  /\ file = "lan" => \E l \in staged : Names(pinned, l)
  /\ file = "relay" => relayed

Progress ==
  /\ step \in Before \cup After \cup {"done"}
  /\ step \in Before \cup After => hops = <<>> /\ result = "running"
  /\ step \in After => file \in {"", "lan", "relay"} /\ (p.file <=> file # "")
  /\ step \in Before => file = ""
  /\ step \in {"push lan", "push", "upload"} => p.file
  /\ step = "match" => ~p.file

SInv == Params /\ Chosen /\ Placed /\ Progress /\ OneHopWithItsFile

IInv == DInv /\ SInv
-----------------------------------------------------------------------------
\* Certificates are only added.
Grows == \A c \in 1 .. Len(issued) : c \in 1 .. Len(issued') /\ issued'[c] = issued[c]

LEMMA AppendGrows ==
  ASSUME issued \in Seq(Runs), NEW l \in Runs, issued' = Append(issued, l)
  PROVE  Grows
  BY DEF Grows

LEMMA SameGrows ==
  ASSUME issued' = issued
  PROVE  Grows
  BY DEF Grows

LEMMA StaysTrue ==
  ASSUME Grows, NEW q
  PROVE  Proved(q) => Proved(q)'
<1>1. Issued(q.fp) => Issued(q.fp)' /\ issued'[q.fp] = issued[q.fp]
  BY DEF Grows, Issued
<1> QED
  BY <1>1, Zenon DEF Proved, Identity

LEMMA RestStays ==
  ASSUME BrowseOK, ScanOK, MatchOK, OnePeer, Grows, UNCHANGED <<browse, scan, matches>>
  PROVE  BrowseOK' /\ ScanOK' /\ MatchOK' /\ OnePeer'
<1>1. BrowseOK'
  BY Zenon DEF BrowseOK
<1>2. ScanOK'
  BY StaysTrue, Zenon DEF ScanOK
<1>3. MatchOK'
  BY StaysTrue, Zenon DEF MatchOK
<1>4. OnePeer'
  BY DEF OnePeer
<1> QED
  BY <1>1, <1>2, <1>3, <1>4

\* The call itself issues no certificate.
LEMMA CallKeepsDiscovery ==
  ASSUME DInv, UNCHANGED <<lan, browse, scan, matches>>
  PROVE  DInv'
<1>1. UNCHANGED <<addr, cert, issued, browse, scan, matches>>
  BY DEF lan
<1>2. Grows
  BY <1>1, SameGrows
<1>3. LanOK'
  BY <1>1, Zenon DEF DInv, LanOK, Issued
<1> QED
  BY <1>1, <1>2, <1>3, RestStays DEF DInv

LEMMA NothingIsKnown == Nothing \in [local : SUBSET Addr, seen : SUBSET Entries] /\ Nothing.seen = {}
  BY DEF Nothing

LEMMA NoScanIsKnown ==
  NoScan \in [todo : SUBSET Addr, found : SUBSET Peers, swept : BOOLEAN] /\ NoScan.found = {}
  BY DEF NoScan

-----------------------------------------------------------------------------
\* What happens around the call.

LEMMA StartKeeps ==
  ASSUME LanOK, NEW l \in Runs, Start(l)
  PROVE  LanOK' /\ Grows
<1>1. /\ cert' = [cert EXCEPT ![l] = Len(issued) + 1]
      /\ issued' = Append(issued, l) /\ addr' = addr
  BY DEF Start
<1>2. issued \in Seq(Runs) /\ cert \in [Runs -> Nat] /\ addr \in [Host -> Addr]
  BY DEF LanOK
<1>3. Grows
  BY <1>1, <1>2, AppendGrows
<1>4. issued' \in Seq(Runs) /\ Len(issued') = Len(issued) + 1 /\ Len(issued) \in Nat
      /\ issued'[Len(issued) + 1] = l
  BY <1>1, <1>2
<1>5. cert' \in [Runs -> Nat]
  BY <1>1, <1>2, <1>4
<1>6. ASSUME NEW k \in Runs, cert'[k] # 0
      PROVE  cert'[k] \in 1 .. Len(issued') /\ issued'[cert'[k]] = k
  <2>1. CASE k = l
    BY <1>1, <1>2, <1>4, <2>1
  <2>2. CASE k # l
    <3>1. cert'[k] = cert[k]
      BY <1>1, <1>2, <2>2
    <3>2. cert[k] \in 1 .. Len(issued) /\ issued[cert[k]] = k
      BY <1>6, <3>1 DEF LanOK, Issued
    <3> QED
      BY <1>3, <3>1, <3>2 DEF Grows
  <2> QED
    BY <2>1, <2>2
<1> QED
  BY <1>1, <1>2, <1>3, <1>4, <1>5, <1>6 DEF LanOK, Issued

LEMMA StopKeeps ==
  ASSUME LanOK, NEW l \in Runs, Stop(l)
  PROVE  LanOK' /\ Grows
<1>1. cert' = [cert EXCEPT ![l] = 0] /\ UNCHANGED <<addr, issued>>
  BY DEF Stop
<1>2. cert \in [Runs -> Nat]
  BY DEF LanOK
<1>3. cert' \in [Runs -> Nat] /\ \A k \in Runs : cert'[k] # 0 => cert'[k] = cert[k]
  BY <1>1, <1>2
<1>4. \A k \in Runs : cert'[k] # 0 => cert'[k] \in 1 .. Len(issued) /\ issued[cert'[k]] = k
  BY <1>3 DEF LanOK, Issued
<1>5. Grows
  BY <1>1, SameGrows
<1> QED
  BY <1>1, <1>3, <1>4, <1>5 DEF LanOK, Issued

LEMMA MoveKeeps ==
  ASSUME LanOK, NEW h \in Host, Move(h)
  PROVE  LanOK' /\ Grows
<1>1. UNCHANGED <<cert, issued>>
  BY DEF Move
<1>2. PICK a \in Addr : addr' = [addr EXCEPT ![h] = a]
  BY DEF Move
<1>3. addr' \in [Host -> Addr]
  BY <1>2 DEF LanOK
<1>4. Grows
  BY <1>1, SameGrows
<1> QED
  BY <1>1, <1>3, <1>4 DEF LanOK, Issued

LEMMA OwnKeeps ==
  ASSUME LanOK, NEW a, NEW from, NEW to, NEW count, Own(a, from, to, count)
  PROVE  LanOK' /\ Grows
<1>1. UNCHANGED <<addr, cert, issued>>
  BY DEF Own
<1> QED
  BY <1>1, SameGrows DEF LanOK, Issued

LEMMA AroundKeeps ==
  ASSUME DInv, Around
  PROVE  DInv' /\ Grows
<1>1. UNCHANGED <<browse, scan, matches>>
  BY DEF Around
<1>2. LanOK
  BY DEF DInv
<1>3. LanOK' /\ Grows
  <2>1. CASE \E l \in Runs : Start(l) \/ Stop(l)
    BY <1>2, <2>1, StartKeeps, StopKeeps
  <2>2. CASE \E h \in Host : Move(h)
    BY <1>2, <2>2, MoveKeeps
  <2>3. CASE \E a \in Advert : Advertise(a) \/ RegisterSelf(a) \/ Shutdown(a) \/ Release(a)
    BY <1>2, <2>3, OwnKeeps DEF Advertise, RegisterSelf, Shutdown, Release
  <2> QED
    BY <2>1, <2>2, <2>3 DEF Around
<1> QED
  BY <1>1, <1>3, RestStays DEF DInv

LEMMA EntryType ==
  ASSUME LanOK, NEW l \in Runs
  PROVE  Entry(l) \in Entries
<1>1. l[1] \in Host /\ l[2] \in Role
  BY DiscoveryAssumption
<1>2. addr[l[1]] \in Addr /\ cert[l] \in Nat
  BY <1>1 DEF LanOK
<1>3. Id(l[1]) \in {None, l[1]}
  BY DEF Id
<1> QED
  BY <1>1, <1>2, <1>3 DEF Entry, Entries

\* Whatever is heard, true or not.
LEMMA HearsKeeps ==
  ASSUME DInv, NEW q \in Entries, Hears(q), UNCHANGED <<addr, cert, issued>>
  PROVE  DInv' /\ Grows
<1>1. /\ UNCHANGED <<addr, cert, issued, scan, matches>>
      /\ browse' = [browse EXCEPT !.seen = {r \in @ : ~SameKey(q, r)} \cup {q}]
  BY DEF Hears
<1>2. Grows
  BY <1>1, SameGrows
<1>3. BrowseOK'
  <2> DEFINE others == {r \in browse.seen : ~SameKey(q, r)}
  <2>1. browse \in [local : SUBSET Addr, seen : SUBSET Entries]
    BY DEF DInv, BrowseOK
  <2>2. others \subseteq Entries
    BY <2>1
  <2>3. browse' = [browse EXCEPT !.seen = others \cup {q}]
    BY <1>1
  <2> HIDE DEF others
  <2> QED
    BY <2>1, <2>2, <2>3 DEF BrowseOK
<1>4. ScanOK' /\ MatchOK' /\ OnePeer'
  <2>1. ScanOK'
    BY <1>1, <1>2, StaysTrue, Zenon DEF DInv, ScanOK
  <2>2. MatchOK'
    BY <1>1, <1>2, StaysTrue, Zenon DEF DInv, MatchOK
  <2>3. OnePeer'
    BY <1>1 DEF DInv, OnePeer
  <2> QED
    BY <2>1, <2>2, <2>3
<1>5. LanOK'
  BY <1>1, Zenon DEF DInv, LanOK, Issued
<1> QED
  BY <1>2, <1>3, <1>4, <1>5 DEF DInv

LEMMA HearKeeps ==
  ASSUME DInv, NEW l \in Runs, Hear(l)
  PROVE  DInv' /\ Grows
BY EntryType, HearsKeeps DEF Hear, lan, DInv

LEMMA HearClaimKeeps ==
  ASSUME DInv, NEW q \in Claims, HearClaim(q)
  PROVE  DInv' /\ Grows
<1>1. q \in Entries
  BY DiscoveryAssumption
<1> QED
  BY <1>1, HearsKeeps DEF HearClaim

-----------------------------------------------------------------------------
\* MatchLocalDevices.

LEMMA OpenWindowKeeps ==
  ASSUME DInv, OpenWindow, UNCHANGED <<lan, scan, matches>>
  PROVE  DInv'
<1>1. UNCHANGED <<addr, cert, issued, scan, matches>>
  BY DEF lan
<1>2. Me \in Host
  <2>1. Mine \in Runs /\ Mine[1] = Me
    BY DiscoveryAssumption DEF Mine
  <2> QED
    BY <2>1 DEF Host
<1>3. PICK local \in {{}, {addr[Me]}} : browse' = [local |-> local, seen |-> {}]
  BY DEF OpenWindow
<1>4. local \in SUBSET Addr
  BY <1>2, <1>3 DEF DInv, LanOK
<1>5. BrowseOK'
  BY <1>3, <1>4 DEF BrowseOK
<1>6. LanOK'
  BY <1>1, Zenon DEF DInv, LanOK, Issued
<1>7. Grows
  BY <1>1, SameGrows
<1>8. ScanOK'
  BY <1>1, <1>7, StaysTrue, Zenon DEF DInv, ScanOK
<1>9. MatchOK'
  BY <1>1, <1>7, StaysTrue, Zenon DEF DInv, MatchOK
<1>10. OnePeer'
  BY <1>1 DEF DInv, OnePeer
<1> QED
  BY <1>5, <1>6, <1>8, <1>9, <1>10 DEF DInv

\* Browsing and probing are over or go on; matches stay.
LEMMA ForgetKeeps ==
  ASSUME DInv, UNCHANGED <<lan, matches>>,
         browse' = browse \/ browse' = Nothing,
         scan' = scan \/ scan' = NoScan
  PROVE  LanOK' /\ BrowseOK' /\ ScanOK' /\ MatchOK' /\ OnePeer'
<1>1. UNCHANGED <<addr, cert, issued>>
  BY DEF lan
<1>2. Grows
  BY <1>1, SameGrows
<1>3. LanOK'
  BY <1>1, Zenon DEF DInv, LanOK, Issued
<1>4. BrowseOK'
  <2>1. CASE browse' = browse
    BY <1>2, <2>1, Zenon DEF DInv, BrowseOK
  <2>2. CASE browse' = Nothing
    BY <2>2, NothingIsKnown DEF BrowseOK
  <2> QED
    BY <2>1, <2>2
<1>5. ScanOK'
  <2>1. CASE scan' = scan
    BY <1>2, <2>1, StaysTrue, Zenon DEF DInv, ScanOK
  <2>2. CASE scan' = NoScan
    BY <2>2, NoScanIsKnown DEF ScanOK
  <2> QED
    BY <2>1, <2>2
<1>6. MatchOK'
  BY <1>2, StaysTrue, Zenon DEF DInv, MatchOK
<1>7. OnePeer'
  BY DEF DInv, OnePeer
<1> QED
  BY <1>3, <1>4, <1>5, <1>6, <1>7

LEMMA ScanKeeps ==
  ASSUME DInv, Scan
  PROVE  DInv'
<1>1. UNCHANGED <<lan, browse, matches>>
  BY DEF Scan
<1>2. PICK sweep \in BOOLEAN :
        scan' = [todo |-> scanTargets(sweep), found |-> {}, swept |-> sweep]
  BY DEF Scan
<1>3. browseTargets \subseteq Addr
  BY DEF browseTargets, DInv, BrowseOK, Entries
<1>4. localScanTargets(sweep) \subseteq Addr
  BY DEF localScanTargets
<1>5. {addr[h] : h \in Tailnet} \subseteq Addr
  BY DiscoveryAssumption DEF DInv, LanOK
<1>6. scanTargets(sweep) \subseteq Addr
  BY <1>3, <1>4, <1>5, Zenon DEF scanTargets
<1>7. ScanOK'
  BY <1>2, <1>6 DEF ScanOK
<1>8. UNCHANGED <<addr, cert, issued>>
  BY <1>1 DEF lan
<1>9. Grows
  BY <1>8, SameGrows
<1>10. LanOK'
  BY <1>8, Zenon DEF DInv, LanOK, Issued
<1>11. BrowseOK'
  BY <1>1, <1>9, Zenon DEF DInv, BrowseOK
<1>12. MatchOK'
  BY <1>1, <1>9, StaysTrue, Zenon DEF DInv, MatchOK
<1>13. OnePeer'
  BY <1>1 DEF DInv, OnePeer
<1> QED
  BY <1>7, <1>10, <1>11, <1>12, <1>13 DEF DInv

LEMMA AnswerIsProved ==
  ASSUME LanOK, NEW a \in Addr, NEW q \in probeReceiver(a)
  PROVE  q \in Peers /\ Proved(q)
<1>1. PICK l \in Runs : /\ cert[l] # 0
                        /\ q = [host |-> a, fp |-> cert[l], id |-> Identity(cert[l])]
  BY DEF probeReceiver
<1>2. Issued(cert[l]) /\ issued[cert[l]] = l /\ cert[l] \in Nat
  BY <1>1 DEF LanOK
<1>3. Identity(cert[l]) \in Host \cup {None}
  BY <1>2, DiscoveryAssumption DEF Identity, Id
<1>4. q \in Peers
  BY <1>1, <1>2, <1>3 DEF Peers
<1>5. q.fp = cert[l] /\ q.id = Identity(cert[l])
  BY <1>1
<1>6. Proved(q)
  BY <1>2, <1>5, Zenon DEF Proved
<1> QED
  BY <1>4, <1>6

LEMMA ProbeKeeps ==
  ASSUME DInv, NEW a \in Addr, Probe(a)
  PROVE  DInv'
<1>1. UNCHANGED <<lan, browse, matches>>
  BY DEF Probe
<1>2. PICK timely \in BOOLEAN :
        scan' = [scan EXCEPT !.todo = @ \ {a},
                             !.found = @ \cup {q \in probeReceiver(a) : timely /\ ~isSelfFingerprint(q.fp)}]
  BY DEF Probe
<1> DEFINE new == {q \in probeReceiver(a) : timely /\ ~isSelfFingerprint(q.fp)}
<1>3. LanOK
  BY DEF DInv
<1>4. new \subseteq Peers /\ \A q \in new : Proved(q)
  BY <1>3, AnswerIsProved
<1>5. scan' = [scan EXCEPT !.todo = @ \ {a}, !.found = @ \cup new]
  BY <1>2
<1> HIDE DEF new
<1>6. scan \in [todo : SUBSET Addr, found : SUBSET Peers, swept : BOOLEAN]
  BY DEF DInv, ScanOK
<1>7. scan' \in [todo : SUBSET Addr, found : SUBSET Peers, swept : BOOLEAN]
      /\ scan'.found = scan.found \cup new
  BY <1>4, <1>5, <1>6
<1>8. \A q \in scan'.found : Proved(q)
  BY <1>4, <1>7 DEF DInv, ScanOK
<1>9. UNCHANGED <<addr, cert, issued>>
  BY <1>1 DEF lan
<1>10. Grows
  BY <1>9, SameGrows
<1>11. ScanOK'
  BY <1>7, <1>8, <1>10, StaysTrue, Zenon DEF ScanOK
<1>12. LanOK'
  BY <1>9, Zenon DEF DInv, LanOK, Issued
<1>13. BrowseOK'
  BY <1>1, <1>10, Zenon DEF DInv, BrowseOK
<1>14. MatchOK'
  BY <1>1, <1>10, StaysTrue, Zenon DEF DInv, MatchOK
<1>15. OnePeer'
  BY <1>1 DEF DInv, OnePeer
<1> QED
  BY <1>11, <1>12, <1>13, <1>14, <1>15 DEF DInv

LEMMA MatchKeeps ==
  ASSUME DInv, Match
  PROVE  DInv'
<1>1. UNCHANGED lan /\ browse' = Nothing /\ scan' = NoScan
  BY DEF Match, Forget
<1>2. PICK pick \in [{i \in Wanted : Candidates(i) # {}} -> scan.found] :
        /\ \A i \in DOMAIN pick : pick[i] \in Candidates(i)
        /\ matches' = {<<Sessions[i][1], pick[i]>> : i \in DOMAIN pick}
  BY DEF Match
<1>3. UNCHANGED <<addr, cert, issued>>
  BY <1>1 DEF lan
<1>4. Grows
  BY <1>3, SameGrows
<1>5. DOMAIN pick \subseteq Wanted
  BY <1>2
<1>6. ASSUME NEW m \in matches'
      PROVE  \E i \in Wanted : m[1] = Sessions[i][1] /\ Proved(m[2])' /\ m[2].id = Sessions[i][2]
  <2>1. PICK i \in DOMAIN pick : m = <<Sessions[i][1], pick[i]>>
    BY <1>2
  <2>2. m[1] = Sessions[i][1] /\ m[2] = pick[i]
    BY <2>1
  <2>3. pick[i] \in scan.found /\ pick[i].id = Sessions[i][2]
    BY <1>2 DEF Candidates
  <2>4. Proved(pick[i])
    BY <2>3 DEF DInv, ScanOK
  <2>5. Proved(pick[i])'
    BY <1>4, <2>4, StaysTrue
  <2> QED
    BY <1>5, <2>2, <2>3, <2>5, Zenon
<1>7. MatchOK'
  BY <1>6, Zenon DEF MatchOK
<1>8. OnePeer'
  <2>1. SUFFICES ASSUME NEW m \in matches', NEW n \in matches', m[1] = n[1]
                 PROVE  m = n
    BY Zenon DEF OnePeer
  <2>2. PICK i \in DOMAIN pick : m = <<Sessions[i][1], pick[i]>>
    BY <1>2
  <2>3. PICK j \in DOMAIN pick : n = <<Sessions[j][1], pick[j]>>
    BY <1>2
  <2>4. i \in DOMAIN Sessions /\ j \in DOMAIN Sessions
    BY <1>5 DEF Wanted
  <2>5. i = j
    BY <2>1, <2>2, <2>3, <2>4, SessionAssumption
  <2> QED
    BY <2>2, <2>3, <2>5
<1>9. LanOK'
  BY <1>3, Zenon DEF DInv, LanOK, Issued
<1>10. BrowseOK' /\ ScanOK'
  BY <1>1, NothingIsKnown, NoScanIsKnown DEF BrowseOK, ScanOK
<1> QED
  BY <1>7, <1>8, <1>9, <1>10 DEF DInv

LEMMA ScanFailsKeeps ==
  ASSUME DInv, ScanFails
  PROVE  DInv'
  BY ForgetKeeps DEF ScanFails, Forget, DInv

-----------------------------------------------------------------------------
\* SendAgentFile.

LEMMA TargetIsAHost == Target \in Host /\ Target # None
  BY DiscoveryAssumption, TargetAssumption

LEMMA NoHopYet ==
  ASSUME hops' = <<>>, result' \in {"running", "error"}
  PROVE  OneHopWithItsFile'
<1>1. Len(hops') <= 1 /\ \A i : i \notin DOMAIN hops'
  OBVIOUS
<1>2. result' \notin {"lan", "relay", ""}
  OBVIOUS
<1> QED
  BY <1>1, <1>2, Zenon DEF OneHopWithItsFile

\* Discovery leaves what the call has done so far.
LEMMA DiscoveryKeepsSend ==
  ASSUME SInv, UNCHANGED send, step \in {"match", "browse", "probe"},
         step' \in {"browse", "probe", "done"},
         step' = "browse" => step = "browse" \/ Matching
  PROVE  SInv'
<1> USE DEF SInv
<1>1. UNCHANGED <<p, file, staged, relayed, hops, dest, pinned, result>>
  BY DEF send
<1>2. Chosen'
  BY <1>1 DEF Chosen, Matching
<1>3. Progress'
  BY <1>1 DEF Progress, Before, After
<1>4. hops = <<>> /\ result = "running" /\ file = ""
  BY DEF Progress, Before
<1>5. OneHopWithItsFile'
  BY <1>1, <1>4, NoHopYet
<1>6. Params' /\ Placed'
  BY <1>1, <1>4 DEF Params, Placed
<1> QED
  BY <1>2, <1>3, <1>5, <1>6

LEMMA PrepareKeeps ==
  ASSUME SInv, Prepare
  PROVE  SInv'
<1> USE DEF SInv
<1>1. step = "prepare" /\ UNCHANGED <<p, file, staged, relayed, hops, dest>>
  BY DEF Prepare, StaysOn
<1>2. hops = <<>> /\ result = "running" /\ file = ""
  BY <1>1 DEF Progress, Before
<1>3. \/ step' = "done" /\ result' = "error"
      \/ step' = "seal" /\ result' = result /\ ~p.file
      \/ step' = "upload" /\ result' = result /\ p.file
      \/ step' = "push lan" /\ result' = result /\ p.file /\ p.fp # None
  BY DEF Prepare, Go, Return
<1>4. p.fp \in {None, Target}
  BY DEF Params
<1>5. Params' /\ Placed'
  BY <1>1, <1>2 DEF Params, Placed
<1>6. Chosen'
  BY <1>1, <1>3, <1>4 DEF Chosen
<1>7. Progress'
  BY <1>1, <1>2, <1>3 DEF Progress, Before, After
<1>8. OneHopWithItsFile'
  BY <1>1, <1>2, <1>3, NoHopYet
<1> QED
  BY <1>5, <1>6, <1>7, <1>8

LEMMA PushAgentFileLANKeeps ==
  ASSUME SInv, PushAgentFileLAN
  PROVE  SInv'
<1> USE DEF SInv
<1>1. /\ step = "push lan" /\ step' \in {"browse", "upload"}
      /\ UNCHANGED <<p, file, staged, relayed, hops, dest, pinned, result>>
  BY DEF PushAgentFileLAN, Go, send
<1>2. hops = <<>> /\ result = "running" /\ file = "" /\ p.file
  BY <1>1 DEF Progress, Before
<1>3. Params' /\ Placed'
  BY <1>1, <1>2 DEF Params, Placed
<1>4. Chosen'
  BY <1>1 DEF Chosen
<1>5. Progress'
  BY <1>1, <1>2 DEF Progress, Before, After
<1>6. OneHopWithItsFile'
  BY <1>1, <1>2, NoHopYet
<1> QED
  BY <1>3, <1>4, <1>5, <1>6

LEMMA SelectKeeps ==
  ASSUME DInv, SInv, ~Matching, Select
  PROVE  DInv' /\ SInv'
<1> USE DEF SInv
<1>1. /\ step = "browse" /\ browse' = Nothing
      /\ UNCHANGED <<lan, scan, matches, p, file, staged, relayed, hops, pinned, result>>
  BY DEF Select
<1>2. \/ step' = "upload"
      \/ step' = "push" /\ dest' \in selectAgentFilePeer
  BY DEF Select, Go
<1>3. hops = <<>> /\ result = "running" /\ file = ""
  BY <1>1 DEF Progress, Before
<1>4. p.file /\ p.fp = Target
  BY <1>1 DEF Chosen, Matching
<1>5. DInv'
  BY <1>1, ForgetKeeps DEF DInv
<1>6. Chosen'
  <2>1. CASE step' = "upload"
    BY <2>1 DEF Chosen
  <2>2. CASE step' = "push" /\ dest' \in selectAgentFilePeer
    <3>1. dest' \in browse.seen /\ dest'.id = p.fp /\ dest'.role = "agent"
      BY <2>2 DEF selectAgentFilePeer
    <3>2. dest' \in Entries
      BY <3>1 DEF DInv, BrowseOK
    <3>3. p'.fp = Target
      BY <1>1, <1>4
    <3> QED
      BY <1>4, <2>2, <3>1, <3>2, <3>3 DEF Chosen
  <2> QED
    BY <1>2, <2>1, <2>2
<1>7. Params' /\ Placed'
  BY <1>1, <1>3 DEF Params, Placed
<1>8. Progress'
  BY <1>1, <1>2, <1>3, <1>4 DEF Progress, Before, After
<1>9. OneHopWithItsFile'
  BY <1>1, <1>3, NoHopYet
<1> QED
  BY <1>5, <1>6, <1>7, <1>8, <1>9

\* Whoever is trusted with the ciphertext is one the pinned fingerprint names, whatever
\* address it was announced at and whoever announced it.
LEMMA TrustedIsNamed ==
  ASSUME LanOK, NEW l \in Answering, NEW fp, Trusted(cert[l], fp)
  PROVE  Names(fp, l)
<1>1. l \in Runs /\ cert[l] # 0
  BY DEF Answering
<1>2. cert[l] \in DOMAIN issued /\ issued[cert[l]] = l
  BY <1>1 DEF LanOK, Issued
<1>3. CASE Identity(cert[l]) # None /\ Identity(cert[l]) = fp
  <2>1. fp = l[1]
    BY <1>2, <1>3, Zenon DEF Identity, Id
  <2> QED
    BY <2>1, Zenon DEF Names
<1>4. CASE fp = None \/ cert[l] = fp
  BY <1>2, <1>4, Zenon DEF Names
<1> QED
  BY <1>3, <1>4, Zenon DEF Trusted

LEMMA PushKeeps ==
  ASSUME LanOK, SInv, Push
  PROVE  SInv'
<1> USE DEF SInv
<1>1. /\ step = "push" /\ UNCHANGED <<p, relayed, hops, result>>
      /\ staged \subseteq staged'
  BY DEF Push, StaysOn
<1>2. hops = <<>> /\ result = "running" /\ file = "" /\ p.file
  BY <1>1 DEF Progress, Before
<1>3. \/ step' = "upload" /\ file' = file
      \/ step' = "seal" /\ file' = "lan" /\ (\E l \in staged : Names(pinned, l))'
  <2>1. CASE \E l \in Answering :
               /\ Trusted(cert[l], dest.fp)
               /\ staged' = staged \cup {l}
               /\ \/ Go("seal") /\ file' = "lan" /\ pinned' = dest.fp
                  \/ Go("upload") /\ UNCHANGED <<file, pinned>>
    <3>1. PICK l \in Answering :
               /\ Trusted(cert[l], dest.fp)
               /\ staged' = staged \cup {l}
               /\ \/ Go("seal") /\ file' = "lan" /\ pinned' = dest.fp
                  \/ Go("upload") /\ UNCHANGED <<file, pinned>>
      BY <2>1
    <3>2. Names(dest.fp, l) /\ UNCHANGED issued
      BY <3>1, TrustedIsNamed DEF Push, StaysOn, lan
    <3>3. l \in staged'
      BY <3>1
    <3>4. pinned' = dest.fp => Names(pinned, l)'
      BY <3>2, Zenon DEF Names
    <3> QED
      BY <3>1, <3>3, <3>4 DEF Go
  <2>2. CASE Go("upload") /\ UNCHANGED <<staged, file, pinned>>
    BY <2>2 DEF Go
  <2> QED
    BY <2>1, <2>2 DEF Push
<1>4. Params'
  BY <1>1 DEF Params
<1>5. Placed'
  BY <1>1, <1>2, <1>3 DEF Placed
<1>6. Chosen'
  BY <1>3 DEF Chosen
<1>7. Progress'
  BY <1>1, <1>2, <1>3 DEF Progress, Before, After
<1>8. OneHopWithItsFile'
  BY <1>1, <1>2, NoHopYet
<1> QED
  BY <1>4, <1>5, <1>6, <1>7, <1>8

LEMMA UploadKeeps ==
  ASSUME SInv, Upload
  PROVE  SInv'
<1> USE DEF SInv
<1>1. step = "upload" /\ UNCHANGED <<p, staged, hops, dest, pinned>>
  BY DEF Upload, StaysOn
<1>2. hops = <<>> /\ result = "running" /\ file = "" /\ p.file
  BY <1>1 DEF Progress, Before
<1>3. \/ step' = "seal" /\ file' = "relay" /\ relayed' /\ result' = result
      \/ step' = "done" /\ file' = file /\ result' = "error"
  <2>1. PICK answer \in Final, acts \in BOOLEAN :
          /\ acts \in Acts(answer)
          /\ relayed' = (relayed \/ acts)
          /\ IF answer = "ok" THEN Go("seal") /\ file' = "relay" /\ UNCHANGED result
                              ELSE Return("error") /\ UNCHANGED file
    BY DEF Upload
  <2>2. CASE answer = "ok"
    <3>1. acts
      BY <2>1, <2>2 DEF Acts
    <3>2. relayed'
      BY <2>1, <3>1, Zenon
    <3> QED
      BY <2>1, <2>2, <3>2 DEF Go
  <2>3. CASE answer # "ok"
    BY <2>1, <2>3 DEF Return
  <2> QED
    BY <2>2, <2>3
<1>4. Params'
  BY <1>1 DEF Params
<1>5. Placed'
  BY <1>2, <1>3 DEF Placed
<1>6. Chosen'
  BY <1>3 DEF Chosen
<1>7. Progress'
  BY <1>1, <1>2, <1>3 DEF Progress, Before, After
<1>8. OneHopWithItsFile'
  BY <1>1, <1>2, <1>3, NoHopYet
<1> QED
  BY <1>4, <1>5, <1>6, <1>7, <1>8

LEMMA SealOrWaitKeeps ==
  ASSUME SInv, SealAndSign \/ Wait
  PROVE  SInv'
<1> USE DEF SInv
<1>1. /\ step \in {"seal", "wait"}
      /\ UNCHANGED <<p, file, staged, relayed, hops, dest, pinned, issued>>
  BY DEF SealAndSign, Wait, lan
<1>2. \/ step' = "inject" /\ result' = result
      \/ step' = "done" /\ result' = "error"
  BY DEF SealAndSign, Wait, Go, Return
<1>3. hops = <<>> /\ result = "running"
  BY <1>1 DEF Progress, After
<1>4. Params' /\ Placed'
  BY <1>1, Zenon DEF Params, Placed, Names
<1>5. Chosen'
  BY <1>2 DEF Chosen
<1>6. Progress'
  BY <1>1, <1>2, <1>3 DEF Progress, Before, After
<1>7. OneHopWithItsFile'
  BY <1>1, <1>2, <1>3, NoHopYet
<1> QED
  BY <1>4, <1>5, <1>6, <1>7

\* The hop is queued in the last request, as only an answer that says nothing was done
\* lets the request be sent again; and it names the place the file is at.
LEMMA AgentInjectKeeps ==
  ASSUME SInv, AgentInject
  PROVE  SInv'
<1> USE DEF SInv
<1>1. step = "inject" /\ UNCHANGED <<p, file, staged, relayed, dest, pinned, issued>>
  BY DEF AgentInject, lan
<1>2. hops = <<>> /\ result = "running" /\ file \in {"", "lan", "relay"} /\ (p.file <=> file # "")
  BY <1>1 DEF Progress, After
<1>3. PICK answer \in Final \cup {"limited"}, acts \in BOOLEAN, seconds \in Asks :
        /\ acts \in Acts(answer)
        /\ hops' = IF acts THEN Append(hops, Hop) ELSE hops
        /\ IF Resends(answer) /\ MayRetry(seconds)
             THEN Retry(seconds) /\ Go("wait") /\ UNCHANGED result
             ELSE Return(IF answer = "ok" THEN file ELSE "error") /\ callStart
  BY DEF AgentInject
<1> DEFINE queued == <<Hop>>
<1>4. /\ acts => hops' = queued
      /\ ~acts => hops' = <<>>
  <2>1. \A h : Append(<<>>, h) = <<h>>
    OBVIOUS
  <2> QED
    BY <1>2, <1>3, <2>1, Zenon
<1> HIDE DEF queued
<1>5. answer = "ok" => hops' = queued
  <2>1. answer = "ok" => acts
    BY <1>3 DEF Acts
  <2> QED
    BY <1>4, <2>1
<1>6. \/ step' = "wait" /\ result' = result /\ hops' = <<>>
      \/ step' = "done" /\ result' \in {file, "error"} /\ (result' # "error" => hops' = queued)
  <2>1. CASE Resends(answer) /\ MayRetry(seconds)
    <3>1. ~acts
      BY <1>3, <2>1 DEF Resends, Acts, Final
    <3>2. hops' = <<>>
      BY <1>4, <3>1
    <3> QED
      BY <1>3, <2>1, <3>2 DEF Go
  <2>2. CASE ~(Resends(answer) /\ MayRetry(seconds))
    <3>1. step' = "done" /\ result' = IF answer = "ok" THEN file ELSE "error"
      BY <1>3, <2>2 DEF Return
    <3> QED
      BY <1>5, <3>1
  <2> QED
    BY <2>1, <2>2
<1>7. Params' /\ Placed'
  BY <1>1, Zenon DEF Params, Placed, Names
<1>8. Chosen'
  BY <1>6 DEF Chosen
<1>9. Progress'
  BY <1>1, <1>2, <1>6 DEF Progress, Before, After
<1>10. OneHopWithItsFile'
  <2>1. CASE hops' = <<>>
    <3>1. result' \in {"running", "error"}
      <4>1. \A h : <<h>> # <<>>
        OBVIOUS
      <4>2. queued # <<>>
        BY <4>1 DEF queued
      <4> QED
        BY <1>2, <1>6, <2>1, <4>2
    <3> QED
      BY <2>1, <3>1, NoHopYet
  <2>2. CASE hops' = queued
    <3>1. Len(hops') <= 1 /\ Len(hops') = 1 /\ \A i \in DOMAIN hops' : hops'[i] = Hop
      <4>1. \A h : Len(<<h>>) = 1 /\ DOMAIN <<h>> = {1} /\ <<h>>[1] = h
        OBVIOUS
      <4> QED
        BY <2>2, <4>1 DEF queued
    <3>2. Hop.lanFile => (\E l \in staged : Names(pinned, l))'
      BY <1>1, Zenon DEF Hop, Placed, Names
    <3>3. Hop.object => relayed'
      BY <1>1 DEF Hop, Placed
    <3>4. p.file = (Hop.lanFile \/ Hop.object)
      <4>1. p.file \in BOOLEAN
        BY DEF Params
      <4>2. Hop.lanFile = (file = "lan") /\ Hop.object = (file = "relay")
        BY DEF Hop
      <4>3. p.file <=> (Hop.lanFile \/ Hop.object)
        BY <1>2, <4>2
      <4> QED
        BY <4>1, <4>2, <4>3
    <3>5. p'.file = (Hop.lanFile \/ Hop.object)
      BY <1>1, <3>4
    <3> QED
      BY <3>1, <3>2, <3>3, <3>5, Zenon DEF OneHopWithItsFile
  <2> QED
    BY <1>4, <2>1, <2>2
<1> QED
  BY <1>7, <1>8, <1>9, <1>10

-----------------------------------------------------------------------------
\* The certificates there are at the start are numbered one by one.
LEMMA SetToSeqListsAll ==
  ASSUME NEW S, IsFiniteSet(S)
  PROVE  SetToSeq(S) \in Seq(S) /\ \A s \in S : \E i \in 1 .. Len(SetToSeq(S)) : SetToSeq(S)[i] = s
<1> DEFINE n == Cardinality(S)
<1>1. n \in Nat /\ ExistsBijection(1 .. n, S)
  BY FS_CardinalityType
<1>2. PICK g \in Bijection(1 .. n, S) : TRUE
  BY <1>1 DEF ExistsBijection
<1>3. g \in [1 .. n -> S] /\ IsInjective(g)
  BY <1>2 DEF Bijection, Injection
<1>4. SetToSeq(S) \in [1 .. n -> S] /\ IsInjective(SetToSeq(S))
  BY <1>3 DEF SetToSeq
<1>5. SetToSeq(S) \in Injection(1 .. n, S)
  BY <1>4 DEF Injection
<1>6. SetToSeq(S) \in Surjection(1 .. n, S)
  <2>1. IsFiniteSet(1 .. n) /\ Cardinality(1 .. n) = n
    BY <1>1, FS_Interval
  <2> QED
    BY <1>5, <2>1, FS_Injection
<1> QED
  BY <1>1, <1>4, <1>6 DEF Surjection

LEMMA DiscoveryStarts ==
  ASSUME DiscoveryInit
  PROVE  DInv
<1>1. PICK up \in {u \in SUBSET Runs : Mine \in u} :
        /\ issued = SetToSeq({Mine}) \o SetToSeq(up \ {Mine})
        /\ cert = [l \in Runs |-> IF l \in up THEN CHOOSE c \in DOMAIN issued : issued[c] = l ELSE 0]
  BY Zenon DEF DiscoveryInit
<1> DEFINE a == SetToSeq({Mine})
           b == SetToSeq(up \ {Mine})
<1>2. up \subseteq Runs /\ Mine \in up
  OBVIOUS
<1>3. a \in Seq({Mine}) /\ \A l \in {Mine} : \E i \in 1 .. Len(a) : a[i] = l
  BY FS_Singleton, SetToSeqListsAll
<1>4. b \in Seq(up \ {Mine}) /\ \A l \in up \ {Mine} : \E i \in 1 .. Len(b) : b[i] = l
  <2>1. IsFiniteSet(up \ {Mine})
    BY <1>2, DiscoveryAssumption, FS_Subset
  <2> QED
    BY <2>1, SetToSeqListsAll
<1>5. issued = a \o b
  BY <1>1
<1> HIDE DEF a, b
<1>6. a \in Seq(Runs) /\ b \in Seq(Runs)
  BY <1>2, <1>3, <1>4
<1>7. issued \in Seq(Runs) /\ DOMAIN issued = 1 .. Len(issued)
  BY <1>5, <1>6
<1>8. ASSUME NEW l \in up
      PROVE  \E c \in DOMAIN issued : issued[c] = l
  <2>1. CASE l = Mine
    <3>1. PICK i \in 1 .. Len(a) : a[i] = l
      BY <1>3, <2>1
    <3>2. i \in 1 .. Len(issued) /\ issued[i] = l
      BY <1>5, <1>6, <3>1
    <3> QED
      BY <1>7, <3>2
  <2>2. CASE l # Mine
    <3>1. PICK i \in 1 .. Len(b) : b[i] = l
      BY <1>4, <2>2
    <3>2. Len(a) + i \in 1 .. Len(issued) /\ issued[Len(a) + i] = l
      BY <1>5, <1>6, <3>1
    <3> QED
      BY <1>7, <3>2
  <2> QED
    BY <2>1, <2>2
<1>9. \A l \in Runs :
        /\ l \in up => cert[l] \in DOMAIN issued /\ issued[cert[l]] = l
        /\ l \notin up => cert[l] = 0
  <2>1. ASSUME NEW l \in up PROVE cert[l] \in DOMAIN issued /\ issued[cert[l]] = l
    <3>1. cert[l] = CHOOSE c \in DOMAIN issued : issued[c] = l
      BY <1>1, <1>2
    <3> QED
      BY <1>8, <3>1
  <2>2. ASSUME NEW l \in Runs, l \notin up PROVE cert[l] = 0
    BY <1>1, <2>2
  <2> QED
    BY <2>1, <2>2
<1>10. cert \in [Runs -> Nat]
  <2>1. \A l \in Runs : cert[l] \in Nat
    BY <1>7, <1>9
  <2>2. cert = [l \in Runs |-> cert[l]]
    BY <1>1
  <2> QED
    BY <2>1, <2>2
<1>11. LanOK
  <2>1. addr \in [Host -> Addr]
    BY DEF DiscoveryInit
  <2>2. \A l \in Runs : cert[l] # 0 => cert[l] \in 1 .. Len(issued) /\ issued[cert[l]] = l
    BY <1>7, <1>9
  <2> QED
    BY <1>7, <1>10, <2>1, <2>2 DEF LanOK, Issued
<1>12. BrowseOK /\ ScanOK
  BY NothingIsKnown, NoScanIsKnown DEF DiscoveryInit, BrowseOK, ScanOK
<1>13. MatchOK /\ OnePeer
  BY DEF DiscoveryInit, MatchOK, OnePeer
<1> QED
  BY <1>11, <1>12, <1>13 DEF DInv

LEMMA CallStarts ==
  ASSUME Init
  PROVE  SInv
<1>1. /\ file = "" /\ hops = <<>> /\ result = "running"
      /\ \/ step = "match" /\ p = [file |-> FALSE, fp |-> None]
         \/ step = "prepare" /\ p \in [file : BOOLEAN, fp : {None, Target}]
  BY DEF Init
<1>2. Params
  <2>1. [file |-> FALSE, fp |-> None] \in [file : BOOLEAN, fp : {None, Target}]
    OBVIOUS
  <2> QED
    BY <1>1, <2>1, Zenon DEF Params
<1>3. Chosen
  BY <1>1 DEF Chosen
<1>4. Placed
  BY <1>1 DEF Placed
<1>5. Progress
  <2>1. ~[file |-> FALSE, fp |-> None].file
    OBVIOUS
  <2>2. step = "match" => ~p.file
    BY <1>1, <2>1
  <2>3. step \in {"match", "prepare"}
    BY <1>1
  <2> QED
    BY <1>1, <2>2, <2>3 DEF Progress, Before, After
<1>6. OneHopWithItsFile
  <2>1. Len(<<>>) <= 1 /\ \A i : i \notin DOMAIN <<>>
    OBVIOUS
  <2>2. result \notin {"lan", "relay", ""}
    BY <1>1
  <2> QED
    BY <1>1, <2>1, <2>2, Zenon DEF OneHopWithItsFile
<1> QED
  BY <1>2, <1>3, <1>4, <1>5, <1>6 DEF SInv

-----------------------------------------------------------------------------
\* The certificates in service are their listeners'; what probes found and matches name is
\* what a certificate proved, whatever was announced; and the call is as far as its hop,
\* file and result say, a file over the LAN being with one its fingerprint names.
THEOREM InvariantHolds == Spec => []IInv
<1>1. Init => IInv
  BY DiscoveryStarts, CallStarts DEF Init, IInv
<1>2. IInv /\ [Next]_vars => IInv'
  <2> SUFFICES ASSUME DInv, SInv, [Next]_vars PROVE DInv' /\ SInv'
    BY DEF IInv
  <2>0. LanOK
    BY DEF DInv
  <2>1. ASSUME Around, UNCHANGED send PROVE DInv' /\ SInv'
    <3>1. step \in {"browse", "probe"} /\ step' = step
      BY <2>1 DEF Around
    <3> QED
      BY <2>1, <3>1, AroundKeeps, DiscoveryKeepsSend
  <2>2. ASSUME NEW l \in Runs, Hear(l), UNCHANGED send PROVE DInv' /\ SInv'
    <3>1. step = "browse" /\ step' = step
      BY <2>2 DEF Hear, Hears
    <3> QED
      BY <2>2, <3>1, HearKeeps, DiscoveryKeepsSend
  <2>2a. ASSUME NEW q \in Claims, HearClaim(q), UNCHANGED send PROVE DInv' /\ SInv'
    <3>1. step = "browse" /\ step' = step
      BY <2>2a DEF HearClaim, Hears
    <3> QED
      BY <2>2a, <3>1, HearClaimKeeps, DiscoveryKeepsSend
  <2>3. ASSUME MatchLocalDevices, UNCHANGED send PROVE DInv' /\ SInv'
    <3>1. step = "match" /\ step' \in {"done", "browse"} /\ UNCHANGED <<lan, scan, matches>>
      BY <2>3 DEF MatchLocalDevices
    <3>2. Matching
      BY <3>1 DEF SInv, Progress, Matching
    <3>3. DInv'
      BY <2>3, <3>1, OpenWindowKeeps, CallKeepsDiscovery DEF MatchLocalDevices
    <3> QED
      BY <2>3, <3>1, <3>2, <3>3, DiscoveryKeepsSend
  <2>4. ASSUME Matching, Scan, UNCHANGED send PROVE DInv' /\ SInv'
    <3>1. step = "browse" /\ step' = "probe"
      BY <2>4 DEF Scan
    <3> QED
      BY <2>4, <3>1, ScanKeeps, DiscoveryKeepsSend
  <2>5. ASSUME NEW a \in Addr, Probe(a), UNCHANGED send PROVE DInv' /\ SInv'
    <3>1. step = "probe" /\ step' = step
      BY <2>5 DEF Probe
    <3> QED
      BY <2>5, <3>1, ProbeKeeps, DiscoveryKeepsSend
  <2>6. ASSUME Match \/ ScanFails, UNCHANGED send PROVE DInv' /\ SInv'
    <3>1. step = "probe" /\ step' = "done"
      BY <2>6 DEF Match, ScanFails
    <3> QED
      BY <2>6, <3>1, MatchKeeps, ScanFailsKeeps, DiscoveryKeepsSend
  <2>7. ASSUME Prepare PROVE DInv' /\ SInv'
    <3>1. UNCHANGED <<lan, browse, scan, matches>>
      BY <2>7 DEF Prepare, StaysOn
    <3> QED
      BY <2>7, <3>1, CallKeepsDiscovery, PrepareKeeps
  <2>8. ASSUME PushAgentFileLAN PROVE DInv' /\ SInv'
    <3>1. UNCHANGED <<lan, scan, matches>> /\ (OpenWindow \/ UNCHANGED browse)
      BY <2>8 DEF PushAgentFileLAN
    <3> QED
      BY <2>8, <3>1, OpenWindowKeeps, CallKeepsDiscovery, PushAgentFileLANKeeps
  <2>9. ASSUME ~Matching, Select PROVE DInv' /\ SInv'
    BY <2>9, SelectKeeps
  <2>10. ASSUME Push PROVE DInv' /\ SInv'
    <3>1. UNCHANGED <<lan, browse, scan, matches>>
      BY <2>10 DEF Push, StaysOn
    <3> QED
      BY <2>0, <2>10, <3>1, CallKeepsDiscovery, PushKeeps
  <2>11. ASSUME Upload PROVE DInv' /\ SInv'
    <3>1. UNCHANGED <<lan, browse, scan, matches>>
      BY <2>11 DEF Upload, StaysOn
    <3> QED
      BY <2>11, <3>1, CallKeepsDiscovery, UploadKeeps
  <2>12. ASSUME SealAndSign \/ Wait PROVE DInv' /\ SInv'
    <3>1. UNCHANGED <<lan, browse, scan, matches>>
      BY <2>12 DEF SealAndSign, Wait
    <3> QED
      BY <2>12, <3>1, CallKeepsDiscovery, SealOrWaitKeeps
  <2>13. ASSUME AgentInject PROVE DInv' /\ SInv'
    <3>1. UNCHANGED <<lan, browse, scan, matches>>
      BY <2>13 DEF AgentInject
    <3> QED
      BY <2>13, <3>1, CallKeepsDiscovery, AgentInjectKeeps
  <2>14. CASE UNCHANGED vars
    <3>1. UNCHANGED <<lan, browse, scan, matches>>
      BY <2>14 DEF vars, discovery
    <3>2. UNCHANGED step /\ UNCHANGED <<p, file, staged, relayed, hops, dest, pinned, result, issued>>
      BY <2>14 DEF vars, discovery, send, lan
    <3>3. SInv'
      <4>1. Chosen'
        BY <3>2, Zenon DEF SInv, Chosen, Matching
      <4>2. Params' /\ Placed' /\ Progress'
        BY <3>2, Zenon DEF SInv, Params, Placed, Progress, Names
      <4>3. OneHopWithItsFile'
        BY <3>2, Zenon DEF SInv, OneHopWithItsFile, Names
      <4> QED
        BY <4>1, <4>2, <4>3 DEF SInv
    <3> QED
      BY <3>1, <3>3, CallKeepsDiscovery
  <2> QED
    BY <2>1, <2>2, <2>2a, <2>3, <2>4, <2>5, <2>6, <2>7, <2>8, <2>9, <2>10, <2>11, <2>12, <2>13,
       <2>14
    DEF Next, DiscoveryNext
<1> QED
  BY <1>1, <1>2, PTL DEF Spec

\* For every network, every set of false adverts and every bound on attempts and waiting:
\* a call queues at most one hop, queues it when it reports success, and the hop names a
\* place where the file is.  When that is the LAN, a listener which the fingerprint of the
\* chosen advert names has it; that this is the target is for the advert to be true.
THEOREM HopsNameTheirFile == Spec => []OneHopWithItsFile
<1>1. IInv => OneHopWithItsFile
  BY DEF IInv, SInv
<1> QED
  BY <1>1, InvariantHolds, PTL

-----------------------------------------------------------------------------
(* Where every advert is a listener's own.                                 *)

\* What an entry says of its sender was true of the listener the certificate in it was
\* issued to, although the address may be another device's by now.
Honest(q) ==
  /\ Issued(q.fp)
  /\ issued[q.fp][2] = q.role /\ q.port = q.role
  /\ q.id # None => q.id = issued[q.fp][1]

AtTarget == <<Target, "agent">> \in staged

TrueSoFar ==
  /\ \A q \in browse.seen : Honest(q)
  /\ step = "push" => Honest(dest)
  /\ file = "lan" => AtTarget
  /\ LanFileIsAtTarget

LEMMA StaysHonest ==
  ASSUME Grows, NEW q, Honest(q)
  PROVE  Honest(q)'
<1>1. Issued(q.fp)' /\ issued'[q.fp] = issued[q.fp]
  BY DEF Grows, Issued, Honest
<1> QED
  BY <1>1, Zenon DEF Honest

LEMMA EntryIsHonest ==
  ASSUME LanOK, NEW l \in Runs, cert[l] # 0
  PROVE  Honest(Entry(l))
<1>1. Issued(cert[l]) /\ issued[cert[l]] = l
  BY DEF LanOK
<1>2. Entry(l).id \in {None, l[1]} /\ Entry(l).fp = cert[l]
      /\ Entry(l).role = l[2] /\ Entry(l).port = l[2]
  BY DEF Entry, Id
<1> QED
  BY <1>1, <1>2, Zenon DEF Honest

\* Who answers with the certificate of a true advert of the target's agent-file receiver
\* is that receiver, whatever address it was announced at.
LEMMA OnlyTheTargetIsTrusted ==
  ASSUME LanOK, dest \in Entries, Honest(dest), dest.role = "agent", dest.id = Target,
         NEW l \in Answering, Trusted(cert[l], dest.fp)
  PROVE  l = <<Target, "agent">>
<1>1. l \in Runs /\ l[2] = "agent" /\ cert[l] # 0
  BY DEF Answering, Honest
<1>2. Issued(cert[l]) /\ issued[cert[l]] = l
  BY <1>1 DEF LanOK
<1>3. l \in Host \X Role
  BY <1>1, DiscoveryAssumption
<1>4. dest.fp \in Nat
  BY DEF Honest, Issued, LanOK
<1>5. cert[l] = dest.fp
  <2>1. dest.fp # None
    BY <1>4, DiscoveryAssumption
  <2>2. SUFFICES ASSUME Identity(cert[l]) # None, Identity(cert[l]) = dest.fp PROVE FALSE
    BY <2>1, Zenon DEF Trusted
  <2>3. Identity(cert[l]) \in Host
    BY <1>2, <1>3, <2>2 DEF Identity, Id
  <2> QED
    BY <1>4, <2>2, <2>3, DiscoveryAssumption
<1>6. dest.id = issued[dest.fp][1]
  BY TargetIsAHost DEF Honest
<1>7. l[1] = Target
  BY <1>2, <1>5, <1>6
<1> QED
  BY <1>1, <1>3, <1>7

\* A step that announces nothing new, chooses nothing and moves no file.
LEMMA TrueKept ==
  ASSUME TrueSoFar, Grows, browse' = browse \/ browse'.seen = {},
         step' # "push" \/ UNCHANGED <<step, dest>>,
         file' = file \/ file' # "lan", staged \subseteq staged', hops' = hops
  PROVE  TrueSoFar'
<1>1. \A q \in browse'.seen : Honest(q)'
  BY StaysHonest DEF TrueSoFar
<1>2. step' = "push" => Honest(dest)'
  BY StaysHonest DEF TrueSoFar
<1>3. (file' = "lan" => AtTarget') /\ LanFileIsAtTarget'
  BY DEF TrueSoFar, AtTarget, LanFileIsAtTarget
<1> QED
  BY <1>1, <1>2, <1>3, Zenon DEF TrueSoFar

LEMMA HearIsTrue ==
  ASSUME IInv, TrueSoFar, NEW l \in Runs, Hear(l), UNCHANGED send
  PROVE  TrueSoFar'
<1>1. LanOK /\ cert[l] # 0
  BY DEF IInv, DInv, Hear, Announced
<1> DEFINE e == Entry(l)
<1>2. /\ UNCHANGED <<issued, step, dest, file, staged, hops>>
      /\ browse' = [browse EXCEPT !.seen = {r \in @ : ~SameKey(e, r)} \cup {e}]
  BY DEF Hear, Hears, send, lan
<1>3. Grows
  BY <1>2, SameGrows
<1>4. Honest(e)
  BY <1>1, EntryIsHonest
<1> HIDE DEF e
<1>5. \A q \in browse'.seen : q \in browse.seen \/ q = e
  BY <1>2 DEF IInv, DInv, BrowseOK
<1>6. \A q \in browse'.seen : Honest(q)'
  BY <1>3, <1>4, <1>5, StaysHonest DEF TrueSoFar
<1>7. step' = "push" => Honest(dest)'
  BY <1>2, <1>3, StaysHonest DEF TrueSoFar
<1>8. (file' = "lan" => AtTarget') /\ LanFileIsAtTarget'
  BY <1>2 DEF TrueSoFar, AtTarget, LanFileIsAtTarget
<1> QED
  BY <1>6, <1>7, <1>8, Zenon DEF TrueSoFar

LEMMA SelectIsTrue ==
  ASSUME TrueSoFar, Select
  PROVE  TrueSoFar'
<1>1. /\ UNCHANGED <<issued, file, staged, hops>> /\ browse'.seen = {}
      /\ step' = "push" => dest' \in browse.seen
  BY NothingIsKnown DEF Select, Go, selectAgentFilePeer, lan
<1>2. Grows
  BY <1>1, SameGrows
<1>3. step' = "push" => Honest(dest)'
  <2>1. SUFFICES ASSUME dest' \in browse.seen PROVE Honest(dest)'
    BY <1>1
  <2>2. Honest(dest')
    BY <2>1 DEF TrueSoFar
  <2> QED
    BY <1>1, <2>2, Zenon DEF Honest, Issued
<1>4. (file' = "lan" => AtTarget') /\ LanFileIsAtTarget'
  BY <1>1 DEF TrueSoFar, AtTarget, LanFileIsAtTarget
<1> QED
  BY <1>1, <1>3, <1>4, Zenon DEF TrueSoFar

LEMMA PushIsTrue ==
  ASSUME IInv, TrueSoFar, Push
  PROVE  TrueSoFar'
<1>1. /\ UNCHANGED <<issued, browse, hops>> /\ staged \subseteq staged'
      /\ step = "push" /\ step' # "push"
  BY DEF Push, StaysOn, lan, Go
<1>2. file' = "lan" => AtTarget'
  <2>1. CASE \E l \in Answering : Trusted(cert[l], dest.fp) /\ staged' = staged \cup {l}
    <3>1. PICK l \in Answering : Trusted(cert[l], dest.fp) /\ staged' = staged \cup {l}
      BY <2>1
    <3>2. l = <<Target, "agent">>
      BY <1>1, <3>1, OnlyTheTargetIsTrusted DEF IInv, DInv, SInv, Chosen, TrueSoFar
    <3> QED
      BY <3>1, <3>2 DEF AtTarget
  <2>2. CASE UNCHANGED <<staged, file>>
    BY <2>2 DEF TrueSoFar, AtTarget
  <2> QED
    BY <2>1, <2>2 DEF Push
<1>3. Grows
  BY <1>1, SameGrows
<1>4. \A q \in browse'.seen : Honest(q)'
  BY <1>1, <1>3, StaysHonest DEF TrueSoFar
<1>5. LanFileIsAtTarget'
  BY <1>1 DEF TrueSoFar, LanFileIsAtTarget
<1> QED
  BY <1>1, <1>2, <1>4, <1>5, Zenon DEF TrueSoFar

LEMMA InjectIsTrue ==
  ASSUME IInv, TrueSoFar, AgentInject
  PROVE  TrueSoFar'
<1>1. UNCHANGED <<issued, browse, file, staged>> /\ step = "inject" /\ step' # "push"
  BY DEF AgentInject, lan, Go, Return
<1>2. hops = <<>>
  BY <1>1 DEF IInv, SInv, Progress, After
<1>3. hops' = Append(hops, Hop) \/ hops' = hops
  BY DEF AgentInject
<1>4. LanFileIsAtTarget'
  <2>1. SUFFICES ASSUME NEW i \in DOMAIN hops', hops'[i].lanFile PROVE AtTarget'
    BY DEF LanFileIsAtTarget, AtTarget
  <2>2. hops'[i] = Hop
    <3>1. DOMAIN hops = {} /\ \A h : DOMAIN Append(<<>>, h) = {1} /\ Append(<<>>, h)[1] = h
      BY <1>2
    <3> QED
      BY <1>2, <1>3, <2>1, <3>1
  <2>3. Hop.lanFile = (file = "lan")
    BY DEF Hop
  <2>4. file = "lan"
    BY <2>1, <2>2, <2>3, Zenon
  <2> QED
    BY <1>1, <2>4 DEF TrueSoFar, AtTarget
<1>5. Grows
  BY <1>1, SameGrows
<1>6. \A q \in browse'.seen : Honest(q)'
  BY <1>1, <1>5, StaysHonest DEF TrueSoFar
<1>7. file' = "lan" => AtTarget'
  BY <1>1 DEF TrueSoFar, AtTarget
<1> QED
  BY <1>1, <1>4, <1>6, <1>7, Zenon DEF TrueSoFar

\* As long as every advert is a listener's own, however stale, a hop that says that its
\* file comes over the LAN is one whose file the target's own agent-file receiver took:
\* for any devices, moves, restarts and lost answers.  (pushAgentFileLAN.)
THEOREM TrueAdvertsReachTheTarget ==
  ASSUME Claims = {}
  PROVE  Spec => []LanFileIsAtTarget
<1>1. Init => TrueSoFar
  <2> SUFFICES ASSUME Init PROVE TrueSoFar
    OBVIOUS
  <2>1. browse.seen = {}
    BY NothingIsKnown DEF Init, DiscoveryInit
  <2>2. step # "push" /\ file # "lan" /\ hops = <<>>
    BY DEF Init
  <2>3. DOMAIN hops = {}
    BY <2>2
  <2> QED
    BY <2>1, <2>2, <2>3 DEF TrueSoFar, LanFileIsAtTarget
<1>2. IInv /\ TrueSoFar /\ [Next]_vars => TrueSoFar'
  <2> SUFFICES ASSUME IInv, TrueSoFar, [Next]_vars PROVE TrueSoFar'
    OBVIOUS
  <2>1. CASE Around /\ UNCHANGED send
    BY <2>1, AroundKeeps, TrueKept DEF IInv, Around, send
  <2>2. CASE (\E l \in Runs : Hear(l)) /\ UNCHANGED send
    BY <2>2, HearIsTrue
  <2>3. CASE \/ MatchLocalDevices /\ UNCHANGED send
             \/ Scan /\ UNCHANGED send
             \/ (\E a \in Addr : Probe(a)) /\ UNCHANGED send
             \/ (Match \/ ScanFails) /\ UNCHANGED send
             \/ PushAgentFileLAN
    <3>1. OpenWindow => browse'.seen = {}
      BY DEF OpenWindow
    <3>2. Forget => browse'.seen = {}
      BY NothingIsKnown DEF Forget
    <3>3. UNCHANGED <<issued, file, staged, hops>> /\ step' # "push"
      BY <2>3 DEF MatchLocalDevices, Scan, Probe, Match, ScanFails, PushAgentFileLAN, Go, send, lan
    <3>4. browse' = browse \/ browse'.seen = {}
      BY <2>3, <3>1, <3>2
      DEF MatchLocalDevices, Scan, Probe, Match, ScanFails, PushAgentFileLAN, Go
    <3> QED
      BY <3>3, <3>4, SameGrows, TrueKept
  <2>4. CASE Prepare \/ Upload \/ SealAndSign \/ Wait
    <3>1. UNCHANGED <<issued, browse, staged, hops>> /\ step' # "push"
          /\ (file' = file \/ file' # "lan")
      BY <2>4 DEF Prepare, Upload, SealAndSign, Wait, StaysOn, Go, Return, lan
    <3> QED
      BY <3>1, SameGrows, TrueKept
  <2>5. CASE Select
    BY <2>5, SelectIsTrue
  <2>6. CASE Push
    BY <2>6, PushIsTrue
  <2>7. CASE AgentInject
    BY <2>7, InjectIsTrue
  <2>8. CASE UNCHANGED vars
    BY <2>8, SameGrows, TrueKept DEF vars, discovery, lan, send
  <2> QED
    BY <2>1, <2>2, <2>3, <2>4, <2>5, <2>6, <2>7, <2>8 DEF Next, DiscoveryNext
<1>3. TrueSoFar => LanFileIsAtTarget
  BY DEF TrueSoFar
<1> QED
  BY <1>1, <1>2, <1>3, InvariantHolds, PTL DEF Spec

-----------------------------------------------------------------------------
\* Whatever devices do while they are looked for: who is matched has proved the identity
\* the session names, no session is matched twice and no device to two sessions.
THEOREM MatchesAreVerified == Spec => []MatchIsVerified
<1>1. IInv => MatchIsVerified
  <2> SUFFICES ASSUME MatchOK, OnePeer, LanOK PROVE MatchIsVerified
    BY DEF IInv, DInv
  <2>1. ASSUME NEW m \in matches
        PROVE  \E i \in Wanted : /\ m[1] = Sessions[i][1]
                                 /\ m[2].id = Sessions[i][2]
                                 /\ issued[m[2].fp][1] = Sessions[i][2]
    <3>1. PICK i \in Wanted : m[1] = Sessions[i][1] /\ Proved(m[2]) /\ m[2].id = Sessions[i][2]
      BY Zenon DEF MatchOK
    <3>2. Sessions[i][2] # None
      BY DEF Wanted
    <3>3. issued[m[2].fp][1] = Sessions[i][2]
      BY <3>1, <3>2 DEF Proved, Identity, Id
    <3> QED
      BY <3>1, <3>3
  <2>2. ASSUME NEW i \in Wanted, NEW j \in Wanted, Sessions[i][2] = Sessions[j][2]
        PROVE  i = j
    <3>1. i \in Nat /\ j \in Nat /\ i \in DOMAIN Sessions /\ j \in DOMAIN Sessions /\ i >= 1 /\ j >= 1
      BY SessionAssumption DEF Wanted
    <3>2. /\ \A k \in 1 .. i - 1 : Sessions[k][2] # Sessions[i][2]
          /\ \A k \in 1 .. j - 1 : Sessions[k][2] # Sessions[j][2]
      BY DEF Wanted
    <3>3. ~(i < j) /\ ~(j < i)
      BY <2>2, <3>1, <3>2
    <3> QED
      BY <3>1, <3>3
  <2>3. ASSUME NEW m \in matches, NEW n \in matches, m # n
        PROVE  m[1] # n[1] /\ issued[m[2].fp][1] # issued[n[2].fp][1]
    <3>1. m[1] # n[1]
      BY <2>3, Zenon DEF OnePeer
    <3>2. PICK i \in Wanted : m[1] = Sessions[i][1] /\ issued[m[2].fp][1] = Sessions[i][2]
      BY <2>1
    <3>3. PICK j \in Wanted : n[1] = Sessions[j][1] /\ issued[n[2].fp][1] = Sessions[j][2]
      BY <2>1
    <3> QED
      BY <2>2, <3>1, <3>2, <3>3
  <2>4. ASSUME NEW m \in matches
        PROVE  \E i \in DOMAIN Sessions :
                 Sessions[i] = <<m[1], issued[m[2].fp][1]>> /\ m[2].id = Sessions[i][2]
    <3>1. PICK i \in Wanted : /\ m[1] = Sessions[i][1]
                              /\ m[2].id = Sessions[i][2]
                              /\ issued[m[2].fp][1] = Sessions[i][2]
      BY <2>1
    <3>2. i \in DOMAIN Sessions
      BY DEF Wanted
    <3>3. Sessions[i] = <<Sessions[i][1], Sessions[i][2]>>
      BY <3>2, SessionAssumption
    <3>4. Sessions[i] = <<m[1], issued[m[2].fp][1]>>
      BY <3>1, <3>3, Zenon
    <3> QED
      BY <3>1, <3>2, <3>4
  <2> QED
    BY <2>3, <2>4, Zenon DEF MatchIsVerified
<1> QED
  BY <1>1, InvariantHolds, PTL

-----------------------------------------------------------------------------
\* The count of our fingerprint is the number of adverts that have counted it and not
\* given the count back.
Counted == {a \in Advert : advert[a] \in {"open", "withdrawn"}}

CountOK ==
  /\ advert \in [Advert -> {"closed", "published", "open", "withdrawn"}]
  /\ selfFingerprints = Cardinality(Counted)

LEMMA CountedIsFinite ==
  ASSUME CountOK
  PROVE  IsFiniteSet(Counted) /\ Cardinality(Counted) \in Nat
<1>1. Counted \in SUBSET Advert
  BY DEF Counted
<1> QED
  BY <1>1, DiscoveryAssumption, FS_Subset, FS_CardinalityType

LEMMA CountStays ==
  ASSUME CountOK, NEW a \in Advert, NEW from, NEW to,
         from \in {"closed", "published", "open", "withdrawn"},
         to \in {"closed", "published", "open", "withdrawn"},
         (from \in {"open", "withdrawn"}) = (to \in {"open", "withdrawn"}),
         Own(a, from, to, selfFingerprints)
  PROVE  CountOK'
<1>1. advert[a] = from /\ advert' = [advert EXCEPT ![a] = to] /\ selfFingerprints' = selfFingerprints
  BY DEF Own
<1>2. advert' \in [Advert -> {"closed", "published", "open", "withdrawn"}]
  BY <1>1 DEF CountOK
<1>3. Counted' = Counted
  BY <1>1 DEF CountOK, Counted
<1> QED
  BY <1>1, <1>2, <1>3 DEF CountOK

LEMMA OwnKeepsCount ==
  ASSUME CountOK, NEW a \in Advert,
         Advertise(a) \/ RegisterSelf(a) \/ Shutdown(a) \/ Release(a)
  PROVE  CountOK'
<1>1. CASE Advertise(a)
  BY <1>1, CountStays DEF Advertise
<1>2. CASE RegisterSelf(a)
  <2>1. /\ advert[a] = "published" /\ advert' = [advert EXCEPT ![a] = "open"]
        /\ selfFingerprints' = selfFingerprints + 1
    BY <1>2 DEF RegisterSelf, Own
  <2>2. advert' \in [Advert -> {"closed", "published", "open", "withdrawn"}]
    BY <2>1 DEF CountOK
  <2>3. Counted' = Counted \cup {a} /\ a \notin Counted
    BY <2>1 DEF CountOK, Counted
  <2>4. Cardinality(Counted') = Cardinality(Counted) + 1
    BY <2>3, CountedIsFinite, FS_AddElement
  <2> QED
    BY <2>1, <2>2, <2>4 DEF CountOK
<1>3. CASE Shutdown(a)
  BY <1>3, CountStays DEF Shutdown
<1>4. CASE Release(a)
  <2>1. /\ advert[a] = "withdrawn" /\ advert' = [advert EXCEPT ![a] = "closed"]
        /\ selfFingerprints' = IF selfFingerprints <= 1 THEN 0 ELSE selfFingerprints - 1
    BY <1>4 DEF Release, Own
  <2>2. advert' \in [Advert -> {"closed", "published", "open", "withdrawn"}]
    BY <2>1 DEF CountOK
  <2>3. Counted' = Counted \ {a} /\ a \in Counted
    BY <2>1 DEF CountOK, Counted
  <2>4. Cardinality(Counted') = Cardinality(Counted) - 1 /\ Cardinality(Counted) \in Nat
    BY <2>3, CountedIsFinite, FS_RemoveElement
  <2>5. Cardinality(Counted') \in Nat
    BY <2>3, CountedIsFinite, FS_RemoveElement, FS_CardinalityType
  <2>6. selfFingerprints' = Cardinality(Counted')
    BY <2>1, <2>4, <2>5 DEF CountOK
  <2> QED
    BY <2>2, <2>6 DEF CountOK
<1> QED
  BY <1>1, <1>2, <1>3, <1>4

LEMMA AroundKeepsCount ==
  ASSUME CountOK, Around
  PROVE  CountOK'
<1>1. CASE \E l \in Runs : Start(l) \/ Stop(l)
  <2>1. UNCHANGED <<advert, selfFingerprints>>
    BY <1>1 DEF Start, Stop
  <2> QED
    BY <2>1 DEF CountOK, Counted
<1>2. CASE \E h \in Host : Move(h)
  <2>1. UNCHANGED <<advert, selfFingerprints>>
    BY <1>2 DEF Move
  <2> QED
    BY <2>1 DEF CountOK, Counted
<1>3. CASE \E a \in Advert : Advertise(a) \/ RegisterSelf(a) \/ Shutdown(a) \/ Release(a)
  BY <1>3, OwnKeepsCount
<1> QED
  BY <1>1, <1>2, <1>3 DEF Around

LEMMA OpenIsSelf ==
  ASSUME CountOK, NEW a \in Advert, advert[a] = "open"
  PROVE  isSelfFingerprint(cert[Mine])
<1>1. a \in Counted
  BY DEF Counted
<1>2. Cardinality(Counted) # 0
  BY <1>1, CountedIsFinite, FS_EmptySet
<1>3. selfFingerprints > 0
  BY <1>2, CountedIsFinite DEF CountOK
<1> QED
  BY <1>3 DEF isSelfFingerprint

NewPeers == (browse'.seen \ browse.seen) \cup (scan'.found \ scan.found)

LEMMA NewPeersAreOthers ==
  ASSUME BrowseOK, ScanOK, Next, NEW q \in NewPeers
  PROVE  ~isSelfFingerprint(q.fp)
<1>1. CASE \E e : Hears(e)
  <2>1. PICK e : Hears(e)
    BY <1>1
  <2>2. /\ ~isSelfFingerprint(e.fp) /\ scan' = scan
        /\ browse' = [browse EXCEPT !.seen = {r \in @ : ~SameKey(e, r)} \cup {e}]
    BY <2>1 DEF Hears
  <2>3. browse'.seen = {r \in browse.seen : ~SameKey(e, r)} \cup {e}
    BY <2>2 DEF BrowseOK
  <2>4. q = e
    BY <2>2, <2>3 DEF NewPeers
  <2> QED
    BY <2>2, <2>4
<1>2. CASE \E a \in Addr : Probe(a)
  <2>1. PICK a \in Addr : Probe(a)
    BY <1>2
  <2>2. PICK timely \in BOOLEAN :
          scan' = [scan EXCEPT !.todo = @ \ {a},
                               !.found = @ \cup {r \in probeReceiver(a) : timely /\ ~isSelfFingerprint(r.fp)}]
    BY <2>1 DEF Probe
  <2> DEFINE new == {r \in probeReceiver(a) : timely /\ ~isSelfFingerprint(r.fp)}
  <2>3. q \in new => ~isSelfFingerprint(q.fp)
    OBVIOUS
  <2>4. scan' = [scan EXCEPT !.todo = @ \ {a}, !.found = @ \cup new]
    BY <2>2
  <2>5. browse' = browse
    BY <2>1 DEF Probe
  <2> HIDE DEF new
  <2>6. scan'.found = scan.found \cup new
    BY <2>4 DEF ScanOK
  <2>7. q \in new
    BY <2>5, <2>6 DEF NewPeers
  <2> QED
    BY <2>3, <2>7
<1>3. CASE browse' = browse \/ browse'.seen = {}
  <2>1. CASE scan' = scan \/ scan'.found = {}
    BY <1>3, <2>1 DEF NewPeers
  <2>2. CASE \E a \in Addr : Probe(a)
    BY <1>2, <2>2
  <2>3. (scan' = scan \/ scan'.found = {}) \/ \E a \in Addr : Probe(a)
    <3>1. Scan => scan'.found = {}
      BY DEF Scan
    <3>2. NoScan.found = {}
      BY NoScanIsKnown
    <3> QED
      BY <3>1, <3>2 DEF Next, DiscoveryNext, Around, Hear, HearClaim, Hears, MatchLocalDevices, Match, ScanFails,
         Forget, Prepare, PushAgentFileLAN, Select, Push, Upload, SealAndSign, AgentInject, Wait,
         StaysOn
  <2> QED
    BY <2>1, <2>2, <2>3
<1>4. (browse' = browse \/ browse'.seen = {}) \/ \E e : Hears(e)
  <2>1. OpenWindow => browse'.seen = {}
    BY DEF OpenWindow
  <2>2. Nothing.seen = {}
    BY NothingIsKnown
  <2> QED
    BY <2>1, <2>2 DEF Next, DiscoveryNext, Around, Hear, HearClaim, MatchLocalDevices, Scan, Probe, Match, ScanFails,
       Forget, Prepare, PushAgentFileLAN, Select, Push, Upload, SealAndSign, AgentInject, Wait,
       StaysOn
<1> QED
  BY <1>1, <1>3, <1>4

\* While an advert of this process is open it does not discover itself: however many
\* adverts share the fingerprint, in whatever order they are opened and closed.
THEOREM OneselfIsNotDiscovered == Spec => NeverSelf
<1>1. Init => CountOK
  <2> SUFFICES ASSUME DiscoveryInit PROVE CountOK
    BY DEF Init
  <2>1. advert \in [Advert -> {"closed", "open"}]
        /\ selfFingerprints = Cardinality({a \in Advert : advert[a] = "open"})
    BY DEF DiscoveryInit
  <2>2. Counted = {a \in Advert : advert[a] = "open"}
    BY <2>1 DEF Counted
  <2> QED
    BY <2>1, <2>2 DEF CountOK
<1>2. CountOK /\ [Next]_vars => CountOK'
  <2> SUFFICES ASSUME CountOK, [Next]_vars PROVE CountOK'
    OBVIOUS
  <2>1. CASE Around
    BY <2>1, AroundKeepsCount
  <2>2. CASE UNCHANGED <<advert, selfFingerprints>>
    BY <2>2 DEF CountOK, Counted
  <2>3. Around \/ UNCHANGED <<advert, selfFingerprints>>
    BY DEF Next, DiscoveryNext, Hear, HearClaim, MatchLocalDevices, Scan, Probe, Match, ScanFails,
           Prepare, PushAgentFileLAN, Select, Push, Upload, SealAndSign, AgentInject, Wait, StaysOn,
           vars, discovery, lan
  <2> QED
    BY <2>1, <2>2, <2>3
<1>3. CountOK /\ IInv /\ [Next]_vars =>
        [(\E a \in Advert : advert[a] = "open") =>
           \A q \in (browse'.seen \ browse.seen) \cup (scan'.found \ scan.found) :
             q.fp # cert[Mine]]_vars
  <2> SUFFICES ASSUME CountOK, IInv, Next, NEW a \in Advert, advert[a] = "open",
                      NEW q \in (browse'.seen \ browse.seen) \cup (scan'.found \ scan.found)
               PROVE  q.fp # cert[Mine]
    OBVIOUS
  <2>1. isSelfFingerprint(cert[Mine])
    BY OpenIsSelf
  <2>2. BrowseOK /\ ScanOK
    BY DEF IInv, DInv
  <2>3. q \in NewPeers
    BY DEF NewPeers
  <2>4. ~isSelfFingerprint(q.fp)
    BY <2>2, <2>3, NewPeersAreOthers
  <2> QED
    BY <2>1, <2>4
<1> QED
  BY <1>1, <1>2, <1>3, InvariantHolds, PTL DEF Spec, NeverSelf

-----------------------------------------------------------------------------
\* How long the call waits is what the last answer asked for, if a Duration holds it, up
\* to the longest wait.
WaitOK ==
  step = "wait" /\ call.asked # Silent /\ Representable(call.asked)
    => call.slept >= MaxWait \/ call.slept >= call.asked * Second

LEMMA RetryWaitHonours ==
  ASSUME NEW seconds \in Asks, seconds # Silent, Representable(seconds), NEW attempt
  PROVE  \/ retryWait(seconds, attempt) >= MaxWait
         \/ retryWait(seconds, attempt) >= seconds * Second
<1>1. seconds \in Nat /\ Second \in Nat /\ MaxWait \in Nat
  BY ApiAssumption
<1>2. seconds * Second \in Nat
  BY <1>1
<1>3. parseRetryAfter(seconds) = seconds * Second
  BY Zenon DEF parseRetryAfter, Representable
<1> DEFINE asked == seconds * Second
<1>4. retryWait(seconds, attempt) = capRateLimitWait(asked)
  BY <1>3 DEF retryWait
<1> HIDE DEF asked
<1>5. asked \in Nat => capRateLimitWait(asked) >= MaxWait \/ capRateLimitWait(asked) >= asked
  BY <1>1 DEF capRateLimitWait
<1> QED
  BY <1>2, <1>4, <1>5 DEF asked

LEMMA InjectKeepsWait ==
  ASSUME AgentInject
  PROVE  WaitOK'
<1>1. SUFFICES ASSUME step' = "wait", call'.asked # Silent, Representable(call'.asked)
               PROVE  call'.slept >= MaxWait \/ call'.slept >= call'.asked * Second
  BY Zenon DEF WaitOK, Representable, Wrapped
<1>2. PICK seconds \in Asks : Retry(seconds)
  BY <1>1 DEF AgentInject, Go, Return
<1>3. call'.asked = seconds /\ call'.slept = retryWait(seconds, call.attempt)
  BY <1>2 DEF Retry
<1>4. seconds # Silent /\ Representable(seconds)
  BY <1>1, <1>3, Zenon
<1> QED
  BY <1>3, <1>4, RetryWaitHonours, Zenon

\* For every bound and every width of a Duration: a request is not sent again before the
\* time the server asked for, or the longest wait, has passed.
THEOREM RetryAfterIsHonoured == Spec => HonoursRetryAfter
<1>1. Init => WaitOK
  BY DEF Init, WaitOK
<1>2. WaitOK /\ [Next]_vars => WaitOK'
  <2> SUFFICES ASSUME WaitOK, [Next]_vars PROVE WaitOK'
    OBVIOUS
  <2>1. CASE AgentInject
    BY <2>1, InjectKeepsWait
  <2>2. CASE UNCHANGED <<step, call>>
    BY <2>2, Zenon DEF WaitOK, Representable, Wrapped
  <2>3. CASE step' # "wait"
    BY <2>3 DEF WaitOK
  <2>4. AgentInject \/ UNCHANGED <<step, call>> \/ step' # "wait"
    BY DEF Next, DiscoveryNext, Around, Hear, HearClaim, Hears, MatchLocalDevices, Scan, Probe, Match, ScanFails,
           Prepare, PushAgentFileLAN, Select, Push, Upload, SealAndSign, Wait, Go, Return,
           vars, discovery
  <2> QED
    BY <2>1, <2>2, <2>3, <2>4
<1>3. WaitOK =>
        [step = "wait" /\ step' = "inject" /\ call.asked # Silent /\ Representable(call.asked)
           => call.slept >= MaxWait \/ call.slept >= call.asked * Second]_vars
  BY Zenon DEF WaitOK
<1> QED
  BY <1>1, <1>2, <1>3, PTL DEF Spec, HonoursRetryAfter
=============================================================================
