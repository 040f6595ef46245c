----------------------------- MODULE Discovery -----------------------------
(***************************************************************************)
(* How this machine finds other devices: what they announce over mDNS      *)
(* (lanshare/mdns.go), the exclusion of its own adverts (lanshare/self.go),*)
(* probing addresses for the certificate and the device card               *)
(* (lanshare/scan.go, devicecard.go), and the routing decision made of the *)
(* two (lanroute.go).                                                      *)
(*                                                                         *)
(* Receivers come and go and devices change address meanwhile.  A receiver *)
(* has a new certificate each time it starts; a card in it names the       *)
(* device for good.  An advert is heard any number of times or never; what *)
(* was heard may be stale when it is used.  And nothing checks an advert:  *)
(* what is announced may never have been true.                             *)
(***************************************************************************)
EXTENDS Naturals, Sequences, FiniteSets, SequencesExt

CONSTANTS
  Me,          \* this machine, whose receiver is <<Me, "files">>
  Runs,        \* the listeners <<device, role>> there may be
  Carded,      \* devices with an identity, of a build that has device cards
  Addr,
  Advert,      \* the adverts this process may have for its receiver
  Claims,      \* adverts that no listener there is need answer for
  Tailnet,     \* devices the tailscale CLI lists as online
  Sessions,    \* what MatchLocalDevices is asked for: <<session, fingerprint>>
  None,        \* the empty fingerprint
  MaxChanges   \* a bound on the changes around a call

Host == {l[1] : l \in Runs}
Role == {"files", "agent", "offer"}
Mine == <<Me, "files">>

(* An advert: an address, the listener at the port, the kind of instance,  *)
(* a fingerprint (of a certificate, of an identity, or none), an identity. *)
Entries == [host : Addr, port : Role, role : Role,
            fp : Nat \cup Host \cup {None}, id : Host \cup {None}]

ASSUME DiscoveryAssumption ==
  /\ Runs \subseteq Host \X Role /\ IsFiniteSet(Runs)
  /\ Mine \in Runs /\ None \notin Host \cup Nat
  /\ Host \cap Nat = {} \* no identity is a fingerprint of a certificate
  /\ Carded \subseteq Host /\ Tailnet \subseteq Host /\ Claims \subseteq Entries
  /\ IsFiniteSet(Advert)

(* Sessions have names of their own.                                       *)
ASSUME SessionAssumption ==
  /\ DOMAIN Sessions = 1 .. Len(Sessions) /\ Len(Sessions) \in Nat
  /\ \A i \in DOMAIN Sessions : Sessions[i] = <<Sessions[i][1], Sessions[i][2]>>
  /\ \A i, j \in DOMAIN Sessions : Sessions[i][1] = Sessions[j][1] => i = j

VARIABLES
  addr,             \* addr[h]: the address of host h
  cert,             \* cert[l]: the certificate listener l serves, 0 when it is not there
  issued,           \* issued[c]: the listener certificate c was made for
  advert,           \* advert[a]: how far our own advert a is
  selfFingerprints, \* how many adverts registerSelf counts
  changes,
  browse,           \* the window: our addresses as read when it opened, the peers seen
  scan,             \* the probes still out and the peers found
  matches,          \* what MatchLocalDevices returns
  step              \* where the call is

lan == <<addr, cert, issued, advert, selfFingerprints, changes>>
discovery == <<lan, browse, scan, matches, step>>

Id(h) == IF h \in Carded THEN h ELSE None

(* Cards: the identity a certificate proves, if it has a card.             *)
Identity(c) == Id(issued[c][1])

-----------------------------------------------------------------------------
(* What happens around a call.                                             *)

Change == changes < MaxChanges /\ changes' = changes + 1

Start(l) ==
  /\ Change /\ l # Mine /\ cert[l] = 0
  /\ cert' = [cert EXCEPT ![l] = Len(issued) + 1]
  /\ issued' = Append(issued, l)
  /\ UNCHANGED <<addr, advert, selfFingerprints>>

Stop(l) ==
  /\ Change /\ l # Mine /\ cert[l] # 0
  /\ cert' = [cert EXCEPT ![l] = 0]
  /\ UNCHANGED <<addr, issued, advert, selfFingerprints>>

Move(h) ==
  /\ Change
  /\ \E a \in Addr \ {addr[g] : g \in Host} : addr' = [addr EXCEPT ![h] = a]
  /\ UNCHANGED <<cert, issued, advert, selfFingerprints>>

(* Advertise publishes the advert, then counts the fingerprint; the closer *)
(* withdraws the advert, then gives the count back.                        *)
Own(a, from, to, count) ==
  /\ Change /\ advert[a] = from
  /\ advert' = [advert EXCEPT ![a] = to]
  /\ selfFingerprints' = count
  /\ UNCHANGED <<addr, cert, issued>>

Advertise(a) == Own(a, "closed", "published", selfFingerprints)
RegisterSelf(a) == Own(a, "published", "open", selfFingerprints + 1)
Shutdown(a) == Own(a, "open", "withdrawn", selfFingerprints)

(* A mutant of Release: the first advert closed takes the fingerprint out. *)
ReleaseDeletes(a) == Own(a, "withdrawn", "closed", 0)

Release(a) ==
  Own(a, "withdrawn", "closed", IF selfFingerprints <= 1 THEN 0 ELSE selfFingerprints - 1)

Around ==
  /\ step \in {"browse", "probe"}
  /\ \/ \E l \in Runs : Start(l) \/ Stop(l)
     \/ \E h \in Host : Move(h)
     \/ \E a \in Advert : Advertise(a) \/ RegisterSelf(a) \/ Shutdown(a) \/ Release(a)
  /\ UNCHANGED <<browse, scan, matches, step>>

-----------------------------------------------------------------------------
(* Browse.                                                                 *)

isSelfFingerprint(fp) == fp = cert[Mine] /\ selfFingerprints > 0

(* A window opens; localIPs may fail, and is not read again.               *)
OpenWindow ==
  \E local \in {{}, {addr[Me]}} : browse' = [local |-> local, seen |-> {}]

(* What listener l announces; an offer carries no identity.                *)
Entry(l) ==
  [host |-> addr[l[1]], port |-> l[2], role |-> l[2], fp |-> cert[l],
   id |-> IF l[2] = "offer" THEN None ELSE Id(l[1])]

Announced(l) ==
  /\ cert[l] # 0
  /\ l = Mine => \E a \in Advert : advert[a] \in {"published", "open"}

(* What browsing and probing found is gone when the call has used it.      *)
Nothing == [local |-> {}, seen |-> {}]
NoScan == [todo |-> {}, found |-> {}, swept |-> FALSE]
Forget == browse' = Nothing /\ scan' = NoScan

(* One peer is kept for a fingerprint, and one for an offer under it; an   *)
(* entry with none is kept for its instance.  The last one heard wins.     *)
SameKey(q, r) == q.fp # None /\ q.fp = r.fp /\ (q.role = "offer") = (r.role = "offer")

Hears(q) ==
  /\ step = "browse"
  /\ ~isSelfFingerprint(q.fp) /\ q.host \notin browse.local
  /\ browse' = [browse EXCEPT !.seen = {r \in @ : ~SameKey(q, r)} \cup {q}]
  /\ UNCHANGED <<scan, matches, step>>

Hear(l) == Announced(l) /\ Hears(Entry(l)) /\ UNCHANGED lan

(* (Nobody can announce a certificate that is yet to be made.)             *)
HearClaim(q) ==
  /\ q.fp \in Host \cup {None} \cup DOMAIN issued
  /\ Change /\ Hears(q)
  /\ UNCHANGED <<addr, cert, issued, advert, selfFingerprints>>

-----------------------------------------------------------------------------
(* MatchLocalDevices.                                                      *)

(* The first session that names a fingerprint gets it; None is no          *)
(* fingerprint.                                                            *)
Wanted == {i \in DOMAIN Sessions :
             /\ Sessions[i][2] # None
             /\ \A j \in 1 .. i - 1 : Sessions[j][2] # Sessions[i][2]}

MatchLocalDevices ==
  /\ step = "match"
  /\ IF Wanted = {} THEN step' = "done" /\ UNCHANGED browse
                    ELSE step' = "browse" /\ OpenWindow
  /\ UNCHANGED <<lan, scan, matches>>

browseTargets == {p.host : p \in browse.seen}

(* The subnets that are small enough to walk hold all addresses or none.   *)
localScanTargets(sweep) == IF sweep THEN Addr \ {addr[Me]} ELSE {}

(* Local subnets count only when browsing named no target.                 *)
scanTargets(sweep) ==
  (IF browseTargets # {} THEN browseTargets ELSE localScanTargets(sweep))
    \cup {addr[h] : h \in Tailnet}

Scan ==
  /\ step = "browse"
  /\ \E sweep \in BOOLEAN : scan' = [todo |-> scanTargets(sweep), found |-> {}, swept |-> sweep]
  /\ step' = "probe"
  /\ UNCHANGED <<lan, browse, matches>>

(* A probe goes to the default port.  No answer within the timeout, or one *)
(* of our own certificate, is no peer.                                     *)
probeReceiver(a) ==
  {[host |-> a, fp |-> cert[l], id |-> Identity(cert[l])] :
     l \in {k \in Runs : k[2] = "files" /\ addr[k[1]] = a /\ cert[k] # 0}}

Probe(a) ==
  /\ step = "probe" /\ a \in scan.todo
  /\ \E timely \in BOOLEAN :
       scan' = [scan EXCEPT !.todo = @ \ {a},
                            !.found = @ \cup {p \in probeReceiver(a) : timely /\ ~isSelfFingerprint(p.fp)}]
  /\ UNCHANGED <<lan, browse, matches, step>>

(* A mutant of Candidates: the identity an address was announced with.     *)
CandidatesAnnounced(i) ==
  {p \in scan.found : \E q \in browse.seen : q.host = p.host /\ q.id = Sessions[i][2]}

(* The peers that proved the identity session i names.                     *)
Candidates(i) == {p \in scan.found : p.id = Sessions[i][2]}

(* A session gets one of them.  (The code takes the first in the order of  *)
(* addresses, which have none here.)                                       *)
Match ==
  /\ step = "probe" /\ scan.todo = {}
  /\ \E pick \in [{i \in Wanted : Candidates(i) # {}} -> scan.found] :
       /\ \A i \in DOMAIN pick : pick[i] \in Candidates(i)
       /\ matches' = {<<Sessions[i][1], pick[i]>> : i \in DOMAIN pick}
  /\ step' = "done" /\ Forget
  /\ UNCHANGED lan

(* The context ends while probes are out: an error and no matches.         *)
ScanFails ==
  /\ step = "probe" /\ step' = "done" /\ Forget
  /\ UNCHANGED <<lan, matches>>

-----------------------------------------------------------------------------
DiscoveryInit ==
  /\ addr \in {f \in [Host -> Addr] : IsInjective(f)}
  /\ \E up \in {u \in SUBSET Runs : Mine \in u} :
       /\ issued = SetToSeq({Mine}) \o SetToSeq(up \ {Mine})
       /\ cert = [l \in Runs |-> IF l \in up THEN CHOOSE c \in DOMAIN issued : issued[c] = l ELSE 0]
  /\ advert \in [Advert -> {"closed", "open"}]
  /\ selfFingerprints = Cardinality({a \in Advert : advert[a] = "open"})
  /\ changes = 0
  /\ browse = Nothing
  /\ scan = NoScan
  /\ matches = {}

DiscoveryNext ==
  \/ Around
  \/ \E l \in Runs : Hear(l)
  \/ \E q \in Claims : HearClaim(q)
=============================================================================
