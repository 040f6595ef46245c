----------------------------- MODULE AgentSend -----------------------------
(***************************************************************************)
(* SendAgentFile (agent_send.go): a hop to an agent of another device, and *)
(* the file with it.  The ciphertext goes straight to the device's         *)
(* agent-file receiver when discovery finds it (agent_lan_push.go), or to  *)
(* the relay; then the hop is sealed, signed over the nonce the file was   *)
(* staged under, and queued at the server (agent.go).                      *)
(*                                                                         *)
(* A program makes one call, of SendAgentFile or of MatchLocalDevices,     *)
(* while devices and this machine's own adverts come and go (Discovery).   *)
(* The transfer itself is one step here; LanPush models it.                *)
(***************************************************************************)
EXTENDS Discovery, ApiCall

CONSTANT Target

ASSUME TargetAssumption == Target \in Carded

VARIABLES
  p,       \* the parameters of the call
  file,    \* where the call has the file: on the target, on the relay, or nowhere yet
  staged,  \* the receivers that took the ciphertext under the nonce
  relayed, \* the relay has an object with it
  hops,    \* the hops the server has queued
  dest,    \* the peer the push goes to
  pinned,  \* the fingerprint the push that ended well went by
  result

send == <<p, file, staged, relayed, hops, dest, pinned, result>>
vars == <<discovery, call, send>>

Go(to) == step' = to
Return(r) == step' = "done" /\ result' = r
StaysOn == UNCHANGED <<lan, browse, scan, matches, call, p>>

(* Without a login with its keys, or when the file cannot be read or       *)
(* encrypted, nothing is sent.                                             *)
Prepare ==
  /\ step = "prepare"
  /\ \/ Return("error")
     \/ /\ UNCHANGED result
        /\ Go(IF ~p.file THEN "seal" ELSE IF p.fp = None THEN "upload" ELSE "push lan")
  /\ StaysOn /\ UNCHANGED <<file, staged, relayed, hops, dest, pinned>>

-----------------------------------------------------------------------------
(* pushAgentFileLAN.                                                       *)

PushAgentFileLAN ==
  /\ step = "push lan"
  /\ \/ Go("browse") /\ OpenWindow
     \/ Go("upload") /\ UNCHANGED browse \* no identity of our own, or no browsing
  /\ UNCHANGED <<lan, scan, matches, call, send>>

(* The instance says that it is the agent-file receiver, and that it is no *)
(* offer.                                                                  *)
selectAgentFilePeer == {q \in browse.seen : q.id = p.fp /\ q.role = "agent"}

Select ==
  /\ step = "browse"
  /\ IF selectAgentFilePeer = {}
       THEN Go("upload") /\ UNCHANGED dest
       ELSE Go("push") /\ dest' \in selectAgentFilePeer
  /\ browse' = Nothing
  /\ UNCHANGED <<lan, scan, matches, call, p, file, staged, relayed, hops, pinned, result>>

(* A mutant of Trusted: nothing is pinned.                                 *)
TrustedUnpinned(c, pin) == c # 0

(* Any certificate without a pin; else the pinned one itself, or one whose *)
(* card proves the pinned identity.                                        *)
Trusted(c, pin) == pin = None \/ c = pin \/ (Identity(c) # None /\ Identity(c) = pin)

(* Who answers at the address and port of dest and takes files: an offer   *)
(* does not.                                                               *)
Answering == {l \in Runs : /\ l[2] = dest.port /\ l[2] # "offer"
                           /\ addr[l[1]] = dest.host /\ cert[l] # 0}

(* The receiver stages the ciphertext, and the answer arrives or does not; *)
(* or nothing comes of it.  Any failure leads to the relay.                *)
Push ==
  /\ step = "push"
  /\ \/ \E l \in Answering :
          /\ Trusted(cert[l], dest.fp)
          /\ staged' = staged \cup {l}
          /\ \/ Go("seal") /\ file' = "lan" /\ pinned' = dest.fp
             \/ Go("upload") /\ UNCHANGED <<file, pinned>>
     \/ Go("upload") /\ UNCHANGED <<staged, file, pinned>>
  /\ dest' = None
  /\ StaysOn /\ UNCHANGED <<relayed, hops, result>>

-----------------------------------------------------------------------------
(* AgentUploadContent is tried once.                                       *)
Upload ==
  /\ step = "upload"
  /\ \E answer \in Final, acts \in BOOLEAN :
       /\ acts \in Acts(answer)
       /\ relayed' = (relayed \/ acts)
       /\ IF answer = "ok" THEN Go("seal") /\ file' = "relay" /\ UNCHANGED result
                           ELSE Return("error") /\ UNCHANGED file
  /\ StaysOn /\ UNCHANGED <<staged, hops, dest, pinned>>

(* The key of the target, or our own signing key, may not parse.           *)
SealAndSign ==
  /\ step = "seal"
  /\ \/ Return("error") /\ UNCHANGED call
     \/ Go("inject") /\ callStart /\ UNCHANGED result
  /\ UNCHANGED <<lan, browse, scan, matches, p, file, staged, relayed, hops, dest, pinned>>

(* AgentInject: one request, which doJSON may send again.                  *)
Hop == [lanFile |-> file = "lan", object |-> file = "relay", sealedKey |-> p.file]

AgentInject ==
  /\ step = "inject"
  /\ \E answer \in Final \cup {"limited"}, acts \in BOOLEAN, seconds \in Asks :
       /\ acts \in Acts(answer)
       /\ hops' = IF acts THEN Append(hops, Hop) ELSE hops
       /\ answer # "limited" => seconds = Silent
       /\ IF Resends(answer) /\ MayRetry(seconds)
            THEN Retry(seconds) /\ Go("wait") /\ UNCHANGED result
            ELSE Return(IF answer = "ok" THEN file ELSE "error") /\ callStart
  /\ UNCHANGED <<lan, browse, scan, matches, p, file, staged, relayed, dest, pinned>>

(* sleepContext: the wait is over, or the context is.                      *)
Wait ==
  /\ step = "wait"
  /\ callAgain
  /\ (Go("inject") /\ UNCHANGED result) \/ Return("error")
  /\ UNCHANGED <<lan, browse, scan, matches, p, file, staged, relayed, hops, dest, pinned>>

-----------------------------------------------------------------------------
Init ==
  /\ DiscoveryInit
  /\ call = NoCall
  /\ \/ /\ step = "match" /\ p = [file |-> FALSE, fp |-> None]
     \/ /\ step = "prepare" /\ p \in [file : BOOLEAN, fp : {None, Target}]
  /\ file = "" /\ staged = {} /\ relayed = FALSE /\ hops = <<>>
  /\ dest = None /\ pinned = None /\ result = "running"

(* Of the two calls only MatchLocalDevices scans what it has browsed, and  *)
(* only SendAgentFile selects from it, when there is a file.               *)
Matching == ~p.file

Next ==
  \/ DiscoveryNext /\ UNCHANGED <<call, send>>
  \/ MatchLocalDevices /\ UNCHANGED <<call, send>>
  \/ Matching /\ Scan /\ UNCHANGED <<call, send>>
  \/ \E a \in Addr : Probe(a) /\ UNCHANGED <<call, send>>
  \/ Match /\ UNCHANGED <<call, send>>
  \/ ScanFails /\ UNCHANGED <<call, send>>
  \/ Prepare \/ PushAgentFileLAN \/ (~Matching /\ Select) \/ Push
  \/ Upload \/ SealAndSign \/ AgentInject \/ Wait

Spec == Init /\ [][Next]_vars

-----------------------------------------------------------------------------
(* The listener a fingerprint is of: the certificate's, one of the         *)
(* identity's, any when there is none.                                     *)
Names(fp, l) == fp = None \/ fp = l[1] \/ (fp \in DOMAIN issued /\ issued[fp] = l)

(* At most one hop is queued for a call, however often the request was     *)
(* sent, and none reported as sent is missing.  When it says that its file *)
(* comes over the LAN, a receiver has the file, and that is the one whose  *)
(* fingerprint the chosen advert carried (the target's own agent-file      *)
(* receiver, when it was an advert of that), though the address may have   *)
(* been another device's by then; else the hop names an object the relay   *)
(* has.  (SendAgentFile, pushAgentFileLAN, clientTLSConfig, doJSON.)       *)
OneHopWithItsFile ==
  /\ Len(hops) <= 1
  /\ result \in {"lan", "relay", ""} => Len(hops) = 1
  /\ \A i \in DOMAIN hops :
       /\ hops[i].lanFile => \E l \in staged : Names(pinned, l)
       /\ hops[i].object => relayed
       /\ p.file = (hops[i].lanFile \/ hops[i].object)

(* What agent_lan_push.go says of the push: it goes to the target device's *)
(* agent-file receiver, and any failure to get there leads to the relay.   *)
(* (The advert's own fingerprint is pinned, and nothing ties it to the     *)
(* identity the advert names.)                                             *)
LanFileIsAtTarget ==
  \A i \in DOMAIN hops : hops[i].lanFile => <<Target, "agent">> \in staged

(* A request is sent again no sooner than the server asked, up to the      *)
(* longest wait, whenever a Duration can hold what it asked.  (doJSON,     *)
(* retryWait.)                                                             *)
HonoursRetryAfter ==
  [][step = "wait" /\ step' = "inject" /\ call.asked # Silent /\ Representable(call.asked)
       => call.slept >= MaxWait \/ call.slept >= call.asked * Second]_vars

(* While an advert of this process is open, nothing this process discovers *)
(* carries its certificate: also when another advert of the same receiver  *)
(* has been closed, and our addresses could not be read or have changed.   *)
(* (Browse, Scan, registerSelf.)                                           *)
NeverSelf ==
  [][(\E a \in Advert : advert[a] = "open") =>
       \A q \in (browse'.seen \ browse.seen) \cup (scan'.found \ scan.found) :
         q.fp # cert[Mine]]_vars

(* A device is matched only to a receiver that proved the device's         *)
(* identity, wherever it was announced; no session twice, no device for    *)
(* two sessions, and never an empty fingerprint.  (MatchLocalDevices.)     *)
MatchIsVerified ==
  /\ \A m \in matches :
       \E i \in DOMAIN Sessions :
         Sessions[i] = <<m[1], issued[m[2].fp][1]>> /\ m[2].id = Sessions[i][2]
  /\ \A m, n \in matches : m # n => m[1] # n[1] /\ issued[m[2].fp][1] # issued[n[2].fp][1]

(* What lanroute.go says of its browse window: a device that has not       *)
(* announced within it is simply one the sweep has to find.  Where the     *)
(* subnet can be swept, the address of every wanted device that listens is *)
(* probed.  (MatchLocalDevices, Scan.)                                     *)
SweepFindsTheQuiet ==
  [][scan'.swept /\ ~scan.swept =>
       \A i \in Wanted :
         LET l == <<Sessions[i][2], "files">> IN
         l \in Runs /\ cert[l] # 0 => addr[l[1]] \in scan'.todo]_vars
=============================================================================
