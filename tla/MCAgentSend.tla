---------------------------- MODULE MCAgentSend ----------------------------
EXTENDS AgentSend, TLC

CONSTANTS me, laptop, desk, s1, s2, s3

MCRuns == {<<me, "files">>, <<laptop, "files">>, <<laptop, "agent">>,
           <<desk, "files">>, <<desk, "agent">>}
MCSessions == << <<s1, laptop>>, <<s2, None>>, <<s3, laptop>> >>
\* The certificate, the port or the fingerprint is not the target's; and an offer of a
\* certificate some listener has.
MCClaims ==
  [host : Addr, port : {"agent"}, role : {"agent"}, fp : {2}, id : {laptop}]
    \cup [host : Addr, port : {"files"}, role : {"agent"}, fp : {laptop, None}, id : {laptop}]
    \cup [host : Addr, port : {"offer"}, role : {"offer"}, fp : {2}, id : {None}]
NoClaims == {}
MCAsks == {Silent, 0, 2, 9}
Symmetry == Permutations(Addr) \cup Permutations(Advert)
=============================================================================
