----------------------------- MODULE MCSlpdMain -----------------------------
EXTENDS SlpdMain

CONSTANTS c1, c2, lo, eth

MCClient == {c1, c2}
MCServer == (c1 :> eth) @@ (c2 :> lo)
MCPlans == (c1 :> {<<2, 3>>}) @@ (c2 :> {<<>>})
MCReplyLength == {0, 2}
MCAddr == {lo, eth}
MCLoopback == {lo}
MCInterfaces == {{}, {eth}}
MCIPv6 == {}
MCMayFail == {}
=============================================================================
