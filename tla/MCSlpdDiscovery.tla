--------------------------- MODULE MCSlpdDiscovery ---------------------------
(***************************************************************************)
(* Configurations for SlpdDiscovery: check periods that divide into alarms *)
(* or not, one below the minimum, one that is off, a DA with a heartbeat   *)
(* of its own, hosts that do not agree, and discovery once, periodically   *)
(* or never.                                                               *)
(***************************************************************************)
EXTENDS SlpdDiscovery

Conf(sa, da, beat, passive, active, interval, static) ==
    [saPeriod |-> sa, daPeriod |-> da, heartBeat |-> beat, saPassive |-> passive,
     daPassive |-> TRUE, active |-> active, interval |-> interval, static |-> static]

MCConfigs ==
    {Conf(p, p, 10800, TRUE, TRUE, 1, FALSE) : p \in {1} \cup 60..62 \cup {74, 75, 89, 104}}
    \cup {Conf(60, 0, 15, TRUE, FALSE, 900, FALSE), Conf(90, 60, 0, TRUE, TRUE, 0, TRUE),
          Conf(0, 0, 30, TRUE, TRUE, 1, TRUE), Conf(60, 90, 40, TRUE, TRUE, 1, FALSE),
          Conf(60, 60, 10800, FALSE, TRUE, 300, TRUE),
          [Conf(60, 0, 30, TRUE, TRUE, 1, TRUE) EXCEPT !.daPassive = FALSE]}

\* Only the configured DA: no discovery of either kind.
StaticOnly == {Conf(0, 0, 30, FALSE, FALSE, 900, TRUE)}
=============================================================================
