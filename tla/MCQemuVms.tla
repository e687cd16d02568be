------------------------------ MODULE MCQemuVms ------------------------------
EXTENDS QemuVms

CONSTANTS t1, t2
MCTapSets == {{t1}, {t2}}
Host(taps, members, bridge, marker) ==
  [taps |-> taps, members |-> members, bridge |-> bridge, marker |-> marker]
Empty == Host({}, {}, FALSE, FALSE)
Own == Host({t1}, {}, TRUE, FALSE)
Left == Host({t1}, {t1}, TRUE, TRUE)   \* by the process of a kit that was killed
Stale == Host({}, {}, FALSE, TRUE)     \* its marker, after a reboot
MCHosts == {Empty, Own, Left, Stale}
=============================================================================
