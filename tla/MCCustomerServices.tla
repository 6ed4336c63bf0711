-------------------------- MODULE MCCustomerServices --------------------------
(* Values of CustomerServices' constants for TLC: a customer for each        *)
(* service.                                                                *)
EXTENDS CustomerServices, TLC

CONSTANTS m1, w1, w2, r1, r2, n1, n2, g1, s1, s2, e1, e2, e3, genesis,
          p1, h1, h2, d1, d2, c1, c2, k1, k2, v1, v2, a1, a2

OneMandate    == {m1}
TwoCollectors == {w1, w2}
TwoRequests   == {r1, r2}
TwoReminders  == {n1, n2}
OneGoal       == {g1}
OneDisputed   == {p1}
TwoHandlers   == {h1, h2}
TwoDeposits   == {d1, d2}
OneClerk      == {c1}
TwoClerks     == {c1, c2}
TwoSavers     == {s1, s2}
ThreeEvents   == {e1, e2, e3}
TwoCharges    == {k1, k2}
TwoAssessors  == {v1, v2}
TwoAccruers   == {a1, a2}

EachByItself == {{s} : s \in Services}

FixedNone == [m \in MandateIds |-> 0]
UpToTwo   == [m \in MandateIds |-> 2]
EveryDay  == [m \in MandateIds |-> 1]
OneAndTwo == [r \in Requests |-> IF r = r1 THEN 1 ELSE 2]
OneOff    == [p \in Disputed |-> 1]
Ones      == [d \in Deposits |-> 1]
OneEach   == [k \in Charges |-> 1]
TwoThirds == [d \in Days |-> IF d = 2 THEN 3 ELSE 2]

=============================================================================
