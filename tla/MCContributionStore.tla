------------------------ MODULE MCContributionStore -------------------------
EXTENDS ContributionStore
CONSTANTS setup, finding, check, recheck, note, p1, p2, p3

Linked == [r \in {setup, finding, check, recheck, note} |->
            CASE r = finding -> {setup} [] r = check -> {finding}
              [] r = recheck -> {check} [] OTHER -> {}]
Verified == [r \in {setup, finding, check, recheck, note} |->
              CASE r = check -> {finding} [] r = recheck -> {check}
                [] OTHER -> {}]
OwnRecords == [p \in {p1, p2} |->
                IF p = p1 THEN {setup, check} ELSE {finding, recheck, note}]
OneRecord == [p \in Publishers |-> Records]
Unlinked == [r \in Records |-> {}]
=============================================================================
