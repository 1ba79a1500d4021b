SPECIFICATION Spec
CONSTANTS
  setup = setup
  finding = finding
  check = check
  recheck = recheck
  note = note
  p1 = p1
  p2 = p2
  p3 = p3
  Records = {setup, finding, check, recheck, note}
  Parents <- Linked
  Targets <- Verified
  Verifications = {check, recheck}
  Crlf = {note}
  Publishers = {p1, p2}
  Makes <- OwnRecords
  Readers = {q1}
  Failing = {"crash", "io"}
  MaxFaults = 2
  NoRecord = NoRecord
INVARIANTS AckedReadable FreshView
PROPERTY KeepsDag
