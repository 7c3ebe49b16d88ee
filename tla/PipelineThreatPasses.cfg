SPECIFICATION Spec
CONSTANTS
  m1 = m1
  m2 = m2
  m3 = m3
  m4 = m4
  m5 = m5
  m6 = m6
  m7 = m7
  m8 = m8
  m9 = m9
  m10 = m10
  m11 = m11
  pA = pA
  pB = pB
  pX = pX
  pZ = pZ
  s1 = s1
  s2 = s2
  t1 = t1
  t2 = t2
  Workers = {w1, w2}
  Messages = {m9}
  MaxFaults = 0
  MaxCrashes = 0
  QuarantineOnMismatch = TRUE
  Attachments <- MCAttachments
  Payloads = {pA, pB, pX, pZ}
  Threats = {pA}
  Senders = {s1, s2}
  SenderOf <- MCSenderOf
  Threads = {t1, t2}
  NoThread = NoThread
  ThreadOf <- MCThreadOf
  Similar <- MCSimilar
  Bases <- MCBases
  Exts <- MCExts
  MaxSuffix = 3
  Vault = Vault
  NoSha = NoSha
  Sidecar = Sidecar
  Report = Report
  Diff = Diff
SYMMETRY WorkerSymmetry
INVARIANT NoThreatRecordedClean
CHECK_DEADLOCK FALSE
