------------------------ MODULE GmailConnectorProofs ------------------------
(***************************************************************************)
(* Theorems about GmailConnector: its types, the promise of MailIntake,    *)
(* and the failures a download survives, for any mailbox, window, page     *)
(* size and number of retries.                                             *)
(***************************************************************************)
EXTENDS GmailConnector, TLAPS

(* The file parts of an email are places in it. *)
LEMMA StubsTyped ==
    ASSUME NEW m \in Mails
    PROVE  Stubs(m) \subseteq Nat
<1>1. Parts[m] \in Seq(Kinds)
  BY GmailAssumption
<1>2. QED
  BY <1>1 DEF Stubs

(* A page is asked for while there is room for more. *)
RoomForPage == pc = "list" => Len(envelopes) < Window

(* A download that is tried has attempts left, and those it has used are   *)
(* its own: nothing has failed for the attachments after it.               *)
Tried == pc = "download" =>
    /\ attempts <= Retries
    /\ \A p \in Stubs(cur) \ DOMAIN got :
         Failed(p) = IF NextStub(p) THEN attempts ELSE 0

(* The envelope at hand is new, and what was downloaded is what it holds.  *)
InHand == pc = "download" =>
    ~Known(cur) /\ got = [p \in DOMAIN got |-> Payload(cur, p)]

(* The one whose label is taken off has a row. *)
Done == pc = "ack" => Known(cur)

(* A row is under the id of its email. *)
RowsNamed == \A m \in DOMAIN ledger : ledger[m].of = m

(* What is downloaded is from no excluded sender. *)
Admitted == pc = "download" => cur \notin Excluded

IntakeInv == TypeOK /\ RoomForPage /\ Tried /\ InHand /\ Done /\ RowsNamed /\ Admitted

-----------------------------------------------------------------------------
LEMMA InitIntake == Init => IntakeInv
<1> SUFFICES ASSUME Init PROVE IntakeInv
  OBVIOUS
<1>1. << >> \in Seq(Mails) /\ Len(<< >>) = 0 /\ DOMAIN << >> = {}
  OBVIOUS
<1>2. Window \in Nat /\ Retries \in Nat /\ MaxTroubles \in Nat
  BY GmailAssumption
<1>3. /\ box \in Seq(Mails) /\ page \in Seq(Mails) /\ batch \in Seq(Mails)
      /\ envelopes \in Seq(Mails) /\ Len(envelopes) <= Window /\ token \in 0..Len(box)
  BY <1>1, <1>2 DEF Init
<1>4. /\ attempts \in 0..Retries + 1 /\ troubles \in 0..MaxTroubles
      /\ DOMAIN ledger = {} /\ DOMAIN failed = {}
  BY <1>1, <1>2 DEF Init
<1>5. TypeOK
  BY <1>3, <1>4 DEF Init, TypeOK
<1>6. QED
  BY <1>4, <1>5 DEF Init, IntakeInv, RoomForPage, Tried, InHand, Done, RowsNamed, Admitted

(* An email arrives at the end of the mailbox: page tokens stay places.    *)
LEMMA ArriveIntake ==
    ASSUME IntakeInv, NEW m \in Mails, Arrive(m)
    PROVE  IntakeInv'
<1>1. TypeOK
  BY DEF IntakeInv
<1>2. UNCHANGED <<away, service, pc, page, more, token, envelopes, batch, cur, got, attempts,
                  failed, ledger, troubles>>
  BY DEF Arrive, listing, handling
<1>3. box' \in Seq(Mails) /\ Len(box') = Len(box) + 1
  BY <1>1 DEF Arrive, TypeOK
<1>4. token \in 0..Len(box')
  BY <1>1, <1>3 DEF TypeOK
<1>5. TypeOK'
  BY <1>1, <1>2, <1>3, <1>4 DEF TypeOK
<1>6. QED
  BY <1>2, <1>5 DEF IntakeInv, RoomForPage, Tried, Failed, NextStub, InHand, Known, Done,
     RowsNamed, Admitted

(* A process comes or goes. *)
LEMMA ProcessIntake ==
    ASSUME IntakeInv, Connect \/ Crash
    PROVE  IntakeInv'
<1>1. TypeOK
  BY DEF IntakeInv
<1>2. /\ UNCHANGED <<box, away, ledger>> /\ pc' \in {"idle", "off"}
      /\ service' \in BOOLEAN /\ troubles' \in 0..MaxTroubles
  <2>1. troubles' = troubles \/ (troubles < MaxTroubles /\ troubles' = troubles + 1)
    BY DEF Connect, Crash, Trouble
  <2>2. troubles' \in 0..MaxTroubles
    BY <1>1, <2>1, GmailAssumption DEF TypeOK
  <2>3. QED
    BY <2>2 DEF Connect, Crash
<1>3. CASE Connect
  <2>1. TypeOK'
    BY <1>1, <1>2, <1>3 DEF Connect, listing, handling, TypeOK
  <2>2. QED
    BY <1>2, <2>1 DEF IntakeInv, RoomForPage, Tried, InHand, Done, RowsNamed, Admitted
<1>4. CASE Crash
  <2>1. << >> \in Seq(Mails) /\ Len(<< >>) <= Window /\ 0 \in 0..Len(box)
        /\ 0 \in 0..Retries + 1 /\ DOMAIN << >> = {}
    BY <1>1, GmailAssumption DEF TypeOK
  <2>2. TypeOK'
    BY <1>1, <1>2, <1>4, <2>1 DEF Crash, TypeOK
  <2>3. QED
    BY <1>2, <2>2 DEF IntakeInv, RoomForPage, Tried, InHand, Done, RowsNamed, Admitted
<1>5. QED
  BY <1>3, <1>4

(* messages.list and messages.get (gmail_connector.py 62-103): no page is  *)
(* longer than what is left of the window and of the mailbox.              *)
LEMMA ListIntake ==
    ASSUME IntakeInv, Fetch \/ EmptyCycle \/ List \/ Get \/ NextPage \/ EndFetch \/ FetchRaises
    PROVE  IntakeInv'
<1>1. /\ TypeOK /\ Window \in Nat \ {0} /\ PageSize \in Nat \ {0}
      /\ box \in Seq(Mails) /\ envelopes \in Seq(Mails) /\ page \in Seq(Mails)
  BY GmailAssumption DEF IntakeInv, TypeOK
<1>2. /\ UNCHANGED <<box, away, service, cur, got, attempts, failed, ledger>>
      /\ pc' \in {"idle", "list", "page", "loop"}
      /\ troubles' \in 0..MaxTroubles
  <2>1. MaxTroubles \in Nat /\ troubles \in 0..MaxTroubles
    BY <1>1, GmailAssumption DEF TypeOK
  <2>2. CASE Fetch \/ NextPage
    BY <2>1, <2>2 DEF Fetch, NextPage, listing, handling
  <2>3. CASE EmptyCycle
    BY <2>1, <2>3 DEF EmptyCycle, vars
  <2>4. CASE List \/ Get
    BY <2>1, <2>4 DEF List, Get, handling
  <2>5. CASE EndFetch
    BY <2>1, <2>5 DEF EndFetch, Return
  <2>6. CASE FetchRaises
    BY <2>1, <2>6 DEF FetchRaises, Return, Trouble
  <2>7. QED
    BY <2>2, <2>3, <2>4, <2>5, <2>6
<1>3. /\ page' \in Seq(Mails) /\ more' \in BOOLEAN /\ token' \in 0..Len(box)
      /\ envelopes' \in Seq(Mails) /\ Len(envelopes') <= Window
      /\ batch' \in Seq(Mails)
      /\ pc' = "list" => Len(envelopes') < Window
  <2>1. CASE Fetch
    BY <1>1, <2>1 DEF Fetch, handling, TypeOK
  <2>2. CASE EmptyCycle
    BY <1>1, <2>2 DEF EmptyCycle, vars, TypeOK, IntakeInv, RoomForPage
  <2>3. CASE List
    <3> DEFINE n == Smaller(Smaller(PageSize, Window - Len(envelopes)), token)
    <3>1. n \in Nat /\ n <= token /\ token \in 0..Len(box)
      BY <1>1 DEF Smaller, TypeOK
    <3>2. /\ page' = [i \in 1..n |-> box[token + 1 - i]] /\ token' = token - n
          /\ more' = (token > n)
      BY <2>3 DEF List
    <3>3. \A i \in 1..n : box[token + 1 - i] \in Mails
      BY <1>1, <3>1
    <3> HIDE DEF n
    <3>4. page' \in Seq(Mails) /\ token' \in 0..Len(box)
      BY <1>1, <3>1, <3>2, <3>3
    <3>5. QED
      BY <1>1, <2>3, <3>2, <3>4 DEF List, handling, TypeOK
  <2>4. CASE Get
    BY <1>1, <2>4 DEF Get, handling, TypeOK
  <2>5. CASE NextPage
    BY <1>1, <2>5 DEF NextPage, MorePages, listing, handling, TypeOK
  <2>6. CASE EndFetch \/ FetchRaises
    BY <1>1, <2>6 DEF EndFetch, FetchRaises, Return, listing, TypeOK
  <2>7. QED
    BY <2>1, <2>2, <2>3, <2>4, <2>5, <2>6
<1>4. TypeOK'
  BY <1>1, <1>2, <1>3 DEF TypeOK
<1>5. QED
  BY <1>2, <1>3, <1>4 DEF IntakeInv, RoomForPage, Tried, InHand, Done, RowsNamed, Admitted

(* The next envelope of the batch is taken. *)
LEMMA TakeIntake ==
    ASSUME IntakeInv, SkipKnown \/ Exclude \/ Begin
    PROVE  IntakeInv'
<1>1. TypeOK
  BY DEF IntakeInv
<1>2. /\ batch # << >> /\ batch' = Tail(batch) /\ cur' = Head(batch)
      /\ got' = << >> /\ attempts' = 0 /\ failed' = << >>
      /\ pc' \in {"idle", "loop", "ack", "download"}
      /\ UNCHANGED <<box, away, service, page, more, token, envelopes, troubles>>
  BY DEF SkipKnown, Exclude, Begin, Take, listing
<1>3. cur' \in Mails /\ batch' \in Seq(Mails)
  BY <1>1, <1>2 DEF TypeOK
<1>4. DOMAIN got' = {} /\ DOMAIN failed' = {}
  BY <1>2
<1>5. DOMAIN ledger' \subseteq DOMAIN ledger \cup {cur'}
  BY DEF SkipKnown, Exclude, Begin, Enter, Bind
<1>6. TypeOK'
  BY <1>1, <1>2, <1>3, <1>4, <1>5, GmailAssumption DEF TypeOK
<1>7. Tried' /\ RoomForPage' /\ Admitted'
  <2>1. \A p : Failed(p)' = 0
    BY <1>4 DEF Failed
  <2>2. Tried'
    BY <1>2, <2>1, GmailAssumption DEF Tried
  <2>3. QED
    BY <1>2, <2>2 DEF RoomForPage, Admitted, SkipKnown, Exclude, Begin, Take
<1>8. InHand'
  <2>1. CASE Begin
    BY <1>2, <2>1 DEF Begin, InHand, Known
  <2>2. CASE SkipKnown \/ Exclude
    BY <2>2 DEF SkipKnown, Exclude, Take, InHand
  <2>3. QED
    BY <2>1, <2>2
<1>9. Done'
  <2>1. CASE Exclude
    BY <2>1 DEF Exclude, Enter, Bind, Done, Known
  <2>2. CASE SkipKnown \/ Begin
    BY <2>2 DEF SkipKnown, Begin, Take, Done
  <2>3. QED
    BY <2>1, <2>2
<1>10. RowsNamed'
  BY DEF IntakeInv, SkipKnown, Exclude, Begin, Enter, Bind, RowsNamed
<1>11. QED
  BY <1>6, <1>7, <1>8, <1>9, <1>10 DEF IntakeInv

(* Attachments are downloaded, with retries, and the envelope committed or *)
(* given up (gmail_connector.py 163-193, resilience.py 44-50).             *)
LEMMA EnvelopeIntake ==
    ASSUME IntakeInv, Download \/ DownloadRaises \/ Raise \/ Commit \/ Acknowledge
    PROVE  IntakeInv'
<1>1. TypeOK /\ Tried /\ InHand /\ RowsNamed /\ Admitted /\ Retries \in Nat
  BY GmailAssumption DEF IntakeInv
<1>2. /\ pc \in {"download", "ack"} /\ pc' \in {"idle", "loop", "download", "ack"}
      /\ UNCHANGED <<box, service, page, more, token, envelopes, batch, cur>>
      /\ troubles' \in 0..MaxTroubles
      /\ pc' = "download" => pc = "download"
  BY <1>1, GmailAssumption DEF Download, DownloadRaises, Downloading, Raise, Commit, Acknowledge,
     Resume, Trouble, listing, handling, TypeOK
<1>3. cur \in Mails /\ DOMAIN got \subseteq Stubs(cur) /\ Stubs(cur) \subseteq Nat
  BY <1>1, <1>2, StubsTyped DEF TypeOK
<1>3a. Admitted' /\ RoomForPage'
  BY <1>1, <1>2 DEF Admitted, RoomForPage
<1>4. CASE Download
  <2>1. PICK p \in Stubs(cur) : NextStub(p) /\ got' = Bind(got, p, Payload(cur, p))
    BY <1>4 DEF Download
  <2>2. DOMAIN got' \subseteq Stubs(cur) /\ got' = [x \in DOMAIN got' |-> Payload(cur, x)]
    <3>1. got = [x \in DOMAIN got |-> Payload(cur, x)]
      BY <1>1, <1>4 DEF Download, Downloading, InHand
    <3>2. QED
      BY <1>3, <2>1, <3>1 DEF Bind
  <2>3. pc = "download" /\ attempts' = 0 /\ UNCHANGED <<away, pc, failed, ledger, troubles>>
    BY <1>4 DEF Download, Downloading
  <2>4. TypeOK'
    BY <1>1, <1>2, <1>3, <2>2, <2>3 DEF TypeOK
  <2>5. Tried'
    <3>1. ASSUME NEW q \in Stubs(cur) \ DOMAIN got' PROVE Failed(q) = 0
      <4>1. q # p /\ q \notin DOMAIN got
        BY <2>1, <3>1 DEF Bind
      <4>2. p \in Stubs(cur) \ DOMAIN got /\ p <= q
        BY <2>1, <4>1 DEF NextStub
      <4>3. ~NextStub(q)
        BY <1>3, <4>1, <4>2 DEF NextStub
      <4>4. QED
        BY <1>1, <2>3, <4>1, <4>3 DEF Tried
    <3>2. \A q : Failed(q)' = Failed(q)
      BY <2>3 DEF Failed
    <3>3. QED
      BY <1>1, <1>2, <2>3, <3>1, <3>2 DEF Tried
  <2>6. QED
    BY <1>1, <1>2, <1>3a, <2>2, <2>3, <2>4, <2>5 DEF IntakeInv, InHand, Known, Done, RowsNamed
<1>5. CASE DownloadRaises
  <2>1. /\ pc = "download" /\ attempts' = attempts + 1
        /\ pc' = "download" => attempts # Retries
        /\ UNCHANGED <<away, got, ledger>> /\ pc' # "ack"
    BY <1>1, <1>5 DEF DownloadRaises, Downloading, LastAttempt, Resume, TypeOK
  <2>2. PICK p \in Stubs(cur) : NextStub(p) /\ failed' = Bind(failed, p, Failed(p) + 1)
    BY <1>5 DEF DownloadRaises
  <2>3. /\ attempts' \in 1..Retries + 1 /\ failed'[p] = attempts'
        /\ (pc' = "download" => attempts' <= Retries)
    <3>1. Failed(p) = attempts /\ attempts <= Retries /\ attempts \in Nat
      BY <1>1, <2>1, <2>2 DEF Tried, TypeOK, NextStub
    <3>2. QED
      BY <1>1, <2>1, <2>2, <3>1 DEF Bind
  <2>4. TypeOK'
    <3>1. \A q \in DOMAIN failed' : failed'[q] \in 1..Retries + 1
      BY <1>1, <2>2, <2>3 DEF Bind, TypeOK
    <3>2. QED
      BY <1>1, <1>2, <1>3, <2>1, <2>3, <3>1 DEF TypeOK
  <2>5. ASSUME NEW q \in Stubs(cur) \ DOMAIN got
        PROVE  Failed(q)' = IF NextStub(q) THEN attempts' ELSE 0
    <3>1. CASE q = p
      BY <2>2, <2>3, <3>1 DEF Failed, Bind
    <3>2. CASE q # p
      <4>1. ~NextStub(q)
        BY <1>3, <2>2, <3>2 DEF NextStub
      <4>2. Failed(q)' = Failed(q)
        BY <2>2, <3>2 DEF Failed, Bind
      <4>3. QED
        BY <1>1, <2>1, <4>1, <4>2 DEF Tried
    <3>3. QED
      BY <3>1, <3>2
  <2>6. Tried'
    <3>1. \A q : NextStub(q)' = NextStub(q)
      BY <1>2, <2>1 DEF NextStub
    <3>2. QED
      BY <1>2, <2>1, <2>3, <2>5, <3>1 DEF Tried
  <2>7. QED
    BY <1>1, <1>2, <1>3a, <2>1, <2>4, <2>6 DEF IntakeInv, InHand, Known, Done, RowsNamed
<1>6. CASE Commit
  <2>1. /\ ledger' = Bind(ledger, cur, [of |-> cur, files |-> got])
        /\ pc' = "ack" /\ UNCHANGED <<away, got, attempts, failed, troubles>>
    BY <1>6 DEF Commit, Enter, handling
  <2>2. TypeOK'
    BY <1>1, <1>2, <1>3, <2>1 DEF TypeOK, Bind
  <2>3. QED
    BY <1>1, <1>2, <1>3a, <2>1, <2>2
       DEF IntakeInv, Tried, InHand, Known, Done, RowsNamed, Bind
<1>7. CASE Acknowledge
  <2>1. /\ away' \subseteq away \cup {cur} /\ pc' \in {"idle", "loop"}
        /\ UNCHANGED <<got, attempts, failed, ledger>>
    BY <1>7 DEF Acknowledge, Resume, handling
  <2>2. TypeOK'
    BY <1>1, <1>2, <1>3, <2>1 DEF TypeOK
  <2>3. QED
    BY <1>1, <1>3a, <2>1, <2>2 DEF IntakeInv, Tried, InHand, Done, RowsNamed
<1>8. CASE Raise
  <2>1. pc' \in {"idle", "loop"} /\ UNCHANGED <<away, got, attempts, failed, ledger>>
    BY <1>8 DEF Raise, Resume, handling
  <2>2. TypeOK'
    BY <1>1, <1>2, <1>3, <2>1 DEF TypeOK
  <2>3. QED
    BY <1>1, <1>3a, <2>1, <2>2 DEF IntakeInv, Tried, InHand, Done, RowsNamed
<1>9. QED
  BY <1>4, <1>5, <1>6, <1>7, <1>8

LEMMA StepIntake == IntakeInv /\ [Next]_vars => IntakeInv'
<1> SUFFICES ASSUME IntakeInv, [Next]_vars PROVE IntakeInv'
  OBVIOUS
<1>1. CASE UNCHANGED vars
  BY <1>1 DEF vars, IntakeInv, TypeOK, RoomForPage, Tried, Failed, NextStub, InHand, Known, Done,
     RowsNamed, Admitted
<1>2. CASE \E m \in Mails : Arrive(m)
  BY <1>2, ArriveIntake
<1>3. CASE Connect \/ Crash
  BY <1>3, ProcessIntake
<1>4. CASE Fetch \/ EmptyCycle \/ List \/ Get \/ NextPage \/ EndFetch \/ FetchRaises
  BY <1>4, ListIntake
<1>5. CASE SkipKnown \/ Exclude \/ Begin
  BY <1>5, TakeIntake
<1>6. CASE Download \/ DownloadRaises \/ Raise \/ Commit \/ Acknowledge
  BY <1>6, EnvelopeIntake
<1>7. QED
  BY <1>1, <1>2, <1>3, <1>4, <1>5, <1>6 DEF Next, Engine

(* The connector holds emails of the mailbox, and no fetch collects more   *)
(* envelopes than were asked for (gmail_connector.py 62-103).              *)
THEOREM GmailTypeCorrect == Spec => []TypeOK
<1>1. IntakeInv => TypeOK
  BY DEF IntakeInv
<1>2. QED
  BY <1>1, InitIntake, StepIntake, PTL DEF Spec

(* A new row is the first of its email. *)
LEMMA NewlyEntered ==
    ASSUME IntakeInv, NEW m, ~Known(m), m \in Mails, NEW files,
           ledger' = Bind(ledger, m, [of |-> m, files |-> files]), UNCHANGED away
    PROVE  Intake!Enter(m, files)
<1>1. ~Intake!Entered(m)
  BY DEF IntakeInv, RowsNamed, Known, Kin, Intake!Entered
<1>2. /\ m \in DOMAIN ledger' /\ m \notin DOMAIN ledger
      /\ ledger' = [j \in DOMAIN ledger \cup {m} |->
                      IF j = m THEN [of |-> m, files |-> files] ELSE ledger[j]]
  BY DEF Bind, Known
<1>3. QED
  BY <1>1, <1>2 DEF Intake!Enter

(* A step of the connector and the loop is one of MailIntake, or none.     *)
LEMMA StepImplementsIntake ==
    ASSUME IntakeInv, [Next]_vars
    PROVE  [Intake!Next]_<<ledger, away>>
<1>1. TypeOK /\ InHand /\ Done /\ RowsNamed /\ Admitted
  BY DEF IntakeInv
<1>2. CASE Exclude
  <2>1. \E m \in Mails : /\ ~Known(m) /\ m \in Excluded
                         /\ ledger' = Bind(ledger, m, [of |-> m, files |-> << >>])
    BY <1>1, <1>2 DEF Exclude, Take, Known, Enter, TypeOK
  <2>2. PICK m \in Mails : /\ ~Known(m) /\ m \in Excluded
                           /\ ledger' = Bind(ledger, m, [of |-> m, files |-> << >>])
    BY <2>1
  <2>3. Intake!Enter(m, << >>)
    BY <1>2, <2>2, NewlyEntered DEF Exclude, Take
  <2>4. QED
    BY <2>2, <2>3 DEF Intake!Refuse, Intake!Next
<1>3. CASE Commit
  <2>1. pc = "download" /\ DOMAIN got = Stubs(cur) /\ Enter(cur, got) /\ UNCHANGED away
    BY <1>3 DEF Commit
  <2>2. cur \in Mails /\ cur \notin Excluded
    BY <1>1, <2>1 DEF TypeOK, Admitted
  <2>3. got = Contents[cur] /\ ~Known(cur)
    BY <1>1, <2>1, <2>2 DEF InHand, Contents
  <2>4. Intake!Enter(cur, Contents[cur])
    BY <2>1, <2>2, <2>3, NewlyEntered DEF Enter
  <2>5. QED
    BY <2>2, <2>4 DEF Intake!Take, Intake!Next
<1>4. CASE Acknowledge
  <2>1. pc = "ack" /\ cur \in Mails /\ UNCHANGED ledger
    BY <1>1, <1>4 DEF Acknowledge, TypeOK
  <2>2. away' = away \cup {cur} \/ away' = away
    BY <1>4 DEF Acknowledge
  <2>3. cur \in DOMAIN ledger /\ ledger[cur].of \in Kin[cur]
    BY <1>1, <2>1 DEF Done, RowsNamed, Known, Kin
  <2>4. Intake!PutAway(cur) \/ UNCHANGED <<ledger, away>>
    BY <2>1, <2>2, <2>3 DEF Intake!PutAway, Intake!Entered
  <2>5. QED
    BY <2>1, <2>4 DEF Intake!Next
<1>5. CASE \/ Connect \/ Fetch \/ EmptyCycle \/ List \/ Get \/ NextPage \/ EndFetch
           \/ SkipKnown \/ Begin \/ Download \/ FetchRaises \/ DownloadRaises \/ Raise \/ Crash
           \/ (\E m \in Mails : Arrive(m)) \/ UNCHANGED vars
  BY <1>5 DEF Connect, Fetch, EmptyCycle, List, Get, NextPage, EndFetch, Return, SkipKnown,
     Begin, Take, Download, FetchRaises, DownloadRaises, Raise, Crash, Arrive, vars
<1>6. QED
  BY <1>2, <1>3, <1>4, <1>5 DEF Next, Engine

(* The connector and the inbox loop keep the promise of MailIntake: no     *)
(* email is recorded twice, none without one of the files that the parser  *)
(* sees, none of an excluded sender with files, and UNREAD is taken off    *)
(* recorded emails only, through partial listings, retries, exceptions and *)
(* crashes (gmail_connector.py 53-193; engine.py 168-250).                 *)
THEOREM GmailKeepsIntake == Spec => ImplementsIntake
<1>1. Init => Intake!Init
  BY DEF Init, Intake!Init
<1>2. IntakeInv /\ [Next]_vars => [Intake!Next]_<<ledger, away>>
  BY StepImplementsIntake
<1>3. QED
  BY <1>1, <1>2, InitIntake, StepIntake, PTL DEF Spec, ImplementsIntake

(* A download that is given up is the last of Retries + 1 calls for one    *)
(* attachment.                                                             *)
LEMMA StepAbsorbs ==
    ASSUME IntakeInv, [Next]_vars, pc = "download", pc' \in {"idle", "loop"}, failed' # failed
    PROVE  \E p \in DOMAIN failed' : failed'[p] > Retries
<1>1. DownloadRaises
  BY DEF Next, Engine, Connect, Fetch, EmptyCycle, List, Get, NextPage, EndFetch, PageDone, SkipKnown,
     Exclude, Begin, Take, Download, Raise, Commit, Acknowledge, FetchRaises, Crash, Arrive, vars,
     handling
<1>2. attempts + 1 = Retries + 1
  BY <1>1 DEF DownloadRaises, LastAttempt
<1>3. PICK p \in Stubs(cur) : NextStub(p) /\ failed' = Bind(failed, p, Failed(p) + 1)
  BY <1>1 DEF DownloadRaises
<1>4. Failed(p) = attempts /\ attempts \in Nat /\ Retries \in Nat
  BY <1>3, GmailAssumption DEF IntakeInv, Tried, TypeOK, NextStub
<1>5. p \in DOMAIN failed' /\ failed'[p] > Retries
  BY <1>2, <1>3, <1>4 DEF Bind
<1>6. QED
  BY <1>5

(* Each attachment has all the retries for itself: an envelope is given up *)
(* by a failing download only after more failed calls for one attachment   *)
(* than there are retries, whatever their number and however the failures  *)
(* before it were spread (resilience.py 44-50, gmail_connector.py 163).    *)
THEOREM RetriesAbsorbOutages == Spec => OutagesAbsorbed
<1>1. IntakeInv /\ [Next]_vars =>
        [(pc = "download" /\ pc' \in {"idle", "loop"} /\ failed' # failed)
            => \E p \in DOMAIN failed' : failed'[p] > Retries]_vars
  BY StepAbsorbs
<1>2. QED
  BY <1>1, InitIntake, StepIntake, PTL DEF Spec, OutagesAbsorbed

=============================================================================
